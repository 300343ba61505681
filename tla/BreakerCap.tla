------------------------------- MODULE BreakerCap ------------------------------
(***************************************************************************)
(* The breaker cap of app/control/power_utils.py: per-phase grid currents  *)
(* are kept in rolling buffers, and every iteration of the control loop    *)
(* passes its setpoint through limit_phase_current, which may reduce it or *)
(* trip a latch that keeps it at 0 until there is headroom to spare.       *)
(*                                                                         *)
(* Currents are integers, UnitsPerAmp to the ampere, and signed (export is *)
(* negative); a mean is rounded down to one unit.  Powers are in watts.    *)
(* Phase voltages are the constant Volts: they come from the same register *)
(* block as the currents, and a missing reading shows in the currents.     *)
(***************************************************************************)
EXTENDS Integers, FiniteSets, FiniteSetsExt

CONSTANTS
    None,           \* a reading that is not available
    UnitsPerAmp,    \* units of current to the ampere
    Volts,          \* voltage of each phase
    BreakerLimit,   \* grid_breaker_limit_a, in units of current
    ActiveCurrent,  \* _PHASE_ACTIVE_THRESHOLD_A
    MinCharge,      \* _MIN_CHARGE_W
    RestartMargin,  \* _BREAKER_CAP_RESTART_MARGIN_W
    Window,         \* _PHASE_CURRENT_MEAN_WINDOW_S
    TickLengths,    \* the seconds that may pass between two iterations
    Requests,       \* the positive setpoints that may reach the cap
    GridReadings,   \* what a Victron read may leave: functions from Phases
    EvReadings      \* what an EV read may leave: functions from Phases

Phases == 1..3

ASSUME NoneAssumption == None \notin Int
ASSUME PowerAssumption ==
    /\ MinCharge \in Nat \ {0} /\ RestartMargin \in Nat
    /\ \A w \in Requests : w \in Nat /\ w >= MinCharge
ASSUME ElectricAssumption ==
    /\ UnitsPerAmp \in Nat \ {0} /\ Volts \in Nat /\ BreakerLimit \in Nat
    /\ ActiveCurrent \in Nat /\ Window \in Nat /\ TickLengths \subseteq Nat \ {0}
ASSUME ReadingAssumption ==
    /\ GridReadings \subseteq [Phases -> Int \cup {None}]
    /\ EvReadings \subseteq [Phases -> Nat \cup {None}]

VARIABLES
    grid,       \* victron_l{1,2,3}_current_a after the last read
    evCurrent,  \* ev_current_{a,b,c}
    samples,    \* _l{1,2,3}_current_samples: functions from the ages of the samples
    tripped,    \* _breaker_cap_tripped
    request,    \* the setpoint that came into the cap
    setpoint    \* the setpoint that left it

vars == <<grid, evCurrent, samples, tripped, request, setpoint>>

-------------------------------------------------------------------------------
SafetyLimit == (4 * BreakerLimit) \div 5         \* _BREAKER_SAFETY_FRACTION

InstantThreshold == (9 * BreakerLimit) \div 10   \* _BREAKER_INSTANT_THRESHOLD_FRACTION

NoSamples == [a \in {} |-> 0]

\* Samples become d seconds older, the ones that leave the window are pruned, and
\* the reading, if there is one, is new.
Recorded(s, reading, d) ==
    LET kept == {a \in 0 .. Window : a - d \in DOMAIN s}
        new  == IF reading = None THEN {} ELSE {0}
    IN  [a \in kept \cup new |-> IF a \in kept THEN s[a - d] ELSE reading]

\* For each age, the sum of the samples up to it.
Sums(s) ==
    LET sum[a \in 0 .. Window] ==
          (IF a \in DOMAIN s THEN s[a] ELSE 0) + (IF a = 0 THEN 0 ELSE sum[a - 1])
    IN  sum

MeanPhaseCurrent(s) == Sums(s)[Window] \div Cardinality(DOMAIN s)

DataMissing(g, e, s) ==
    \E p \in Phases : g[p] = None \/ e[p] = None \/ DOMAIN s[p] = {}

\* The phases the charger draws on; all of them when it does not draw.
ActivePhases(e) ==
    LET drawing == {p \in Phases : e[p] > ActiveCurrent}
    IN  IF drawing = {} THEN Phases ELSE drawing

\* Mutant of GridUsed: no instantaneous override.
GridMeanOnly(g, s, p) == MeanPhaseCurrent(s[p])

\* The rolling mean, unless the reading itself calls for an instant reaction.
GridUsed(g, s, p) ==
    IF g[p] > InstantThreshold THEN g[p] ELSE MeanPhaseCurrent(s[p])

\* What the charger may draw on phase p: the limit less the household's share.
Headroom(g, e, s, p) == SafetyLimit - (GridUsed(g, s, p) - e[p])

\* The power the charger may take without any active phase passing the limit.
PCap(g, e, s) ==
    LET active == ActivePhases(e)
        least  == Min({Headroom(g, e, s, p) : p \in active})
    IN  IF least <= 0 THEN 0
        ELSE (least * Cardinality(active) * Volts) \div UnitsPerAmp

-------------------------------------------------------------------------------
Init ==
    /\ grid = [p \in Phases |-> None]
    /\ evCurrent = [p \in Phases |-> None]
    /\ samples = [p \in Phases |-> NoSamples]
    /\ tripped = FALSE
    /\ request = 0
    /\ setpoint = 0

\* The outcomes of limit_phase_current, for the readings just recorded.
CapNow == PCap(grid', evCurrent', samples')
Blind  == DataMissing(grid', evCurrent', samples')

NothingAsked(w) ==
    /\ w = 0
    /\ setpoint' = 0 /\ UNCHANGED tripped

\* Mutant of PassBlind: missing data waives the latch.
PassBlindAlways(w) ==
    w > 0 /\ Blind /\ setpoint' = w /\ UNCHANGED tripped

\* EC-1: no clamp on unknown data, unless the latch is set.
PassBlind(w) ==
    /\ w > 0 /\ Blind
    /\ setpoint' = IF tripped THEN 0 ELSE w
    /\ UNCHANGED tripped

\* Mutant of StayTripped: no restart below what was asked for.
StayTrippedUntilUncapped(w) ==
    /\ w > 0 /\ ~Blind
    /\ tripped /\ CapNow < w
    /\ setpoint' = 0 /\ UNCHANGED tripped

\* FR-13: too little headroom to restart.
StayTripped(w) ==
    /\ w > 0 /\ ~Blind
    /\ tripped /\ CapNow < MinCharge + RestartMargin
    /\ setpoint' = 0 /\ UNCHANGED tripped

\* Mutant of MayCharge: the minimum is enough for a restart.
MayChargeAtMinimum(w) == w > 0 /\ ~Blind /\ (tripped => CapNow >= MinCharge)

MayCharge(w) ==
    w > 0 /\ ~Blind /\ (tripped => CapNow >= MinCharge + RestartMargin)

PassUncapped(w) ==
    /\ MayCharge(w) /\ CapNow >= w
    /\ setpoint' = w /\ tripped' = FALSE

Reduce(w) ==
    /\ MayCharge(w) /\ CapNow < w /\ CapNow >= MinCharge
    /\ setpoint' = CapNow /\ tripped' = FALSE

\* FR-4: below the charger's minimum, stop and latch.
Trip(w) ==
    /\ MayCharge(w) /\ CapNow < w /\ CapNow < MinCharge
    /\ setpoint' = 0 /\ tripped' = TRUE

LimitPhaseCurrent(w) ==
    \/ NothingAsked(w) \/ PassBlind(w) \/ StayTripped(w)
    \/ PassUncapped(w) \/ Reduce(w)    \/ Trip(w)

\* One iteration of the loop, d seconds after the last: read, record, limit.
Cycle(g, e, w, d) ==
    /\ grid' = g
    /\ evCurrent' = e
    /\ samples' = [p \in Phases |-> Recorded(samples[p], g[p], d)]
    /\ request' = w
    /\ LimitPhaseCurrent(w)

Next ==
    \E g \in GridReadings, e \in EvReadings, w \in Requests \cup {0}, d \in TickLengths :
        Cycle(g, e, w, d)

Spec == Init /\ [][Next]_vars

-------------------------------------------------------------------------------
\* While the latch is set nothing is let through: not for a mode that asks
\* again, and not when the readings that would justify it go missing.
TrippedMeansStopped == tripped => setpoint = 0

\* The cap sees the current of a phase that reads past the instant threshold, and
\* of one whose samples in the window do not lie below the reading.
Seen(p) ==
    \/ grid[p] > InstantThreshold
    \/ \A a \in DOMAIN samples[p] : samples[p][a] >= grid[p]

\* FR-2 and FR-12: the share of the setpoint that falls on each active phase, put
\* on top of the household's current, brings a phase whose current the cap sees
\* within the safety limit: not only when all phases carry the car, and past the
\* threshold not only when the rolling mean agrees.
CapIsEnough ==
    ~DataMissing(grid, evCurrent, samples) /\ setpoint > 0 =>
        \A p \in ActivePhases(evCurrent) : Seen(p) =>
            (grid[p] - evCurrent[p] - SafetyLimit)
                * Cardinality(ActivePhases(evCurrent)) * Volts
              + setpoint * UnitsPerAmp <= 0

===============================================================================
