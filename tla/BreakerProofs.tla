------------------------------ MODULE BreakerProofs ----------------------------
(***************************************************************************)
(* The breaker cap, for every breaker, every window and every sequence of  *)
(* readings.  The latch is sound whatever headroom the rolling mean        *)
(* reports; for what the cap lets through, the mean need only be a number. *)
(***************************************************************************)
EXTENDS BreakerLatch, BreakerPlant, TLAPS, FiniteSetTheorems, WellFoundedInduction

\* The latch is the cap's own record of what the observer has seen.
LatchInv ==
    /\ tripped \in BOOLEAN
    /\ TrippedMeansStopped
    /\ capStopped => tripped

\* Every outcome of limit_phase_current that lets power through with the latch
\* set has seen the restart margin.
LEMMA RestartOutcome ==
    ASSUME NEW w \in Requests \cup {0}, LimitPhaseCurrent(w), tripped, setpoint' > 0
    PROVE  ~Blind /\ CapNow >= MinCharge + RestartMargin
<1>1. CASE NothingAsked(w)
      BY <1>1 DEF NothingAsked
<1>2. CASE PassBlind(w)
      BY <1>2 DEF PassBlind
<1>3. CASE StayTripped(w)
      BY <1>3 DEF StayTripped
<1>4. CASE PassUncapped(w)
      BY <1>4 DEF PassUncapped, MayCharge
<1>5. CASE Reduce(w)
      BY <1>5 DEF Reduce, MayCharge
<1>6. CASE Trip(w)
      BY <1>6 DEF Trip
<1>7. QED
      BY <1>1, <1>2, <1>3, <1>4, <1>5, <1>6 DEF LimitPhaseCurrent

\* Whatever the outcome, a set latch comes with setpoint 0.
LEMMA OutcomeStops ==
    ASSUME NEW w \in Requests \cup {0}, LimitPhaseCurrent(w), tripped \in BOOLEAN
    PROVE  tripped' \in BOOLEAN /\ (tripped' => setpoint' = 0)
<1>1. CASE NothingAsked(w)
      BY <1>1 DEF NothingAsked
<1>2. CASE PassBlind(w)
      BY <1>2 DEF PassBlind
<1>3. CASE StayTripped(w)
      BY <1>3 DEF StayTripped
<1>4. CASE PassUncapped(w)
      BY <1>4 DEF PassUncapped
<1>5. CASE Reduce(w)
      BY <1>5 DEF Reduce
<1>6. CASE Trip(w)
      BY <1>6 DEF Trip
<1>7. QED
      BY <1>1, <1>2, <1>3, <1>4, <1>5, <1>6 DEF LimitPhaseCurrent

\* A positive request leaves setpoint 0 only with the latch set.
LEMMA StopIsLatched ==
    ASSUME NEW w \in Requests \cup {0}, LimitPhaseCurrent(w), setpoint' = 0, w > 0
    PROVE  tripped'
<1> USE PowerAssumption
<1>1. CASE NothingAsked(w)
      BY <1>1 DEF NothingAsked
<1>2. CASE PassBlind(w)
      BY <1>2 DEF PassBlind
<1>3. CASE StayTripped(w)
      BY <1>3 DEF StayTripped
<1>4. CASE PassUncapped(w)
      BY <1>4 DEF PassUncapped, MayCharge
<1>5. CASE Reduce(w)
  <2>1. CapNow >= MinCharge /\ setpoint' = CapNow
        BY <1>5 DEF Reduce
  <2>2. QED
        BY <2>1
<1>6. CASE Trip(w)
      BY <1>6 DEF Trip
<1>7. QED
      BY <1>1, <1>2, <1>3, <1>4, <1>5, <1>6 DEF LimitPhaseCurrent

\* Only an outcome that lets power through takes the latch back.
LEMMA LatchHolds ==
    ASSUME NEW w \in Requests \cup {0}, LimitPhaseCurrent(w), tripped, setpoint' = 0
    PROVE  tripped'
<1> USE PowerAssumption
<1>1. CASE NothingAsked(w)
      BY <1>1 DEF NothingAsked
<1>2. CASE w > 0
      BY <1>2, StopIsLatched
<1>3. QED
      BY <1>1, <1>2 DEF LimitPhaseCurrent, PassBlind, StayTripped, PassUncapped, Reduce,
                        Trip, MayCharge

\* At the start nothing has been stopped.
LEMMA LatchInit == CapInit => LatchInv
BY DEF CapInit, Init, LatchInv, TrippedMeansStopped

\* Every pass keeps the latch and the observer in step.
LEMMA LatchStep ==
    ASSUME LatchInv, [CapNext]_<<vars, capStopped>>
    PROVE  LatchInv'
<1>1. CASE UNCHANGED <<vars, capStopped>>
      BY <1>1 DEF LatchInv, TrippedMeansStopped, vars
<1>2. CASE CapNext
  <2>1. PICK w \in Requests \cup {0} : LimitPhaseCurrent(w) /\ request' = w
        BY <1>2 DEF CapNext, Next, Cycle
  <2>2. tripped' \in BOOLEAN /\ (tripped' => setpoint' = 0)
        BY <2>1, OutcomeStops DEF LatchInv
  <2>3. capStopped' => tripped'
    <3>1. SUFFICES ASSUME capStopped' PROVE tripped'
          OBVIOUS
    <3>2. setpoint' = 0 /\ (w > 0 \/ capStopped)
          BY <1>2, <2>1, <3>1 DEF CapNext
    <3>3. CASE w > 0
          BY <2>1, <3>2, <3>3, StopIsLatched
    <3>4. CASE capStopped
          BY <2>1, <3>2, <3>4, LatchHolds DEF LatchInv
    <3>5. QED
          BY <3>2, <3>3, <3>4
  <2>4. QED
        BY <2>2, <2>3 DEF LatchInv, TrippedMeansStopped
<1>3. QED
      BY <1>1, <1>2

\* power_utils.py:162-279: while the latch is set the cap lets nothing through.
THEOREM LatchStopsCharger == CapSpec => []TrippedMeansStopped
<1>1. LatchInv => TrippedMeansStopped
      BY DEF LatchInv
<1>2. QED
      BY <1>1, LatchInit, LatchStep, PTL DEF CapSpec

\* FR-13: after the cap has stopped the charger, only a complete set of readings
\* with the restart margin starts it again.
THEOREM LatchNeedsMargin == CapSpec => RestartNeedsMargin
<1>1. ASSUME LatchInv, [CapNext]_<<vars, capStopped>>
      PROVE  [capStopped /\ setpoint' > 0 =>
                ~Blind /\ CapNow >= MinCharge + RestartMargin]_<<vars, capStopped>>
  <2>1. CASE CapNext
    <3>1. PICK w \in Requests \cup {0} : LimitPhaseCurrent(w)
          BY <2>1 DEF CapNext, Next, Cycle
    <3>2. capStopped => tripped
          BY <1>1 DEF LatchInv
    <3>3. QED
          BY <3>1, <3>2, RestartOutcome
  <2>2. QED
        BY <1>1, <2>1
<1>2. QED
      BY <1>1, LatchInit, LatchStep, PTL DEF CapSpec, RestartNeedsMargin

-------------------------------------------------------------------------------
\* A set of natural numbers has a least one.
LEMMA LeastExists ==
    ASSUME NEW S, S \subseteq Nat, S # {}
    PROVE  \E m \in S : \A n \in S : m <= n
<1> DEFINE below == {p \in Nat \X Nat : p[1] < p[2]}
<1>1. IsWellFoundedOn(below, Nat)
  BY NatLessThanWellFounded DEF OpToRel
<1>2. PICK m \in S : \A n \in S : <<n, m>> \notin below
  BY <1>1, WFMin
<1>3. \A a, b \in Nat : a < b => <<a, b>> \in below
  OBVIOUS
<1> HIDE DEF below
<1>4. ASSUME NEW n \in S PROVE m <= n
  <2>1. n \in Nat /\ m \in Nat /\ ~(n < m)
    BY <1>2, <1>3
  <2> QED
    BY <2>1
<1> QED
  BY <1>4

\* Products with a natural number grow with the other factor.
LEMMA ProductGrows ==
    ASSUME NEW a \in Int, NEW b \in Int, a <= b, NEW m \in Nat
    PROVE  a * m \in Int /\ b * m \in Int /\ a * m <= b * m
<1>1. PICK k \in Nat : b = a + k
  <2>1. b - a \in Nat /\ b = a + (b - a)
    OBVIOUS
  <2> QED
    BY <2>1
<1>2. (a + k) * m = a * m + k * m /\ k * m \in Nat /\ a * m \in Int
  OBVIOUS
<1> QED
  BY <1>1, <1>2

\* A quotient is rounded down.
LEMMA DivBound ==
    ASSUME NEW w \in Int, NEW x \in Int, NEW u \in Nat \ {0}, w <= x \div u
    PROVE  w * u <= x
<1>1. x \div u \in Int /\ (x \div u) * u <= x /\ (x \div u) * u \in Int
  OBVIOUS
<1>2. w * u <= (x \div u) * u /\ w * u \in Int
  BY <1>1, ProductGrows
<1> QED
  BY <1>1, <1>2

-------------------------------------------------------------------------------
\* The buffers and their means
Buffers == UNION {[ages -> Int] : ages \in SUBSET (0 .. Window)}

\* Recording keeps the samples of the window, and the reading.
LEMMA RecordedType ==
    ASSUME NEW s \in Buffers, NEW reading \in Int \cup {None}, NEW d \in Nat \ {0}
    PROVE  /\ Recorded(s, reading, d) \in Buffers
           /\ reading # None => 0 \in DOMAIN Recorded(s, reading, d)
<1> DEFINE kept == {a \in 0 .. Window : a - d \in DOMAIN s}
           new == IF reading = None THEN {} ELSE {0}
<1>1. s \in [DOMAIN s -> Int] /\ DOMAIN s \subseteq 0 .. Window /\ Window \in Nat
  BY ElectricAssumption DEF Buffers
<1>2. kept \cup new \in SUBSET (0 .. Window)
  BY <1>1
<1>3. \A a \in kept \cup new : (IF a \in kept THEN s[a - d] ELSE reading) \in Int
  BY <1>1
<1>4. Recorded(s, reading, d) = [a \in kept \cup new |-> IF a \in kept THEN s[a - d] ELSE reading]
  BY DEF Recorded
<1> HIDE DEF kept
<1>5. Recorded(s, reading, d) \in [kept \cup new -> Int]
  BY <1>3, <1>4
<1> QED
  BY <1>2, <1>4, <1>5 DEF Buffers

\* What the sample of age a adds to a sum.
Here(s, a) == IF a \in DOMAIN s THEN s[a] ELSE 0

Before(f, a) == IF a = 0 THEN 0 ELSE f[a - 1]

\* Sums up to any age exist: if not, there would be a least age without them.
LEMMA SumsExist ==
    ASSUME NEW s, \A a \in Nat : Here(s, a) \in Int, NEW n \in Nat
    PROVE  \E f \in [0 .. n -> Int] : \A a \in 0 .. n : f[a] = Here(s, a) + Before(f, a)
<1> DEFINE Has(k) == \E f \in [0 .. k -> Int] :
                        \A a \in 0 .. k : f[a] = Here(s, a) + Before(f, a)
           without == {k \in Nat : ~Has(k)}
<1>1. SUFFICES ASSUME without # {} PROVE FALSE
  OBVIOUS
<1>2. PICK m \in without : \A k \in without : m <= k
  <2>1. without \subseteq Nat
    OBVIOUS
  <2> HIDE DEF without
  <2> QED
    BY <1>1, <2>1, LeastExists
<1>3. m \in Nat /\ ~Has(m)
  OBVIOUS
<1>4. CASE m = 0
  <2> DEFINE f == [a \in 0 .. 0 |-> Here(s, 0)]
  <2>1. f \in [0 .. 0 -> Int] /\ \A a \in 0 .. 0 : f[a] = Here(s, a) + Before(f, a)
    BY DEF Before
  <2> QED
    BY <1>3, <1>4, <2>1
<1>5. CASE m # 0
  <2>1. m - 1 \in Nat /\ ~(m <= m - 1)
    BY <1>3, <1>5
  <2>2. Has(m - 1)
    BY <1>2, <2>1
  <2>3. PICK f \in [0 .. m - 1 -> Int] :
            \A a \in 0 .. m - 1 : f[a] = Here(s, a) + Before(f, a)
    BY <2>2
  <2> DEFINE g == [a \in 0 .. m |-> IF a = m THEN Here(s, m) + f[m - 1] ELSE f[a]]
  <2>4. g \in [0 .. m -> Int]
    BY <1>3, <2>1
  <2>5. ASSUME NEW a \in 0 .. m PROVE g[a] = Here(s, a) + Before(g, a)
    <3>1. CASE a = m
      BY <1>3, <1>5, <2>1, <3>1 DEF Before
    <3>2. CASE a # m
      <4>1. a \in 0 .. m - 1 /\ (a # 0 => a - 1 \in 0 .. m /\ a - 1 # m)
        BY <1>3, <3>2
      <4> QED
        BY <1>3, <2>3, <3>2, <4>1 DEF Before
    <3> QED
      BY <3>1, <3>2
  <2> QED
    BY <1>3, <2>4, <2>5
<1> QED
  BY <1>4, <1>5

\* Sums(s) adds the sample of each age to the sum before it, and is a number
\* wherever it is defined.
LEMMA SumsUnfold ==
    ASSUME NEW s \in Buffers
    PROVE  \A a \in 0 .. Window :
              Sums(s)[a] = Here(s, a) + Before(Sums(s), a) /\ Sums(s)[a] \in Int
<1>1. Window \in Nat /\ \A a \in Nat : Here(s, a) \in Int
  BY ElectricAssumption DEF Here, Buffers
<1>2. PICK f \in [0 .. Window -> Int] :
          \A a \in 0 .. Window : f[a] = Here(s, a) + Before(f, a)
  BY <1>1, SumsExist
<1>3. f = [a \in 0 .. Window |-> Here(s, a) + Before(f, a)]
  BY <1>2
<1>4. Sums(s) = CHOOSE g : g = [a \in 0 .. Window |-> Here(s, a) + Before(g, a)]
  BY DEF Sums, Here, Before
<1>5. Sums(s) = [a \in 0 .. Window |-> Here(s, a) + Before(Sums(s), a)]
  BY <1>3, <1>4
<1>6. \A a \in 0 .. Window : Sums(s)[a] = Here(s, a) + Before(Sums(s), a)
  BY <1>5
<1> DEFINE odd == {a \in 0 .. Window : Sums(s)[a] \notin Int}
<1>7. odd = {}
  <2>1. SUFFICES ASSUME odd # {} PROVE FALSE
    OBVIOUS
  <2>2. PICK m \in odd : \A k \in odd : m <= k
    <3>1. odd \subseteq Nat
      OBVIOUS
    <3> HIDE DEF odd
    <3> QED
      BY <2>1, <3>1, LeastExists
  <2>3. m \in 0 .. Window /\ Sums(s)[m] \notin Int
    OBVIOUS
  <2>4. Before(Sums(s), m) \in Int
    <3>1. CASE m = 0
      BY <3>1 DEF Before
    <3>2. CASE m # 0
      <4>1. m - 1 \in 0 .. Window /\ ~(m <= m - 1)
        BY <1>1, <2>3, <3>2
      <4>2. Sums(s)[m - 1] \in Int
        BY <2>2, <4>1
      <4> QED
        BY <3>2, <4>2 DEF Before
    <3> QED
      BY <3>1, <3>2
  <2> QED
    BY <1>1, <1>6, <2>3, <2>4
<1> QED
  BY <1>6, <1>7

\* The mean of a buffer that is not empty is a number.
LEMMA MeanType ==
    ASSUME NEW s \in Buffers, DOMAIN s # {}
    PROVE  /\ Cardinality(DOMAIN s) \in Nat \ {0}
           /\ MeanPhaseCurrent(s) \in Int
<1>1. Window \in Nat /\ DOMAIN s \in SUBSET (0 .. Window)
  BY ElectricAssumption DEF Buffers
<1>2. IsFiniteSet(DOMAIN s)
  <2>1. IsFiniteSet(0 .. Window)
    BY <1>1, FS_Interval
  <2> QED
    BY <1>1, <2>1, FS_Subset
<1>3. Cardinality(DOMAIN s) \in Nat \ {0}
  BY <1>2, FS_CardinalityType, FS_EmptySet
<1>4. Sums(s)[Window] \in Int
  BY <1>1, SumsUnfold
<1> QED
  BY <1>3, <1>4 DEF MeanPhaseCurrent

\* The mean is at least what every sample it is made of is.
LEMMA MeanAtLeast ==
    ASSUME NEW s \in Buffers, DOMAIN s # {}, NEW lo \in Int,
           \A a \in DOMAIN s : lo <= s[a]
    PROVE  lo <= MeanPhaseCurrent(s)
<1> DEFINE upTo(a) == DOMAIN s \cap (0 .. a)
           count(a) == Cardinality(upTo(a))
           Within(a) == lo * count(a) <= Sums(s)[a]
           odd == {a \in 0 .. Window : ~Within(a)}
<1>1. /\ Window \in Nat /\ DOMAIN s \in SUBSET (0 .. Window) /\ s \in [DOMAIN s -> Int]
      /\ \A a \in DOMAIN s : s[a] \in Int
  BY ElectricAssumption DEF Buffers
<1>2. \A a \in 0 .. Window : Sums(s)[a] = Here(s, a) + Before(Sums(s), a) /\ Sums(s)[a] \in Int
  BY SumsUnfold
<1>3. ASSUME NEW a \in 0 .. Window PROVE IsFiniteSet(upTo(a)) /\ count(a) \in Nat
  <2>1. IsFiniteSet(0 .. a)
    <3>1. 0 \in Int /\ a \in Int
      BY <1>1
    <3> QED
      BY <3>1, FS_Interval
  <2>2. IsFiniteSet(upTo(a))
    BY <2>1, FS_Subset
  <2> QED
    BY <2>2, FS_CardinalityType
<1>4. ASSUME NEW a \in 0 .. Window, a \notin DOMAIN s, a # 0
      PROVE  upTo(a) = upTo(a - 1)
  BY <1>1, <1>4
<1>5. ASSUME NEW a \in 0 .. Window, a \in DOMAIN s, a # 0
      PROVE  count(a) = count(a - 1) + 1
  <2>1. upTo(a) = upTo(a - 1) \cup {a} /\ a \notin upTo(a - 1) /\ a - 1 \in 0 .. Window
    BY <1>1, <1>5
  <2> HIDE DEF upTo
  <2> QED
    BY <1>3, <2>1, FS_AddElement
<1>6. count(0) = IF 0 \in DOMAIN s THEN 1 ELSE 0
  <2>1. CASE 0 \in DOMAIN s
    <3>1. upTo(0) = {0}
      BY <1>1, <2>1
    <3> QED
      BY <2>1, <3>1, FS_Singleton
  <2>2. CASE 0 \notin DOMAIN s
    <3>1. upTo(0) = {}
      BY <1>1, <2>2
    <3> QED
      BY <2>2, <3>1, FS_EmptySet
  <2> QED
    BY <2>1, <2>2
<1> HIDE DEF upTo, count
<1>7. Within(0)
  <2>1. Sums(s)[0] = Here(s, 0)
    BY <1>1, <1>2 DEF Before, Here
  <2> QED
    BY <1>1, <1>6, <2>1 DEF Here
<1>8. ASSUME NEW a \in 0 .. Window, a # 0, Within(a - 1) PROVE Within(a)
  <2>1. Sums(s)[a] = Here(s, a) + Sums(s)[a - 1]
    BY <1>2, <1>8 DEF Before
  <2>2. a - 1 \in 0 .. Window /\ Sums(s)[a - 1] \in Int /\ count(a - 1) \in Nat
    BY <1>1, <1>2, <1>3, <1>8
  <2>3. CASE a \in DOMAIN s
    <3>1. Here(s, a) = s[a] /\ s[a] \in Int /\ lo <= s[a]
      BY <1>1, <2>3 DEF Here
    <3>2. count(a) = count(a - 1) + 1
      BY <1>5, <1>8, <2>3
    <3>3. /\ lo * (count(a - 1) + 1) = lo * count(a - 1) + lo
          /\ lo * count(a - 1) \in Int
      BY <2>2
    <3> QED
      BY <1>8, <2>1, <2>2, <3>1, <3>2, <3>3
  <2>4. CASE a \notin DOMAIN s
    <3>1. count(a) = count(a - 1)
      BY <1>4, <1>8, <2>4 DEF count
    <3> QED
      BY <1>8, <2>1, <2>2, <2>4, <3>1 DEF Here
  <2> QED
    BY <2>3, <2>4
<1>9. odd = {}
  <2>1. SUFFICES ASSUME odd # {} PROVE FALSE
    OBVIOUS
  <2>2. PICK m \in odd : \A k \in odd : m <= k
    <3>1. odd \subseteq Nat
      OBVIOUS
    <3> HIDE DEF odd
    <3> QED
      BY <2>1, <3>1, LeastExists
  <2>3. m \in 0 .. Window /\ ~Within(m) /\ m # 0
    BY <1>7
  <2>4. m - 1 \in 0 .. Window /\ ~(m <= m - 1)
    BY <1>1, <2>3
  <2> HIDE DEF Within
  <2>5. Within(m - 1)
    BY <2>2, <2>4
  <2> QED
    BY <1>8, <2>3, <2>5
<1>10. count(Window) = Cardinality(DOMAIN s) /\ Window \in 0 .. Window
  <2>1. upTo(Window) = DOMAIN s
    BY <1>1 DEF upTo
  <2> QED
    BY <1>1, <2>1 DEF count
<1>11. Within(Window)
  BY <1>9, <1>10
<1> DEFINE n == Cardinality(DOMAIN s)
           sum == Sums(s)[Window]
<1>12. n \in Nat \ {0} /\ sum \in Int /\ lo * n <= sum
  BY <1>2, <1>10, <1>11, MeanType
<1> HIDE DEF n, sum
<1>13. lo <= sum \div n
  BY <1>12
<1> QED
  BY <1>13 DEF MeanPhaseCurrent, n, sum

-------------------------------------------------------------------------------
\* What the cap computes
Currents == [Phases -> Int \cup {None}]
Draws == [Phases -> Nat \cup {None}]

\* There are three phases.
LEMMA PhasesFinite == IsFiniteSet(Phases)
<1>1. PICK a \in Int, b \in Int : a = 1 /\ b = 3
  OBVIOUS
<1>2. IsFiniteSet(a .. b)
  BY FS_Interval
<1> QED
  BY <1>1, <1>2 DEF Phases

\* The phases that bind the cap: there is one, and at most all three.
LEMMA ActiveCount ==
    ASSUME NEW e
    PROVE  /\ ActivePhases(e) \in SUBSET Phases /\ ActivePhases(e) # {}
           /\ Cardinality(ActivePhases(e)) \in Nat \ {0}
<1>1. ActivePhases(e) \in SUBSET Phases /\ ActivePhases(e) # {}
  BY DEF ActivePhases, Phases
<1>2. IsFiniteSet(ActivePhases(e))
  BY <1>1, PhasesFinite, FS_Subset
<1> QED
  BY <1>1, <1>2, FS_CardinalityType, FS_EmptySet

\* With all data there the headroom of each phase is a number.
LEMMA HeadroomType ==
    ASSUME NEW g \in Currents, NEW e \in Draws, NEW b \in [Phases -> Buffers],
           ~DataMissing(g, e, b), NEW p \in Phases
    PROVE  /\ g[p] \in Int /\ e[p] \in Nat
           /\ GridUsed(g, b, p) \in Int /\ Headroom(g, e, b, p) \in Int
<1>1. g[p] \in Int /\ e[p] \in Nat /\ DOMAIN b[p] # {} /\ b[p] \in Buffers
  BY DEF DataMissing, Currents, Draws
<1>2. MeanPhaseCurrent(b[p]) \in Int
  BY <1>1, MeanType
<1>3. SafetyLimit \in Int
  BY ElectricAssumption DEF SafetyLimit
<1> QED
  BY <1>1, <1>2, <1>3 DEF GridUsed, Headroom

\* Three numbers have a least one among the active phases.
LEMMA LeastOfActive ==
    ASSUME NEW h, \A p \in Phases : h[p] \in Int,
           NEW A \in SUBSET Phases, A # {}
    PROVE  /\ Min({h[p] : p \in A}) \in Int
           /\ \A q \in A : Min({h[p] : p \in A}) <= h[q]
<1> DEFINE values == {h[p] : p \in A}
<1>1. \E v \in values : \A u \in values : v <= u
  <2>1. h[1] \in Int /\ h[2] \in Int /\ h[3] \in Int /\ Phases = {1, 2, 3}
    BY DEF Phases
  <2> QED
    BY <2>1
<1>2. Min(values) \in values /\ \A u \in values : Min(values) <= u
  BY <1>1 DEF Min
<1> QED
  BY <1>2

\* With all data there the cap is a power.
LEMMA CapType ==
    ASSUME NEW g \in Currents, NEW e \in Draws, NEW b \in [Phases -> Buffers],
           ~DataMissing(g, e, b)
    PROVE  PCap(g, e, b) \in Int
<1> DEFINE A == ActivePhases(e)
           h == [q \in Phases |-> Headroom(g, e, b, q)]
           least == Min({h[q] : q \in A})
           n == Cardinality(A)
<1>1. A \in SUBSET Phases /\ A # {} /\ n \in Nat \ {0}
  BY ActiveCount
<1>2. \A q \in Phases : h[q] \in Int
  BY HeadroomType
<1>3. least \in Int
  <2> HIDE DEF h, A
  <2> QED
    BY <1>1, <1>2, LeastOfActive
<1>4. {Headroom(g, e, b, q) : q \in A} = {h[q] : q \in A}
  BY <1>1
<1>5. PCap(g, e, b) = IF least <= 0 THEN 0 ELSE (least * n * Volts) \div UnitsPerAmp
  BY <1>4 DEF PCap
<1> HIDE DEF least, n, h
<1>6. least * n * Volts \in Int
  BY <1>1, <1>3, ElectricAssumption
<1>7. (least * n * Volts) \div UnitsPerAmp \in Int
  BY <1>6, ElectricAssumption
<1> QED
  BY <1>5, <1>7

\* A cap that lets power through leaves room for its share on each active phase.
LEMMA CapLeavesRoom ==
    ASSUME NEW g \in Currents, NEW e \in Draws, NEW b \in [Phases -> Buffers],
           ~DataMissing(g, e, b), NEW w \in Nat, w > 0, w <= PCap(g, e, b),
           NEW p \in ActivePhases(e)
    PROVE  /\ Headroom(g, e, b, p) > 0
           /\ w * UnitsPerAmp <= Headroom(g, e, b, p) * Cardinality(ActivePhases(e)) * Volts
<1> DEFINE A == ActivePhases(e)
           h == [q \in Phases |-> Headroom(g, e, b, q)]
           least == Min({h[q] : q \in A})
           n == Cardinality(A)
<1>1. A \in SUBSET Phases /\ A # {} /\ n \in Nat \ {0}
  BY ActiveCount
<1>2. \A q \in Phases : h[q] \in Int
  BY HeadroomType
<1>3. least \in Int /\ least <= h[p] /\ p \in Phases /\ h[p] = Headroom(g, e, b, p)
  <2> HIDE DEF h, A
  <2>1. least \in Int /\ \A q \in A : least <= h[q]
    BY <1>1, <1>2, LeastOfActive
  <2> QED
    BY <1>1, <2>1 DEF A, h
<1>4. {Headroom(g, e, b, q) : q \in A} = {h[q] : q \in A}
  BY <1>1
<1>5. PCap(g, e, b) = IF least <= 0 THEN 0 ELSE (least * n * Volts) \div UnitsPerAmp
  BY <1>4 DEF PCap
<1> HIDE DEF least, n, h
<1>6. least > 0 /\ w <= (least * n * Volts) \div UnitsPerAmp
  BY <1>3, <1>5
<1>7. Volts \in Nat /\ UnitsPerAmp \in Nat \ {0}
  BY ElectricAssumption
<1>8. w * UnitsPerAmp <= least * n * Volts
  <2>1. least * n * Volts \in Int
    BY <1>1, <1>3, <1>7
  <2>2. \A x \in Int : w <= x \div UnitsPerAmp => w * UnitsPerAmp <= x
    BY <1>7, DivBound
  <2> QED
    BY <1>6, <2>1, <2>2
<1>9. least * n * Volts <= h[p] * n * Volts
  <2>1. h[p] \in Int
    BY <1>2, <1>3
  <2>2. least * n <= h[p] * n /\ least * n \in Int /\ h[p] * n \in Int
    BY <1>1, <1>3, <2>1, ProductGrows
  <2> QED
    BY <1>7, <2>2, ProductGrows
<1>10. w * UnitsPerAmp \in Int /\ least * n * Volts \in Int /\ h[p] * n * Volts \in Int
  BY <1>1, <1>2, <1>3, <1>7
<1>11. h[p] > 0 /\ w * UnitsPerAmp <= h[p] * n * Volts
  BY <1>2, <1>3, <1>6, <1>8, <1>9, <1>10
<1> QED
  BY <1>3, <1>11 DEF n

-------------------------------------------------------------------------------
\* What is let through is covered by the readings it was let through on.
CapTypes ==
    /\ grid \in Currents /\ evCurrent \in Draws /\ samples \in [Phases -> Buffers]
    /\ setpoint \in Nat

Covered ==
    ~DataMissing(grid, evCurrent, samples) /\ setpoint > 0
       => setpoint <= PCap(grid, evCurrent, samples)

CapInv == CapTypes /\ Covered

\* No power at all is always covered.
LEMMA CapStart == Init => CapInv
<1> SUFFICES ASSUME Init PROVE CapInv
    OBVIOUS
<1>1. NoSamples \in Buffers
  <2>1. NoSamples \in [{} -> Int] /\ {} \in SUBSET (0 .. Window)
    BY DEF NoSamples
  <2> QED
    BY <2>1 DEF Buffers
<1> QED
  BY <1>1 DEF Init, CapInv, CapTypes, Covered, Currents, Draws

\* limit_phase_current lets through what was asked for, or the cap, if that is
\* less; without data it lets through what was asked for.
LEMMA LimitCovers ==
    ASSUME NEW w \in Nat, LimitPhaseCurrent(w), ~Blind => CapNow \in Int
    PROVE  /\ setpoint' \in Nat /\ setpoint' <= w
           /\ ~Blind /\ setpoint' > 0 => setpoint' <= CapNow
<1> USE PowerAssumption
<1>1. CASE NothingAsked(w)
  BY <1>1 DEF NothingAsked
<1>2. CASE PassBlind(w)
  BY <1>2 DEF PassBlind
<1>3. CASE StayTripped(w)
  BY <1>3 DEF StayTripped
<1>4. CASE PassUncapped(w)
  BY <1>4 DEF PassUncapped
<1>5. CASE Reduce(w)
  <2>1. PICK c \in Int : c = CapNow
    BY <1>5 DEF Reduce, MayCharge
  <2>2. c < w /\ c >= MinCharge /\ setpoint' = c
    BY <1>5, <2>1 DEF Reduce
  <2>3. c \in Nat /\ c <= w /\ c <= c
    BY <2>1, <2>2
  <2> QED
    BY <2>1, <2>2, <2>3
<1>6. CASE Trip(w)
  BY <1>6 DEF Trip
<1> QED
  BY <1>1, <1>2, <1>3, <1>4, <1>5, <1>6 DEF LimitPhaseCurrent

\* Every iteration lets through only what its own readings cover.
LEMMA CycleCovers ==
    ASSUME CapInv, NEW g \in Currents, NEW e \in Draws, NEW w \in Nat, NEW d \in Nat \ {0},
           Cycle(g, e, w, d)
    PROVE  CapInv' /\ \A p \in Phases : g[p] # None => DOMAIN samples'[p] # {}
<1>1. grid' = g /\ evCurrent' = e /\ LimitPhaseCurrent(w)
      /\ samples' = [p \in Phases |-> Recorded(samples[p], g[p], d)]
  BY DEF Cycle
<1>2. ASSUME NEW p \in Phases
      PROVE  Recorded(samples[p], g[p], d) \in Buffers
             /\ (g[p] # None => 0 \in DOMAIN Recorded(samples[p], g[p], d))
  <2>1. samples[p] \in Buffers /\ g[p] \in Int \cup {None}
    BY DEF CapInv, CapTypes, Currents
  <2> QED
    BY <2>1, RecordedType
<1>3. samples' \in [Phases -> Buffers] /\ \A p \in Phases : g[p] # None => DOMAIN samples'[p] # {}
  BY <1>1, <1>2
<1>4. ~Blind => CapNow \in Int
  BY <1>1, <1>3, CapType DEF Blind, CapNow
<1>5. setpoint' \in Nat /\ (~Blind /\ setpoint' > 0 => setpoint' <= CapNow)
  BY <1>1, <1>4, LimitCovers
<1> QED
  BY <1>1, <1>3, <1>5 DEF CapInv, CapTypes, Covered, Blind, CapNow

\* Readings of the environment are readings.
LEMMA CapNextCovers ==
    ASSUME CapInv, [Next]_vars
    PROVE  CapInv'
<1>1. CASE UNCHANGED vars
  BY <1>1 DEF vars, CapInv, CapTypes, Covered
<1>2. CASE Next
  <2>1. PICK g \in GridReadings, e \in EvReadings, w \in Requests \cup {0}, d \in TickLengths :
            Cycle(g, e, w, d)
    BY <1>2 DEF Next
  <2>2. g \in Currents /\ e \in Draws /\ w \in Nat /\ d \in Nat \ {0}
    BY PowerAssumption, ElectricAssumption, ReadingAssumption DEF Currents, Draws
  <2> QED
    BY <2>1, <2>2, CycleCovers
<1> QED
  BY <1>1, <1>2

\* Where the cap sees the current, it does not go by less.
LEMMA SeenIsUsed ==
    ASSUME CapInv, ~DataMissing(grid, evCurrent, samples), NEW p \in Phases, Seen(p)
    PROVE  grid[p] <= GridUsed(grid, samples, p)
<1>1. grid[p] \in Int /\ GridUsed(grid, samples, p) \in Int /\ samples[p] \in Buffers
  BY HeadroomType DEF CapInv, CapTypes
<1>2. CASE grid[p] > InstantThreshold
  BY <1>1, <1>2 DEF GridUsed
<1>3. CASE \A a \in DOMAIN samples[p] : samples[p][a] >= grid[p]
  <2>1. \A a \in DOMAIN samples[p] : samples[p][a] \in Int
    BY <1>1 DEF Buffers
  <2>2. DOMAIN samples[p] # {} /\ \A a \in DOMAIN samples[p] : grid[p] <= samples[p][a]
    BY <1>1, <1>3, <2>1 DEF DataMissing
  <2>3. grid[p] <= MeanPhaseCurrent(samples[p])
    BY <1>1, <2>2, MeanAtLeast
  <2> QED
    BY <1>1, <2>3 DEF GridUsed
<1> QED
  BY <1>2, <1>3 DEF Seen

\* FR-2 and FR-12, power_utils.py:227-258: where the cap sees the current of a phase,
\* past the instant threshold or because its samples do not lie below the reading, the
\* share of the setpoint on that phase, on top of the household's current, stays within
\* the safety limit, whichever phases the car is on.
THEOREM CapSuffices == CapSpec => []CapIsEnough
<1>1. CapInit => CapInv
  BY CapStart DEF CapInit
<1>2. CapInv /\ [CapNext]_<<vars, capStopped>> => CapInv'
  BY CapNextCovers DEF CapNext, vars
<1>3. CapInv => CapIsEnough
  <2> SUFFICES ASSUME CapInv, ~DataMissing(grid, evCurrent, samples), setpoint > 0,
                      NEW p \in ActivePhases(evCurrent), Seen(p)
               PROVE  (grid[p] - evCurrent[p] - SafetyLimit)
                          * Cardinality(ActivePhases(evCurrent)) * Volts
                        + setpoint * UnitsPerAmp <= 0
      BY DEF CapIsEnough
  <2> DEFINE room == Headroom(grid, evCurrent, samples, p)
             n == Cardinality(ActivePhases(evCurrent))
             over == grid[p] - evCurrent[p] - SafetyLimit
  <2>1. setpoint * UnitsPerAmp <= room * n * Volts
    BY CapLeavesRoom DEF CapInv, CapTypes, Covered
  <2>2. /\ grid[p] \in Int /\ evCurrent[p] \in Nat /\ room \in Int /\ SafetyLimit \in Int
        /\ n \in Nat /\ GridUsed(grid, samples, p) \in Int
    BY ActiveCount, HeadroomType, ElectricAssumption DEF CapInv, CapTypes, SafetyLimit
  <2>3. grid[p] <= GridUsed(grid, samples, p)
    BY ActiveCount, SeenIsUsed
  <2>4. over <= -room /\ over \in Int
    BY <2>2, <2>3 DEF Headroom
  <2> HIDE DEF room, n, over
  <2>5. Volts \in Nat /\ setpoint * UnitsPerAmp \in Int
    BY ElectricAssumption DEF CapInv, CapTypes
  <2>6. over * n * Volts <= -(room * n * Volts)
        /\ over * n * Volts \in Int /\ room * n * Volts \in Int
    <3>1. over * n <= (-room) * n /\ over * n \in Int /\ (-room) * n \in Int /\ -room \in Int
      BY <2>2, <2>4, ProductGrows
    <3>2. over * n * Volts <= (-room) * n * Volts
      BY <2>5, <3>1, ProductGrows
    <3>3. (-room) * n * Volts = -(room * n * Volts)
      BY <2>2, <2>5
    <3> QED
      BY <2>2, <2>4, <2>5, <3>2, <3>3
  <2>7. over * n * Volts + setpoint * UnitsPerAmp <= 0
    BY <2>1, <2>5, <2>6
  <2> QED
    BY <2>7 DEF over, n
<1> QED
  BY <1>1, <1>2, <1>3, PTL DEF CapSpec

-------------------------------------------------------------------------------
\* The closed loop: a power is shared equally by the phases the charger is wired to.
Shares == {i \in [Phases -> Nat] :
             /\ \A p, q \in Wired : i[p] = i[q]
             /\ \A p \in Phases \ Wired : i[p] = 0}

\* The charger is wired to a number of them.
LEMMA WiredCount == Cardinality(Wired) \in Nat \ {0}
<1>1. IsFiniteSet(Phases)
  BY PhasesFinite
<1>2. IsFiniteSet(Wired)
  BY <1>1, WiredAssumption, FS_Subset
<1> QED
  BY <1>2, WiredAssumption, FS_CardinalityType, FS_EmptySet

\* The charger's share is the current that its power takes on each of its phases.
LEMMA DrawnShares ==
    ASSUME NEW w \in Nat
    PROVE  /\ Drawn(w) \in Shares
           /\ \A p \in Wired, h \in Int :
                 w * UnitsPerAmp <= h * Cardinality(Wired) * Volts => Drawn(w)[p] <= h
<1> DEFINE n == Cardinality(Wired)
           unit == n * Volts
           share == (w * UnitsPerAmp) \div unit
<1>1. n \in Nat \ {0} /\ Volts \in Nat \ {0} /\ UnitsPerAmp \in Nat
  BY WiredCount, WiredAssumption, ElectricAssumption
<1> HIDE DEF n
<1>2. unit \in Nat \ {0} /\ w * UnitsPerAmp \in Nat
  BY <1>1
<1>3. Drawn(w) = [p \in Phases |-> IF p \in Wired THEN share ELSE 0]
  BY DEF Drawn, n
<1> HIDE DEF unit
<1>4. share \in Nat /\ share * unit <= w * UnitsPerAmp
  BY <1>2
<1> HIDE DEF share
<1>5. Drawn(w) \in Shares
  BY <1>3, <1>4, WiredAssumption DEF Shares
<1>6. ASSUME NEW h \in Int, w * UnitsPerAmp <= h * n * Volts PROVE share <= h
  <2>1. h * n * Volts = h * unit
    BY <1>1 DEF unit
  <2>2. share * unit <= h * unit /\ share * unit \in Int /\ h * unit \in Int
    BY <1>2, <1>4, <1>6, <2>1
  <2>3. share > h => (h + 1) * unit <= share * unit
    BY <1>2, <1>4, ProductGrows
  <2>4. (h + 1) * unit = h * unit + unit
    BY <1>2
  <2> QED
    BY <1>2, <1>4, <2>2, <2>3, <2>4
<1> QED
  BY <1>3, <1>5, <1>6, WiredAssumption DEF n

\* The correction adds to a current, and leaves none where there is none.
LEMMA CorrectedMore ==
    ASSUME NEW i \in Nat
    PROVE  Corrected(i) \in Nat /\ i <= Corrected(i) /\ Corrected(0) = 0
<1>1. CorrectionPct \in Nat
  BY SettingAssumption
<1>2. i * 100 <= i * (100 + CorrectionPct) /\ i * (100 + CorrectionPct) \in Nat
  <2>1. i * (100 + CorrectionPct) = i * 100 + i * CorrectionPct /\ i * CorrectionPct \in Nat
    BY <1>1
  <2> QED
    BY <2>1
<1> DEFINE x == i * (100 + CorrectionPct)
<1> HIDE DEF x
<1>3. x \in Nat /\ i * 100 <= x => x \div 100 \in Nat /\ i <= x \div 100
  OBVIOUS
<1>4. 0 * (100 + CorrectionPct) = 0 /\ 0 \div 100 = 0
  BY <1>1
<1> QED
  BY <1>2, <1>3, <1>4 DEF Corrected, x

\* The meter and the charger show the load and the draw of the same iteration.
Metered ==
    \A p \in Phases :
       /\ grid[p] = load[p] + drawn[p] /\ evCurrent[p] = Corrected(drawn[p])
       /\ DOMAIN samples[p] # {}

PlantInv ==
    /\ CapInv /\ load \in [Phases -> Int] /\ drawn \in Shares
    /\ (\A p \in Phases : grid[p] = None) \/ Metered

\* The first reading comes with the first iteration.
LEMMA PlantStart == PlantInit => PlantInv
<1> SUFFICES ASSUME PlantInit PROVE PlantInv
    OBVIOUS
<1>1. CapInv /\ load \in [Phases -> Int] /\ (\A p \in Phases : grid[p] = None)
  BY CapStart, LoadAssumption DEF PlantInit, Init
<1>2. drawn \in Shares
  BY DrawnShares DEF PlantInit
<1> QED
  BY <1>1, <1>2 DEF PlantInv

\* Every iteration meters what the last one let through.
LEMMA PlantStep ==
    ASSUME PlantInv, NEW l \in Loads, NEW w \in Requests \cup {0}, NEW d \in TickLengths,
           PlantCycle(l, w, d)
    PROVE  PlantInv' /\ Metered' /\ drawn' = Drawn(setpoint)
<1> DEFINE g == [p \in Phases |-> load'[p] + drawn'[p]]
           e == [p \in Phases |-> Corrected(drawn'[p])]
<1>1. load' = l /\ drawn' = Drawn(setpoint) /\ Cycle(g, e, w, d)
  BY DEF PlantCycle
<1>2. load' \in [Phases -> Int] /\ drawn' \in Shares /\ setpoint \in Nat
  BY <1>1, LoadAssumption, DrawnShares DEF PlantInv, CapInv, CapTypes
<1>3. ASSUME NEW p \in Phases
      PROVE  load'[p] + drawn'[p] \in Int /\ Corrected(drawn'[p]) \in Nat
  <2>1. load'[p] \in Int /\ drawn'[p] \in Nat
    BY <1>2 DEF Shares
  <2>2. \A a \in Int, b \in Nat : a + b \in Int
    OBVIOUS
  <2> QED
    BY <2>1, <2>2, CorrectedMore
<1>4. g \in Currents /\ e \in Draws /\ \A p \in Phases : g[p] # None
  BY <1>3, NoneAssumption DEF Currents, Draws
<1>5. w \in Nat /\ d \in Nat \ {0}
  BY PowerAssumption, ElectricAssumption
<1>6. grid' = g /\ evCurrent' = e
  BY <1>1 DEF Cycle
<1> HIDE DEF g, e
<1>7. CapInv' /\ \A p \in Phases : DOMAIN samples'[p] # {}
  BY <1>1, <1>4, <1>5, CycleCovers DEF PlantInv
<1>8. Metered'
  BY <1>6, <1>7 DEF Metered, g, e
<1> QED
  BY <1>1, <1>2, <1>7, <1>8 DEF PlantInv

\* A phase whose overload the next iteration clears.
Clears(p) == grid[p] > InstantThreshold \/ (Seen(p) /\ Located(p))

\* What the cap lets through on such readings fits, together with the load they were
\* taken with, on a phase that the charger is wired to.
LEMMA ShareFits ==
    ASSUME PlantInv, Metered, NEW p \in Wired, Clears(p)
    PROVE  \/ load[p] + Drawn(setpoint)[p] <= SafetyLimit + (Corrected(drawn[p]) - drawn[p])
           \/ Drawn(setpoint)[p] = 0
<1> DEFINE A == ActivePhases(evCurrent)
           room == Headroom(grid, evCurrent, samples, p)
           more == Corrected(drawn[p]) - drawn[p]
<1>1. /\ p \in Phases /\ load[p] \in Int /\ drawn[p] \in Nat /\ setpoint \in Nat
      /\ Corrected(drawn[p]) \in Nat /\ SafetyLimit \in Int /\ InstantThreshold \in Int
      /\ ActiveCurrent \in Nat
  BY WiredAssumption, CorrectedMore, ElectricAssumption
     DEF PlantInv, Shares, CapInv, CapTypes, SafetyLimit, InstantThreshold
<1>2. grid[p] = load[p] + drawn[p] /\ evCurrent[p] = Corrected(drawn[p])
      /\ drawn[p] <= Corrected(drawn[p])
  BY <1>1, CorrectedMore DEF Metered
<1>3. ~DataMissing(grid, evCurrent, samples)
  <2>1. \A q \in Phases : load[q] + drawn[q] \in Int /\ Corrected(drawn[q]) \in Nat
    BY CorrectedMore DEF PlantInv, Shares
  <2> QED
    BY <2>1, NoneAssumption DEF DataMissing, Metered
<1>4. room \in Int /\ room <= SafetyLimit - load[p] + more
      /\ room <= SafetyLimit - (grid[p] - evCurrent[p])
  <2>1. /\ grid[p] <= GridUsed(grid, samples, p) /\ GridUsed(grid, samples, p) \in Int
        /\ grid[p] \in Int /\ evCurrent[p] \in Nat
    BY <1>1, <1>3, SeenIsUsed, HeadroomType DEF Clears, Seen, PlantInv, CapInv, CapTypes
  <2>2. room = SafetyLimit - (GridUsed(grid, samples, p) - evCurrent[p])
    BY DEF Headroom
  <2>3. room <= SafetyLimit - (grid[p] - evCurrent[p]) /\ room \in Int
    BY <1>1, <2>1, <2>2
  <2> QED
    BY <1>1, <1>2, <2>3
<1>5. CASE setpoint = 0
  <2>1. 0 * UnitsPerAmp <= 0 * Cardinality(Wired) * Volts
    BY WiredCount, ElectricAssumption
  <2>2. Drawn(0)[p] <= 0 /\ Drawn(0)[p] \in Nat
    BY <1>1, <2>1, DrawnShares DEF Shares
  <2> QED
    BY <1>5, <2>2
<1>6. CASE setpoint > 0 /\ Located(p)
  <2>1. A = Wired
    <3>1. \A q \in Wired : evCurrent[q] = evCurrent[p]
      BY <1>1, WiredAssumption DEF PlantInv, Shares, Metered
    <3>2. \A q \in Phases \ Wired : evCurrent[q] = 0
      BY CorrectedMore DEF PlantInv, Shares, Metered
    <3>3. CASE evCurrent[p] > ActiveCurrent
      <4>1. {q \in Phases : evCurrent[q] > ActiveCurrent} = Wired
        BY <1>1, <3>1, <3>2, <3>3, WiredAssumption
      <4> QED
        BY <4>1, WiredAssumption DEF ActivePhases
    <3>4. CASE ~(evCurrent[p] > ActiveCurrent) /\ Wired = Phases
      <4>1. {q \in Phases : evCurrent[q] > ActiveCurrent} = {}
        BY <3>1, <3>4
      <4> QED
        BY <3>4, <4>1 DEF ActivePhases
    <3> QED
      BY <1>6, <3>3, <3>4 DEF Located
  <2>2. setpoint * UnitsPerAmp <= room * Cardinality(Wired) * Volts
    BY <1>1, <1>3, <1>6, <2>1, CapLeavesRoom DEF PlantInv, CapInv, CapTypes, Covered
  <2>3. Drawn(setpoint)[p] <= room /\ Drawn(setpoint)[p] \in Nat
    BY <1>1, <1>4, <2>2, DrawnShares DEF Shares
  <2> QED
    BY <1>1, <1>4, <2>3
<1>7. CASE setpoint > 0 /\ ~Located(p)
  <2>0. ~(evCurrent[p] > ActiveCurrent) /\ grid[p] > InstantThreshold
    BY <1>7 DEF Clears, Located
  <2>1. room < 0
    BY <1>1, <1>2, <1>4, <2>0, SettingAssumption
  <2>2. p \in A
    <3>1. CASE {q \in Phases : evCurrent[q] > ActiveCurrent} = {}
      BY <1>1, <3>1 DEF ActivePhases
    <3>2. CASE {q \in Phases : evCurrent[q] > ActiveCurrent} # {}
      <4>1. PICK q \in Phases : evCurrent[q] > ActiveCurrent
        BY <3>2
      <4>2. q \in Wired
        BY <1>1, <4>1, CorrectedMore DEF PlantInv, Shares, Metered
      <4>3. evCurrent[q] = evCurrent[p]
        BY <1>1, <4>2, WiredAssumption DEF PlantInv, Shares, Metered
      <4> QED
        BY <2>0, <4>1, <4>3
    <3> QED
      BY <3>1, <3>2
  <2>3. room > 0
    BY <1>1, <1>3, <1>7, <2>2, CapLeavesRoom DEF PlantInv, CapInv, CapTypes, Covered
  <2> QED
    BY <1>1, <1>4, <2>1, <2>3
<1> QED
  BY <1>1, <1>5, <1>6, <1>7

\* FR-2, FR-12: in the closed loop, an overload of the house and the car together that
\* the cap sees is gone one iteration later; what the correction makes of the car's
\* current, the phase carries on top of the safety limit.
THEOREM OverloadIsCleared == PlantSpec => SeenOverloadClears
<1>1. PlantInv /\ [PlantNext]_plantVars => PlantInv'
  <2>1. CASE UNCHANGED plantVars
    BY <2>1 DEF PlantInv, Metered, CapInv, CapTypes, Covered, plantVars, vars
  <2>2. CASE PlantNext
    BY <2>2, PlantStep DEF PlantNext
  <2> QED
    BY <2>1, <2>2
<1>2. ASSUME PlantInv, [PlantNext]_plantVars
      PROVE  [\A p \in Wired :
                 grid[p] # None =>
                   (load' = load /\ (grid[p] > InstantThreshold \/ (Seen(p) /\ Located(p)))
                      => grid'[p] <= Max({SafetyLimit, load[p]})
                                       + (Corrected(drawn[p]) - drawn[p]))]_plantVars
  <2> SUFFICES ASSUME PlantNext, NEW p \in Wired, grid[p] # None,
                      load' = load, Clears(p)
               PROVE  grid'[p] <= Max({SafetyLimit, load[p]})
                                    + (Corrected(drawn[p]) - drawn[p])
      BY <1>2 DEF Clears
  <2> DEFINE more == Corrected(drawn[p]) - drawn[p]
             most == Max({SafetyLimit, load[p]})
             share == Drawn(setpoint)[p]
  <2>1. p \in Phases /\ Metered
    BY <1>2, WiredAssumption DEF PlantInv
  <2>2. grid'[p] = load[p] + share
    <3>1. Metered' /\ drawn' = Drawn(setpoint)
      BY <1>2, PlantStep DEF PlantNext
    <3> QED
      BY <2>1, <3>1 DEF Metered
  <2>3. /\ load[p] \in Int /\ drawn[p] \in Nat /\ share \in Nat /\ SafetyLimit \in Int
        /\ more \in Nat
    <3>1. load[p] \in Int /\ drawn[p] \in Nat /\ setpoint \in Nat
      BY <1>2, <2>1 DEF PlantInv, Shares, CapInv, CapTypes
    <3>2. share \in Nat
      BY <2>1, <3>1, DrawnShares DEF Shares
    <3> QED
      BY <3>1, <3>2, CorrectedMore, ElectricAssumption DEF SafetyLimit
  <2>4. most \in Int /\ SafetyLimit <= most /\ load[p] <= most
    <3>1. \E x \in {SafetyLimit, load[p]} : \A y \in {SafetyLimit, load[p]} : x >= y
      BY <2>3
    <3>2. /\ Max({SafetyLimit, load[p]}) \in {SafetyLimit, load[p]}
          /\ \A y \in {SafetyLimit, load[p]} : Max({SafetyLimit, load[p]}) >= y
      BY <3>1 DEF Max
    <3> QED
      BY <2>3, <3>2
  <2>5. load[p] + share <= SafetyLimit + more \/ share = 0
    BY <1>2, <2>1, ShareFits
  <2> HIDE DEF more, most, share
  <2>6. load[p] + share <= most + more
    BY <2>3, <2>4, <2>5
  <2> QED
    BY <2>2, <2>6 DEF more, most
<1> QED
  BY <1>1, <1>2, PlantStart, PTL DEF PlantSpec, SeenOverloadClears

===============================================================================
