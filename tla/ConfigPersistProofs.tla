--------------------------- MODULE ConfigPersistProofs --------------------------
(***************************************************************************)
(* Theorems about ConfigPersist for every polling interval, every debounce *)
(* and any number of changes and endings.                                  *)
(***************************************************************************)
EXTENDS ConfigPersist, TLAPS

\* There is an age exactly if there is something to save.
DirtyMeansUnsaved == pc # "down" => (dirty <=> unsavedFor # NotSet)

\* The time until the flag is looked at is counted against a change from the
\* moment it is made: a poll, then the debounce; writing takes no time.
UnsavedHasTimeLeft ==
    /\ pc = "polling" => timer <= Poll /\ unsavedFor + timer <= Poll
    /\ pc = "waiting" => dirty /\ unsavedFor + timer <= Debounce + Poll
    /\ pc \in {"opening", "writing"} => timer = 0 /\ unsavedFor <= 0
    /\ unsavedFor <= Debounce + Poll

\* The thread has got the settings, or they have changed since.
SnapshotIsCurrent == MidWrite /\ ~dirty => snapshot = settings

Progress == DirtyMeansUnsaved /\ UnsavedHasTimeLeft

PersistInv ==
    PersistTypeOK /\ Progress /\ SnapshotIsCurrent /\ CleanMeansSaved /\ OnlyRecentChangesAreLost

\* Ageing keeps an age an age.
LEMMA OlderType == \A a \in Nat : Older(a) \in {a, a + 1} /\ Older(a) \in Nat
BY DEF Older

\* The initial states satisfy the inductive invariant.
LEMMA InitPersistInv == Init => PersistInv
<1> SUFFICES ASSUME Init PROVE PersistInv
    OBVIOUS
<1>1. dirty \in BOOLEAN /\ failed \in BOOLEAN
  BY Zenon DEF Init
<1>2. PersistTypeOK
  BY <1>1, PersistAssumption DEF Init, PersistTypeOK, NotSet, Torn
<1>3. DirtyMeansUnsaved
  BY DEF Init, DirtyMeansUnsaved, NotSet
<1>4. UnsavedHasTimeLeft
  BY PersistAssumption DEF Init, UnsavedHasTimeLeft, NotSet
<1> QED
  BY <1>2, <1>3, <1>4
     DEF Init, PersistInv, Progress, SnapshotIsCurrent, CleanMeansSaved,
         OnlyRecentChangesAreLost, MidWrite

\* The flags stay flags.
LEMMA NextFlags ==
    PersistTypeOK /\ [Next]_vars => dirty' \in BOOLEAN /\ failed' \in BOOLEAN
<1> SUFFICES ASSUME PersistTypeOK, [Next]_vars
             PROVE  dirty' \in BOOLEAN /\ failed' \in BOOLEAN
    OBVIOUS
<1>0. dirty \in BOOLEAN /\ failed \in BOOLEAN
  BY DEF PersistTypeOK
<1> USE DEF history
<1>1. CASE Pass
  BY <1>0, <1>1, Zenon DEF Pass
<1>2. CASE LookAtFlag \/ WaitEnds
  BY <1>0, <1>2, Zenon DEF LookAtFlag, WaitEnds, SleepOn, BeginWrite
<1>3. CASE OpenFile \/ FinishWrite \/ FailWrite
  BY <1>0, <1>3, Zenon DEF OpenFile, FinishWrite, FailWrite, SleepOn
<1>4. CASE SchedulePersist \/ Load
  BY <1>0, <1>4, Zenon DEF SchedulePersist, Load
<1>5. CASE Shutdown
  <2>1. failed' = (failed /\ ~MidWrite) /\ dirty' = dirty
    BY <1>5 DEF Shutdown, ProcessEnds
  <2> QED
    BY <1>0, <2>1, Zenon
<1>6. CASE Kill
  <2>1. failed' = (failed \/ MidWrite) /\ dirty' = dirty
    BY <1>6 DEF Kill, ProcessEnds
  <2> QED
    BY <1>0, <2>1, Zenon
<1>7. CASE UNCHANGED vars
  BY <1>0, <1>7, Zenon DEF vars
<1> QED
  BY <1>1, <1>2, <1>3, <1>4, <1>5, <1>6, <1>7 DEF Next, FlushStep

\* Every variable keeps its type.
LEMMA NextPersistType == PersistTypeOK /\ Progress /\ [Next]_vars => PersistTypeOK'
<1> SUFFICES ASSUME PersistTypeOK, Progress, [Next]_vars PROVE PersistTypeOK'
    OBVIOUS
<1>0. dirty' \in BOOLEAN /\ failed' \in BOOLEAN
  BY NextFlags
<1> USE PersistAssumption, OlderType, <1>0
<1> USE DEF PersistTypeOK, NotSet, Torn, history
<1>1. CASE Pass
  BY <1>1 DEF Pass
<1>2. CASE LookAtFlag
  BY <1>2 DEF LookAtFlag, SleepOn, BeginWrite
<1>3. CASE WaitEnds
  BY <1>3 DEF WaitEnds, BeginWrite
<1>4. CASE OpenFile \/ FinishWrite
  BY <1>4 DEF OpenFile, FinishWrite, SleepOn
<1>5. CASE FailWrite
  BY <1>5 DEF FailWrite, SleepOn
<1>6. CASE SchedulePersist
  BY <1>6 DEF SchedulePersist
<1>7. CASE Shutdown \/ Kill
  BY <1>7 DEF Shutdown, Kill, ProcessEnds
<1>8. CASE Load
  BY <1>8 DEF Load
<1>9. CASE UNCHANGED vars
  BY <1>9 DEF vars
<1> QED
  BY <1>1, <1>2, <1>3, <1>4, <1>5, <1>6, <1>7, <1>8, <1>9 DEF Next, FlushStep

\* No step lets a change wait longer than it may.
LEMMA NextProgress == PersistTypeOK /\ Progress /\ [Next]_vars => Progress'
<1> SUFFICES ASSUME PersistTypeOK, Progress, [Next]_vars PROVE Progress'
    OBVIOUS
<1> USE PersistAssumption, OlderType
<1> USE DEF PersistTypeOK, Progress, DirtyMeansUnsaved, UnsavedHasTimeLeft, NotSet, history
<1>1. CASE Pass
  BY <1>1 DEF Pass
<1>2. CASE LookAtFlag
  BY <1>2 DEF LookAtFlag, SleepOn, BeginWrite
<1>3. CASE WaitEnds
  BY <1>3 DEF WaitEnds, BeginWrite
<1>4. CASE OpenFile \/ FinishWrite
  BY <1>4 DEF OpenFile, FinishWrite, SleepOn
<1>5. CASE FailWrite
  BY <1>5 DEF FailWrite, SleepOn, MidWrite
<1>6. CASE SchedulePersist
  BY <1>6 DEF SchedulePersist
<1>7. CASE Shutdown \/ Kill
  BY <1>7 DEF Shutdown, Kill, ProcessEnds
<1>8. CASE Load
  BY <1>8 DEF Load
<1>9. CASE UNCHANGED vars
  BY <1>9 DEF vars
<1> QED
  BY <1>1, <1>2, <1>3, <1>4, <1>5, <1>6, <1>7, <1>8, <1>9 DEF Next, FlushStep

\* A clean flag goes with a saved or failed write, and so does the end of the
\* process.
LEMMA NextPersistInv == PersistInv /\ [Next]_vars => PersistInv'
<1> SUFFICES ASSUME PersistInv, [Next]_vars PROVE PersistInv'
    OBVIOUS
<1> USE DEF PersistInv
<1>0. PersistTypeOK' /\ Progress'
  BY NextPersistType, NextProgress
<1> SUFFICES (SnapshotIsCurrent /\ CleanMeansSaved /\ OnlyRecentChangesAreLost)'
    BY <1>0
<1> USE PersistAssumption
<1> USE DEF SnapshotIsCurrent, CleanMeansSaved, OnlyRecentChangesAreLost, MidWrite, NotSet,
            history
<1>1. CASE Pass
  BY <1>1 DEF Pass
<1>2. CASE LookAtFlag
  BY <1>2 DEF LookAtFlag, SleepOn, BeginWrite
<1>3. CASE WaitEnds
  BY <1>3 DEF WaitEnds, BeginWrite
<1>4. CASE OpenFile \/ FinishWrite
  BY <1>4 DEF OpenFile, FinishWrite, SleepOn
<1>5. CASE FailWrite
  BY <1>5 DEF FailWrite, SleepOn
<1>6. CASE SchedulePersist
  BY <1>6 DEF SchedulePersist
<1>7. ASSUME ProcessEnds, MidWrite => file' = snapshot \/ failed',
             ~MidWrite => file' = file /\ (failed => failed')
      PROVE  (SnapshotIsCurrent /\ CleanMeansSaved /\ OnlyRecentChangesAreLost)'
  <2>1. pc # "down" /\ pc' = "down" /\ settings' = settings /\ unsavedFor' = unsavedFor
    BY <1>7 DEF ProcessEnds
  <2>2. unsavedFor # NotSet => unsavedFor \in 0 .. Debounce + Poll
    BY DEF PersistTypeOK, Progress, UnsavedHasTimeLeft
  <2>3. file' # settings' => failed' \/ dirty
    BY <1>7, <2>1 DEF PersistTypeOK
  <2>4. dirty => unsavedFor # NotSet
    BY <2>1 DEF Progress, DirtyMeansUnsaved
  <2> QED
    BY <2>1, <2>2, <2>3, <2>4
<1>8. CASE Shutdown \/ Kill
  BY <1>7, <1>8 DEF Shutdown, Kill
<1>9. CASE Load
  BY <1>9 DEF Load
<1>10. CASE UNCHANGED vars
  BY <1>10 DEF vars
<1> QED
  BY <1>1, <1>2, <1>3, <1>4, <1>5, <1>6, <1>8, <1>9, <1>10 DEF Next, FlushStep

\* The invariant holds in every reachable state.
THEOREM PersistInvHolds == Spec => []PersistInv
<1>1. PersistInv /\ [Next]_vars => PersistInv'
  BY NextPersistInv
<1> QED
  BY InitPersistInv, <1>1, PTL DEF Spec

\* config.py:43-54: versions, timers and ages keep to their types.
THEOREM PersistTypeCorrect == Spec => []PersistTypeOK
<1>1. PersistInv => PersistTypeOK
  BY DEF PersistInv
<1> QED
  BY <1>1, PersistInvHolds, PTL

\* config.py:84-97: a change is picked up after the debounce and at most one poll,
\* however many changes follow it.  The 5 s of config.py:78 alone are not kept.
THEOREM ChangesArePickedUpInTime == Spec => []PickedUpInTime
<1>1. PersistInv => PickedUpInTime
  BY DEF PersistInv, Progress, UnsavedHasTimeLeft, PickedUpInTime
<1> QED
  BY <1>1, PersistInvHolds, PTL

\* config.py:95: the flag is cleared before the write, so that a clean flag means
\* that the file holds the settings, unless a write failed.
THEOREM CleanFlagMeansSaved == Spec => []CleanMeansSaved
<1>1. PersistInv => CleanMeansSaved
  BY DEF PersistInv
<1> QED
  BY <1>1, PersistInvHolds, PTL

\* main.py:79: however the process ends, only changes younger than the debounce
\* and a poll are lost, unless a write failed or was cut off.
THEOREM OldChangesSurvive == Spec => []OnlyRecentChangesAreLost
<1>1. PersistInv => OnlyRecentChangesAreLost
  BY DEF PersistInv
<1> QED
  BY <1>1, PersistInvHolds, PTL

===============================================================================
