------------------------------ MODULE ConfigPersist -----------------------------
(***************************************************************************)
(* ConfigManager (app/config.py): settings that change in memory are saved *)
(* to a YAML file by a task that polls a dirty flag, waits until the last  *)
(* change it knows of is Debounce old, and writes in a thread.  Time is in *)
(* half seconds.  The settings are a version number: what a file holds is  *)
(* compared, never read.  Writing takes no time on this scale, but the     *)
(* settings may change, and the process end, while it is under way.        *)
(***************************************************************************)
EXTENDS Integers

CONSTANTS
    Poll,          \* the sleep between two looks at the flag (config.py:86)
    Debounce,      \* the 5 s of config.py:90
    MaxChanges,    \* bound: changes of a setting
    MaxEndings,    \* bound: how often the process ends
    WriteFaults    \* may a write fail?

ASSUME PersistAssumption ==
    /\ Poll \in Nat \ {0} /\ Debounce \in Nat \ {0}
    /\ MaxChanges \in Nat /\ MaxEndings \in Nat /\ WriteFaults \in BOOLEAN

NotSet == -1
Torn == -1      \* a file that was opened for writing and not written

VARIABLES
    settings,    \* the version in AppState
    file,        \* the version on disk, or Torn
    dirty,       \* _dirty
    sinceDirty,  \* now - _last_dirty
    pc, timer,   \* flush_loop: polling, waiting, opening, writing; "down" without a process
    snapshot,    \* the version handed to the writing thread
    changes,     \* versions so far
    endings,     \* how often the process has ended
    unsavedFor,  \* age of the oldest change that no write has picked up, or NotSet
    failed       \* a write has failed or was cut off, and none has succeeded since

history == <<changes, endings, failed>>
vars == <<settings, file, dirty, sinceDirty, pc, timer, snapshot, unsavedFor, history>>

Init ==
    /\ settings = 0 /\ file = 0 /\ changes = 0 /\ snapshot = 0 /\ endings = 0
    /\ dirty = FALSE /\ sinceDirty = 0 /\ unsavedFor = NotSet
    /\ pc = "polling" /\ timer = Poll /\ failed = FALSE

-------------------------------------------------------------------------------
Older(a) == IF a > Debounce + Poll THEN a ELSE a + 1

\* Half a second passes; a task whose timer has run out goes first.
Pass ==
    /\ pc \in {"polling", "waiting"} /\ timer > 0
    /\ timer' = timer - 1
    /\ sinceDirty' = Older(sinceDirty)
    /\ unsavedFor' = IF unsavedFor = NotSet THEN NotSet ELSE Older(unsavedFor)
    /\ UNCHANGED <<settings, file, dirty, pc, snapshot, history>>

\* Mutant of SchedulePersist: every change starts the wait over.
ScheduleAnew ==
    /\ pc # "down" /\ changes < MaxChanges
    /\ changes' = changes + 1
    /\ settings' = changes'
    /\ dirty' = TRUE /\ sinceDirty' = 0
    /\ timer' = IF pc = "waiting" THEN Debounce ELSE timer
    /\ unsavedFor' = IF unsavedFor = NotSet THEN 0 ELSE unsavedFor
    /\ UNCHANGED <<file, pc, snapshot, endings, failed>>

\* A setting changes, and schedule_persist() marks it.
SchedulePersist ==
    /\ pc # "down" /\ changes < MaxChanges
    /\ changes' = changes + 1
    /\ settings' = changes'
    /\ dirty' = TRUE /\ sinceDirty' = 0
    /\ unsavedFor' = IF unsavedFor = NotSet THEN 0 ELSE unsavedFor
    /\ UNCHANGED <<file, pc, timer, snapshot, endings, failed>>

\* The flag is cleared before the settings are serialised for the thread.
BeginWrite ==
    /\ pc' = "opening" /\ timer' = 0
    /\ dirty' = FALSE
    /\ snapshot' = settings
    /\ unsavedFor' = NotSet

SleepOn ==
    pc' = "polling" /\ timer' = Poll /\ UNCHANGED <<dirty, snapshot, unsavedFor>>

LookAtFlag ==
    /\ pc = "polling" /\ timer = 0
    /\ \/ ~dirty /\ SleepOn
       \/ /\ dirty /\ sinceDirty < Debounce
          /\ pc' = "waiting" /\ timer' = Debounce - sinceDirty
          /\ UNCHANGED <<dirty, snapshot, unsavedFor>>
       \/ dirty /\ sinceDirty >= Debounce /\ BeginWrite
    /\ UNCHANGED <<settings, file, sinceDirty, history>>

WaitEnds ==
    /\ pc = "waiting" /\ timer = 0
    /\ dirty /\ BeginWrite
    /\ UNCHANGED <<settings, file, sinceDirty, history>>

\* write_text(): the file is truncated, then written.
OpenFile ==
    /\ pc = "opening"
    /\ file' = Torn /\ pc' = "writing"
    /\ UNCHANGED <<settings, dirty, sinceDirty, timer, snapshot, unsavedFor, history>>

\* Mutant of FinishWrite: the flag is cleared after the write.
FinishWriteThenClear ==
    /\ pc = "writing"
    /\ file' = snapshot /\ failed' = FALSE
    /\ pc' = "polling" /\ timer' = Poll /\ dirty' = FALSE
    /\ UNCHANGED <<settings, sinceDirty, snapshot, unsavedFor, changes, endings>>

FinishWrite ==
    /\ pc = "writing"
    /\ file' = snapshot /\ failed' = FALSE
    /\ SleepOn
    /\ UNCHANGED <<settings, sinceDirty, changes, endings>>

MidWrite == pc \in {"opening", "writing"}

\* OSError, on opening the file or on writing it, is logged.
FailWrite ==
    /\ WriteFaults /\ MidWrite
    /\ failed' = TRUE
    /\ SleepOn
    /\ UNCHANGED <<settings, file, sinceDirty, changes, endings>>

FlushStep == Pass \/ LookAtFlag \/ WaitEnds \/ OpenFile \/ FinishWrite

ProcessEnds ==
    /\ pc # "down" /\ endings < MaxEndings
    /\ pc' = "down" /\ timer' = 0
    /\ endings' = endings + 1
    /\ UNCHANGED <<settings, dirty, sinceDirty, snapshot, changes, unsavedFor>>

\* Mutant of Shutdown: the thread ends with the program.
ShutdownAtOnce ==
    /\ ProcessEnds
    /\ UNCHANGED <<file, failed>>

\* SIGTERM: the tasks are cancelled; the interpreter joins a thread that writes.
Shutdown ==
    /\ ProcessEnds
    /\ file' = IF MidWrite THEN snapshot ELSE file
    /\ failed' = (failed /\ ~MidWrite)

\* SIGKILL, or power loss (external): the file stays as the thread left it.
Kill ==
    /\ ProcessEnds
    /\ failed' = (failed \/ MidWrite)
    /\ UNCHANGED file

\* Mutant of Load: whatever the file holds is accepted.
LoadAnything ==
    /\ pc = "down"
    /\ settings' = file
    /\ dirty' = FALSE /\ sinceDirty' = 0 /\ unsavedFor' = NotSet
    /\ pc' = "polling" /\ timer' = Poll
    /\ failed' = FALSE
    /\ UNCHANGED <<file, snapshot, changes, endings>>

\* load(); a torn file is a ConfigError, and the program exits.
Load ==
    /\ pc = "down" /\ file # Torn
    /\ settings' = file
    /\ dirty' = FALSE /\ sinceDirty' = 0 /\ unsavedFor' = NotSet
    /\ pc' = "polling" /\ timer' = Poll
    /\ failed' = FALSE
    /\ UNCHANGED <<file, snapshot, changes, endings>>

Next == FlushStep \/ FailWrite \/ SchedulePersist \/ Shutdown \/ Kill \/ Load

Spec == Init /\ [][Next]_vars /\ WF_vars(FlushStep) /\ WF_vars(Load)

-------------------------------------------------------------------------------
PersistTypeOK ==
    /\ settings \in 0 .. changes /\ file \in {Torn} \cup 0 .. changes
    /\ snapshot \in 0 .. changes /\ changes \in 0 .. MaxChanges /\ endings \in 0 .. MaxEndings
    /\ dirty \in BOOLEAN /\ failed \in BOOLEAN
    /\ sinceDirty \in Nat /\ unsavedFor \in Nat \cup {NotSet}
    /\ pc \in {"polling", "waiting", "opening", "writing", "down"} /\ timer \in 0 .. Debounce + Poll

\* config.py:84-97: a change is picked up after the debounce and at most one
\* poll, however many changes follow it: the wait is not started over by each of
\* them.  That is a poll more than the 5 s of config.py:78 and :84, and it is
\* reached: see PickedUpWithinDebounce.
PickedUpInTime == unsavedFor <= Debounce + Poll

\* config.py:78: flush_loop "writes it within 5 seconds" (and :84, "within 5 s").
\* The wait is counted from the last change before the first look at the flag, so
\* that an older change that waits with it is written up to a poll later.
PickedUpWithinDebounce == unsavedFor <= Debounce

\* A clean flag means that the file holds the settings, unless a write failed:
\* a change that arrives while a write is under way is not taken for written.
CleanMeansSaved ==
    pc \in {"polling", "waiting"} /\ ~dirty /\ ~failed => file = settings

\* However the process ends, only changes that are younger than the debounce and
\* a poll are lost, unless a write failed or was cut off (config.py:78, main.py:79).
OnlyRecentChangesAreLost ==
    pc = "down" /\ file # settings => failed \/ unsavedFor \in 0 .. Debounce + Poll

\* In the end the file holds what the settings are, restarts included, unless
\* the last write failed or was cut off.
SavedUnlessFailed == <>[](failed \/ file = settings)

\* README.md:64: settings are "persisted automatically".
SettingsReachFile == <>[](file = settings)

\* docs/grid-power-scaling.md:466: a setting "survives restart".
SettingsSurviveRestart == pc = "down" => file = settings

===============================================================================
