---------------------------- MODULE DockSettings ----------------------------
(***************************************************************************)
(* The settings of the dock: docksettings.cpp.                               *)
(*                                                                           *)
(* A setting that was set counts at once and is written to DConfig a second     *)
(* later by the one write timer; some are written at once.  What DConfig has may   *)
(* be written by others too, and each change of it is announced, to its writer as   *)
(* well, some time later.                                                     *)
(***************************************************************************)
EXTENDS Naturals, FiniteSets

CONSTANTS
  Delayed,     \* settings with a WriteJob
  Direct,      \* settings written at once
  Value,       \* what DConfig may hold
  Reads(_, _), \* what a value of DConfig means for a setting
  Ignores,     \* settings that ignore what is out of range: the size
  NoKey

Key == Delayed \cup Direct

\* What a value means is a value, and means itself; no job is no setting.
ASSUME ReadsAssumption ==
  /\ \A k \in Key, v \in Value :
       Reads(k, v) \in Value /\ Reads(k, Reads(k, v)) = Reads(k, v)
  /\ NoKey \notin Key

VARIABLES
  memory, \* what the dock goes by: setting -> value
  config, \* DConfig: setting -> value
  told,   \* settings whose valueChanged is under way
  job,    \* the job m_writeTimer is connected to, if it runs
  lost    \* history: settings whose job was disconnected before it was done

vars == <<memory, config, told, job, lost>>

\* What valueChanged of k makes of the memory, if DConfig has v for it.
Taken(k, v, old) == IF k \in Ignores /\ Reads(k, v) # v THEN old ELSE Reads(k, v)

\* DConfig::setValue.
SetValue(k, v) ==
  /\ config' = [config EXCEPT ![k] = v]
  /\ told' = IF v = config[k] THEN told ELSE told \cup {k}

\* Defect: the timer that runs is left to the job it has.
AddWriteJobIfIdle(k) ==
  /\ job' = IF job = NoKey THEN k ELSE job
  /\ lost' = lost

\* addWriteJob and checkWriteJob: the list of jobs is empty each time, and the timer is
\* disconnected from the job before, which may be another one.
AddWriteJob(k) ==
  /\ job' = k
  /\ lost' = (IF job = NoKey THEN lost ELSE lost \cup {job}) \ {k}

\* setDockSize, setHideMode, setPosition, setItemAlignment, setIndicatorStyle
SetDelayed(k, v) ==
  /\ v # memory[k] /\ memory' = [memory EXCEPT ![k] = v]
  /\ AddWriteJob(k)
  /\ UNCHANGED <<config, told>>

\* setPluginsVisible, setShowInPrimary, setLocked
SetDirect(k, v) ==
  /\ v # memory[k] /\ memory' = [memory EXCEPT ![k] = v]
  /\ SetValue(k, v)
  /\ UNCHANGED <<job, lost>>

\* m_writeTimer fires: the value the setting has by now is written.
WriteTimeout ==
  /\ job # NoKey /\ job' = NoKey
  /\ SetValue(job, memory[job])
  /\ lost' = lost \ {job}
  /\ UNCHANGED memory

\* valueChanged is delivered: the value DConfig has by now counts.
ValueChanged(k) ==
  /\ k \in told /\ told' = told \ {k}
  /\ memory' = [memory EXCEPT ![k] = Taken(k, config[k], @)]
  /\ lost' = lost \ {k}
  /\ UNCHANGED <<config, job>>

\* Another process writes.
Written(k, v) ==
  /\ v # config[k] /\ SetValue(k, v)
  /\ UNCHANGED <<memory, job, lost>>

\* The dock is started anew.
Restart ==
  /\ memory' = [k \in Key |-> IF k \in Ignores THEN config[k] ELSE Reads(k, config[k])]
  /\ told' = {} /\ job' = NoKey /\ lost' = {}
  /\ UNCHANGED config

Init ==
  /\ config \in [Key -> Value]
  /\ memory = [k \in Key |-> IF k \in Ignores THEN config[k] ELSE Reads(k, config[k])]
  /\ told = {} /\ job = NoKey /\ lost = {}

\* What the dock sets is what it can read back.
Next ==
  \/ \E k \in Delayed, v \in Value : Reads(k, v) = v /\ SetDelayed(k, v)
  \/ \E k \in Direct, v \in Value : Reads(k, v) = v /\ SetDirect(k, v)
  \/ \E k \in Key : ValueChanged(k) \/ \E v \in Value : Written(k, v)
  \/ WriteTimeout \/ Restart

Spec == Init /\ [][Next]_vars

-----------------------------------------------------------------------------
(* Properties.                                                               *)

\* Every variable keeps its type.
TypeOK ==
  /\ memory \in [Key -> Value] /\ config \in [Key -> Value]
  /\ told \subseteq Key /\ job \in Delayed \cup {NoKey} /\ lost \subseteq Delayed

\* A setting whose job is not done and whose news is not under way is in DConfig what
\* it is for the dock, however the dock's writes, the writes of others and their
\* announcements pass one another: a restart changes nothing.  What was set within
\* the second before another setting is lost to it.
SettingsSettle ==
  \A k \in Key \ (told \cup lost \cup {job}) : memory[k] = Taken(k, config[k], memory[k])
=============================================================================
