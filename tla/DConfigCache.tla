---------------------------- MODULE DConfigCache ----------------------------
(***************************************************************************)
(* A settings object of toolGenerate/dconfig2cpp: every generated class has this *)
(* shape, for properties of its own.                                         *)
(*                                                                           *)
(* The properties are kept in the object's thread, the settings in a worker's.   *)
(* The worker opens the settings and goes through the properties; both then tell   *)
(* the other of each change by a queued call.  The pointer to the settings is        *)
(* stored and loaded relaxed: the object's thread may miss it until it gets a call    *)
(* of the worker's.                                                          *)
(***************************************************************************)
EXTENDS Naturals, Sequences

CONSTANTS
  Key, Value,
  MaxCalls  \* bound: calls queued for either thread

VARIABLES
  property,  \* p_...
  marked,    \* m_propertySetStatus
  config,    \* m_config: "none", "failed", "stored" (not sure to be seen), "seen"
  todo,      \* properties that initialize has not come to
  setting,   \* [key, value]: a setter between its assignment and its look at m_config
  stored,    \* the settings
  toConfig,  \* queued for the worker
  toObject,  \* queued for the object
  wanted,    \* history: what was set and not changed by others since, or Unset
  missed     \* history: properties whose setter missed the pointer

vars == <<property, marked, config, todo, setting, stored, toConfig, toObject, wanted,
          missed>>

CONSTANT Unset  \* none

Calls(k, v) == [key |-> k, value |-> v]
Roomy == Len(toConfig) + Len(toObject) < MaxCalls

-----------------------------------------------------------------------------
(* The object's thread.                                                      *)

\* The first half of a setter: the property is assigned.
SetX(k, v) ==
  /\ setting = Unset /\ Roomy
  /\ property' = [property EXCEPT ![k] = v] /\ setting' = Calls(k, v)
  /\ wanted' = [wanted EXCEPT ![k] = v]
  /\ UNCHANGED <<marked, config, todo, stored, toConfig, toObject, missed>>

\* Defect: the property is not marked.
TellOnly(seen) ==
  /\ marked' = marked
  /\ toConfig' = IF seen THEN Append(toConfig, setting) ELSE toConfig

\* markPropertySet, and the call if m_config is seen.
MarkAndTell(seen) ==
  /\ marked' = marked \cup {setting.key}
  /\ toConfig' = IF seen THEN Append(toConfig, setting) ELSE toConfig

\* The second half.
SetXEnds ==
  /\ setting # Unset /\ setting' = Unset
  /\ \E seen \in IF config = "stored" THEN BOOLEAN ELSE {config = "seen"} :
       /\ MarkAndTell(seen)
       /\ config' = IF seen THEN "seen" ELSE config
       /\ missed' = IF config = "stored" /\ ~seen THEN missed \cup {setting.key} ELSE missed
  /\ UNCHANGED <<property, todo, stored, toObject, wanted>>

\* The queued half of updateValue.
Updated ==
  /\ setting = Unset /\ toObject # <<>> /\ toObject' = Tail(toObject)
  /\ property' = [property EXCEPT ![Head(toObject).key] = Head(toObject).value]
  /\ config' = "seen"
  /\ UNCHANGED <<marked, todo, setting, stored, toConfig, wanted, missed>>

-----------------------------------------------------------------------------
(* The worker's thread.                                                      *)

\* DConfig::create, and initialize up to the first property.
Created(ok) ==
  /\ config = "none" /\ config' = IF ok THEN "stored" ELSE "failed"
  /\ todo' = IF ok THEN Key ELSE {}
  /\ UNCHANGED <<property, marked, setting, stored, toConfig, toObject, wanted, missed>>

UpdateValue(k) == toObject' = Append(toObject, Calls(k, stored'[k]))

\* initialize, for one property: valueChanged is not connected yet.
Initialize(k) ==
  /\ k \in todo /\ todo' = todo \ {k}
  /\ IF k \in marked
     THEN stored' = [stored EXCEPT ![k] = property[k]] /\ UNCHANGED toObject
     ELSE UNCHANGED stored /\ UpdateValue(k)
  /\ UNCHANGED <<property, marked, config, setting, toConfig, wanted, missed>>

Running == config \in {"stored", "seen"} /\ todo = {}

\* setValue in the worker's thread; valueChanged comes at once when it is one.
SetValue ==
  /\ Running /\ toConfig # <<>> /\ toConfig' = Tail(toConfig)
  /\ LET call == Head(toConfig)
     IN  IF stored[call.key] = call.value THEN UNCHANGED <<stored, toObject>>
         ELSE stored' = [stored EXCEPT ![call.key] = call.value] /\ UpdateValue(call.key)
  /\ UNCHANGED <<property, marked, config, todo, setting, wanted, missed>>

\* Somebody else changes a setting.
Changed(k, v) ==
  /\ v # stored[k] /\ Roomy
  /\ todo \in {{}, Key}
  /\ stored' = [stored EXCEPT ![k] = v]
  /\ IF Running THEN UpdateValue(k) ELSE UNCHANGED toObject
  /\ wanted' = [wanted EXCEPT ![k] = Unset]
  /\ UNCHANGED <<property, marked, config, todo, setting, toConfig, missed>>

Init ==
  /\ property \in [Key -> Value] /\ stored \in [Key -> Value]
  /\ marked = {} /\ config = "none" /\ todo = {} /\ setting = Unset
  /\ toConfig = <<>> /\ toObject = <<>>
  /\ wanted = [k \in Key |-> Unset] /\ missed = {}

Next ==
  \/ \E k \in Key, v \in Value : SetX(k, v) \/ Changed(k, v)
  \/ SetXEnds \/ Updated \/ SetValue
  \/ \E ok \in BOOLEAN : Created(ok)
  \/ \E k \in Key : Initialize(k)

Spec == Init /\ [][Next]_vars

-----------------------------------------------------------------------------
(* Properties.                                                               *)

Call == [key : Key, value : Value]

\* Every variable keeps its type.
TypeOK ==
  /\ {property, stored} \subseteq [Key -> Value] /\ wanted \in [Key -> Value \cup {Unset}]
  /\ {marked, todo, missed} \subseteq SUBSET Key /\ setting \in Call \cup {Unset}
  /\ config \in {"none", "failed", "stored", "seen"}
  /\ {toConfig, toObject} \subseteq Seq(Call)

Quiet == Running /\ setting = Unset /\ toConfig = <<>> /\ toObject = <<>>

\* When nothing is under way the object has what is stored, and what was set before or
\* after the settings were opened was stored: unless the setter looked for the settings
\* while they were stored and missed them.
CacheAgrees ==
  Quiet => \A k \in Key \ missed :
             property[k] = stored[k] /\ wanted[k] \in {Unset, stored[k]}

CacheSound == TypeOK /\ CacheAgrees
=============================================================================
