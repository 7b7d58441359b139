----------------------------- MODULE MCSettings -----------------------------
(***************************************************************************)
(* DockSettings, NotificationSetting, NotifyPolicy and DConfigCache for TLC.    *)
(* They share no state: a behaviour is one of one of them (of one half of those     *)
(* that have two).                                                           *)
(***************************************************************************)
EXTENDS DockSettings

CONSTANTS
  App, Info, System, MaxCalls, Unread,            \* NotificationSetting
  Day, Notification, MaxInvoked, Nothing,         \* NotifyPolicy
  Property, Content, MaxQueued, Unset             \* DConfigCache

\* What is none of the values, a name that is no other, and a day with two times.
ASSUME PartsAssumption ==
  /\ Unset \notin Content \cup [key : Property, value : Content]
  /\ "appsInfo" \notin System
  /\ Day \in Nat /\ Day > 1

\* What is out of range means the default for the mode, and nothing for the size.
DockReads(k, v) == IF k = "visible" THEN v ELSE IF v = 3 THEN 1 ELSE v

VARIABLES
  part,
  appsInfo, appsCache, system, systemInfo, news, rows, items, calls, known, blind,
  now, locked, setting, last, stored, new, invoked, waiting, started, announced,
  property, marked, pointer, unread, setter, kept, toConfig, toObject, wanted, missed

settingVars == <<appsInfo, appsCache, system, systemInfo, news, rows, items, calls,
                 known, blind>>
policyVars  == <<now, locked, setting, last, stored, new, invoked, waiting, started,
                 announced>>
cacheVars   == <<property, marked, pointer, unread, setter, kept, toConfig, toObject,
                 wanted, missed>>

Setting == INSTANCE NotificationSetting
Policy  == INSTANCE NotifyPolicy WITH
             calls <- invoked, told <- announced, MaxCalls <- MaxInvoked
Cached  == INSTANCE DConfigCache WITH
             Key <- Property, Value <- Content, MaxCalls <- MaxQueued,
             config <- pointer, todo <- unread, setting <- setter, stored <- kept

PartsInit ==
  /\ part \in {"dock", "values", "list", "policy", "actions", "cache"}
  /\ Init /\ Setting!Init /\ Policy!Init /\ Cached!Init
  /\ part # "dock" => config = [k \in Key |-> 1]
  /\ part # "values" => appsInfo = [a \in App |-> CHOOSE i \in Info : TRUE]
  /\ part # "values" => system = [k \in System |-> 1]
  /\ part # "list" => rows = {}
  /\ part # "policy" => ~locked
  /\ part # "cache" => property = kept /\ kept = [k \in Property |-> CHOOSE v \in Content : TRUE]

PartsNext ==
  /\ UNCHANGED part
  /\ \/ part = "dock" /\ Next /\ UNCHANGED <<settingVars, policyVars, cacheVars>>
     \/ part = "values" /\ Setting!ValuesNext /\ UNCHANGED <<vars, policyVars, cacheVars>>
     \/ part = "list" /\ Setting!ListNext /\ UNCHANGED <<vars, policyVars, cacheVars>>
     \/ part = "policy" /\ Policy!PolicyNext /\ UNCHANGED <<vars, settingVars, cacheVars>>
     \/ part = "actions" /\ Policy!ActionsNext /\ UNCHANGED <<vars, settingVars, cacheVars>>
     \/ part = "cache" /\ Cached!Next /\ UNCHANGED <<vars, settingVars, policyVars>>

PartsSpec == PartsInit /\ [][PartsNext]_<<part, vars, settingVars, policyVars, cacheVars>>

-----------------------------------------------------------------------------
(* The properties of the parts.                                              *)

\* The notification server goes by the settings there are, and its clients know the
\* applications.
SettingsFresh == Setting!SettingsFresh

\* A generated class and the settings agree on every property.
CacheSound == Cached!CacheSound

\* What is shown and what is run are what the user set and asked for.
PolicySound == Policy!PolicySound

\* The settings of the dock and of the notification server count as they were set last,
\* and so do those of the generated classes.
SettingsSound == TypeOK /\ SettingsSettle /\ SettingsFresh /\ CacheSound
=============================================================================
