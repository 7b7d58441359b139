------------------------- MODULE NotificationSetting -------------------------
(***************************************************************************)
(* The settings the notification server goes by: server/notificationsetting.cpp. *)
(*                                                                           *)
(* All lives in the worker thread.  What DConfig has is cached until its          *)
(* valueChanged comes, for the server's own writes too; the settings of all       *)
(* applications are one value.  The list of applications is cached likewise until  *)
(* the model's rows change, which is heard from the main thread.  The two halves   *)
(* share no state.                                                            *)
(***************************************************************************)
EXTENDS Naturals, FiniteSets

CONSTANTS
  App,      \* applications
  Info,     \* settings of one
  System,   \* keys of the settings of the system
  Value,
  MaxCalls, \* bound: changes of the rows not yet heard
  Unread    \* what is not in the cache

VARIABLES
  appsInfo,   \* DConfig: application -> its settings
  appsCache,  \* m_appsInfo
  system,     \* DConfig: key -> value
  systemInfo, \* m_systemInfo: key -> value or Unread
  news,       \* valueChanged under way: <<key, who wrote>>
  rows,       \* the applications the model has
  items,      \* m_appItems; none stands for not read
  calls,      \* onAppsChanged under way
  known,      \* the applications a client knows of, by apps() and the signals since
  blind       \* history: an onAppsChanged found nothing in the cache

values == <<appsInfo, appsCache, system, systemInfo, news>>
list   == <<rows, items, calls, known, blind>>
vars   == <<values, list>>

None == [k \in System |-> Unread]

-----------------------------------------------------------------------------
(* Values.                                                                   *)

AppInfo == IF appsCache = Unread THEN appsInfo ELSE appsCache

\* appValue
AppValue ==
  /\ appsCache = Unread /\ appsCache' = appsInfo
  /\ UNCHANGED <<appsInfo, system, systemInfo, news, list>>

\* setAppValue: the whole value is written, as the cache has it.
SetAppValue(a, i) ==
  LET all == [AppInfo EXCEPT ![a] = i]
  IN  /\ appsCache' = all /\ appsInfo' = all
      /\ news' = IF all = appsInfo THEN news ELSE news \cup {<<"appsInfo", "own">>}
      /\ UNCHANGED <<system, systemInfo, list>>

\* systemValue
SystemValue(k) ==
  /\ systemInfo[k] = Unread /\ systemInfo' = [systemInfo EXCEPT ![k] = system[k]]
  /\ UNCHANGED <<appsInfo, appsCache, system, news, list>>

\* Defect: the cache is left to valueChanged.
SetSystemValueCached(k, v) ==
  /\ system' = [system EXCEPT ![k] = v] /\ UNCHANGED systemInfo
  /\ news' = IF v = system[k] THEN news ELSE news \cup {<<k, "own">>}
  /\ UNCHANGED <<appsInfo, appsCache, list>>

\* setSystemValue
SetSystemValue(k, v) ==
  /\ system' = [system EXCEPT ![k] = v] /\ systemInfo' = None
  /\ news' = IF v = system[k] THEN news ELSE news \cup {<<k, "own">>}
  /\ UNCHANGED <<appsInfo, appsCache, list>>

\* Another process writes.
OtherWrites ==
  /\ \/ \E a \in App, i \in Info :
          /\ i # appsInfo[a] /\ appsInfo' = [appsInfo EXCEPT ![a] = i] /\ UNCHANGED system
          /\ news' = news \cup {<<"appsInfo", "other">>}
     \/ \E k \in System, v \in Value :
          /\ v # system[k] /\ system' = [system EXCEPT ![k] = v] /\ UNCHANGED appsInfo
          /\ news' = news \cup {<<k, "other">>}
  /\ UNCHANGED <<appsCache, systemInfo, list>>

\* valueChanged is delivered.
ValueChanged(n) ==
  /\ n \in news /\ news' = news \ {n}
  /\ IF n[1] = "appsInfo" THEN appsCache' = Unread /\ UNCHANGED systemInfo
                          ELSE systemInfo' = None /\ UNCHANGED appsCache
  /\ UNCHANGED <<appsInfo, system, list>>

ValuesNext ==
  \/ AppValue \/ OtherWrites
  \/ \E a \in App, i \in Info : SetAppValue(a, i)
  \/ \E k \in System : SystemValue(k) \/ \E v \in Value : SetSystemValue(k, v)
  \/ \E n \in ({"appsInfo"} \cup System) \X {"own", "other"} : ValueChanged(n)

-----------------------------------------------------------------------------
(* Applications.                                                             *)

AppItems == IF items = {} THEN rows ELSE items

\* The rows of the model change, in the main thread.
RowsChange(new) ==
  /\ new # rows /\ rows' = new /\ calls < MaxCalls /\ calls' = calls + 1
  /\ UNCHANGED <<values, items, known, blind>>

\* onAppsChanged: appAdded and appRemoved for what is not in the cache, or not any more
\* in the model.
OnAppsChanged ==
  /\ calls > 0 /\ calls' = calls - 1
  /\ known' = (known \cup (rows \ AppItems)) \ (AppItems \ rows)
  /\ items' = rows /\ blind' = (blind \/ items = {})
  /\ UNCHANGED <<values, rows>>

\* apps
Apps ==
  /\ items' = AppItems /\ known' = AppItems /\ blind' = FALSE
  /\ UNCHANGED <<values, rows, calls>>

\* appItem, when the name of an application is asked for: the list is read as well.
AppItem ==
  /\ items = {} /\ items' = rows /\ blind' = (blind \/ calls > 0)
  /\ UNCHANGED <<values, rows, calls, known>>

ListNext == OnAppsChanged \/ Apps \/ AppItem \/ \E new \in SUBSET App : RowsChange(new)

Init ==
  /\ appsInfo \in [App -> Info] /\ appsCache = Unread
  /\ system \in [System -> Value] /\ systemInfo = None /\ news = {}
  /\ rows \in SUBSET App /\ items = {} /\ calls = 0 /\ known = {} /\ blind = TRUE

Next == ValuesNext \/ ListNext

Spec == Init /\ [][Next]_vars

-----------------------------------------------------------------------------
(* Properties.                                                               *)

Heard(k) == <<k, "other">> \notin news

\* What the server goes by is what DConfig has, unless another process wrote it and the
\* news is under way: its own writes count at once.
CacheFresh ==
  /\ Heard("appsInfo") => AppInfo = appsInfo
  /\ \A k \in System : Heard(k) => systemInfo[k] \in {Unread, system[k]}

\* A client that asked for the applications knows those the model has once its changes
\* are heard, unless the list had been empty: then the first ones are not announced.
AppsKnown == calls = 0 /\ ~blind => known = rows

\* The settings are as fresh as the news, and the applications as the signals.
SettingsFresh == CacheFresh /\ AppsKnown
=============================================================================
