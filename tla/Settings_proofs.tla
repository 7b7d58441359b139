--------------------------- MODULE Settings_proofs ---------------------------
(***************************************************************************)
(* The settings: what counts is what was set last.  One invariant for each part   *)
(* of MCSettings, which share no state; theorems of each part alone and of the     *)
(* parts together.                                                           *)
(***************************************************************************)
EXTENDS MCSettings, Sequences, FiniteSetTheorems, TLAPS

-----------------------------------------------------------------------------
(* The settings of the dock.                                                  *)

\* What the dock goes by means itself; the size goes by nothing else.
Readable == \A k \in Key \ Ignores : Reads(k, memory[k]) = memory[k]

DockInv == TypeOK /\ Readable /\ SettingsSettle

\* Every step keeps the settings settled.
LEMMA DockStep == DockInv /\ [Next]_vars => DockInv'
<1> SUFFICES ASSUME DockInv, [Next]_vars PROVE DockInv'
  OBVIOUS
<1>1. /\ memory \in [Key -> Value] /\ config \in [Key -> Value] /\ told \subseteq Key
      /\ job \in Delayed \cup {NoKey} /\ lost \subseteq Delayed /\ Delayed \subseteq Key
      /\ Direct \subseteq Key
  BY DEF DockInv, TypeOK, Key
<1>2. \A k \in Key \ Ignores : Reads(k, memory[k]) = memory[k]
  BY DEF DockInv, Readable
<1>3. \A k \in Key : k \in told \/ k \in lost \/ k = job
                       \/ memory[k] = Taken(k, config[k], memory[k])
  BY DEF DockInv, SettingsSettle
<1>4. ASSUME NEW k \in Delayed, NEW v \in Value, Reads(k, v) = v, SetDelayed(k, v)
      PROVE  DockInv'
  <2>1. /\ memory' = [memory EXCEPT ![k] = v] /\ UNCHANGED <<config, told>> /\ job' = k
        /\ lost' = (IF job = NoKey THEN lost ELSE lost \cup {job}) \ {k}
    BY <1>4 DEF SetDelayed, AddWriteJob
  <2>2. TypeOK'
    BY <1>1, <2>1 DEF TypeOK
  <2>3. Readable'
    BY <1>1, <1>2, <1>4, <2>1 DEF Readable
  <2>4. SettingsSettle'
    BY <1>1, <1>3, <2>1, ReadsAssumption DEF SettingsSettle
  <2> QED
    BY <2>2, <2>3, <2>4 DEF DockInv
<1>5. ASSUME NEW k \in Direct, NEW v \in Value, Reads(k, v) = v, SetDirect(k, v)
      PROVE  DockInv'
  <2>1. /\ memory' = [memory EXCEPT ![k] = v] /\ config' = [config EXCEPT ![k] = v]
        /\ told' = IF v = config[k] THEN told ELSE told \cup {k}
        /\ UNCHANGED <<job, lost>>
    BY <1>5 DEF SetDirect, SetValue
  <2>2. TypeOK'
    BY <1>1, <2>1 DEF TypeOK
  <2>3. Readable'
    BY <1>1, <1>2, <1>5, <2>1 DEF Readable
  <2>4. SettingsSettle'
    BY <1>1, <1>3, <1>5, <2>1 DEF SettingsSettle, Taken
  <2> QED
    BY <2>2, <2>3, <2>4 DEF DockInv
<1>6. ASSUME NEW k \in Key, ValueChanged(k)
      PROVE  DockInv'
  <2>1. /\ memory' = [memory EXCEPT ![k] = Taken(k, config[k], memory[k])]
        /\ told' = told \ {k} /\ lost' = lost \ {k} /\ UNCHANGED <<config, job>>
    BY <1>6 DEF ValueChanged
  <2>2. Taken(k, config[k], memory[k]) \in Value
    BY <1>1, ReadsAssumption DEF Taken
  <2>3. TypeOK'
    BY <1>1, <2>1, <2>2 DEF TypeOK
  <2>4. Readable'
    BY <1>1, <1>2, <2>1, ReadsAssumption DEF Readable, Taken
  <2>5. SettingsSettle'
    BY <1>1, <1>3, <2>1 DEF SettingsSettle, Taken
  <2> QED
    BY <2>3, <2>4, <2>5 DEF DockInv
<1>7. ASSUME NEW k \in Key, NEW v \in Value, Written(k, v)
      PROVE  DockInv'
  <2>1. /\ config' = [config EXCEPT ![k] = v] /\ told' = told \cup {k}
        /\ UNCHANGED <<memory, job, lost>>
    BY <1>7 DEF Written, SetValue
  <2>2. TypeOK'
    BY <1>1, <2>1 DEF TypeOK
  <2>3. Readable'
    BY <1>2, <2>1 DEF Readable
  <2>4. SettingsSettle'
    BY <1>1, <1>3, <2>1 DEF SettingsSettle
  <2> QED
    BY <2>2, <2>3, <2>4 DEF DockInv
<1>8. CASE WriteTimeout
  <2>1. /\ job \in Delayed /\ job' = NoKey /\ config' = [config EXCEPT ![job] = memory[job]]
        /\ told' = IF memory[job] = config[job] THEN told ELSE told \cup {job}
        /\ lost' = lost \ {job} /\ UNCHANGED memory
    BY <1>1, <1>8 DEF WriteTimeout, SetValue
  <2>2. TypeOK'
    BY <1>1, <2>1 DEF TypeOK
  <2>3. Readable'
    BY <1>2, <2>1 DEF Readable
  <2>4. SettingsSettle'
    BY <1>1, <1>2, <1>3, <2>1 DEF SettingsSettle, Taken
  <2> QED
    BY <2>2, <2>3, <2>4 DEF DockInv
<1>9. CASE Restart
  <2>1. /\ memory' = [k \in Key |-> IF k \in Ignores THEN config[k] ELSE Reads(k, config[k])]
        /\ told' = {} /\ job' = NoKey /\ lost' = {} /\ UNCHANGED config
    BY <1>9 DEF Restart
  <2>2. TypeOK'
    BY <1>1, <2>1, ReadsAssumption DEF TypeOK
  <2>3. Readable'
    BY <1>1, <2>1, ReadsAssumption DEF Readable
  <2>4. SettingsSettle'
    BY <1>1, <2>1 DEF SettingsSettle, Taken
  <2> QED
    BY <2>2, <2>3, <2>4 DEF DockInv
<1>10. CASE UNCHANGED vars
  BY <1>10 DEF vars, DockInv, TypeOK, Readable, SettingsSettle
<1> QED
  BY <1>4, <1>5, <1>6, <1>7, <1>8, <1>9, <1>10 DEF Next

\* At first nothing is under way.
LEMMA DockStart == Init => DockInv
<1> SUFFICES ASSUME Init PROVE DockInv
  OBVIOUS
<1>1. TypeOK
  BY ReadsAssumption DEF Init, TypeOK
<1>2. Readable
  BY ReadsAssumption DEF Init, Readable
<1>3. SettingsSettle
  BY DEF Init, SettingsSettle, Taken
<1> QED
  BY <1>1, <1>2, <1>3 DEF DockInv

\* A setting whose job is done and whose news are heard is in DConfig what it is for
\* the dock, for any settings and values and however they are read.
THEOREM DockSettles == Spec => [](TypeOK /\ SettingsSettle)
<1>1. DockInv => TypeOK /\ SettingsSettle
  BY DEF DockInv
<1> QED
  BY <1>1, DockStart, DockStep, PTL DEF Spec

-----------------------------------------------------------------------------
(* The settings of the notification server.                                   *)

\* A cached value is the one there is, unless another process's is news.
ValuesInv ==
  /\ systemInfo \in [System -> Value \cup {Unread}] /\ system \in [System -> Value]
  /\ appsInfo \in [App -> Info] /\ appsCache \in [App -> Info] \cup {Unread}
  /\ Setting!CacheFresh

\* A client knows what is cached; what is cached are the rows, once changes are heard.
ListInv ==
  /\ calls \in Nat /\ blind \in BOOLEAN
  /\ ~blind => known = items
  /\ calls = 0 /\ (~blind \/ items # {}) => items = rows

SettingInv == ValuesInv /\ ListInv

\* Every step keeps the values fresh.
LEMMA ValuesStep == ValuesInv /\ [Setting!ValuesNext]_settingVars => ValuesInv'
<1> SUFFICES ASSUME ValuesInv, [Setting!ValuesNext]_settingVars PROVE ValuesInv'
  OBVIOUS
<1>1. /\ systemInfo \in [System -> Value \cup {Unread}] /\ system \in [System -> Value]
      /\ appsInfo \in [App -> Info] /\ appsCache \in [App -> Info] \cup {Unread}
      /\ <<"appsInfo", "other">> \in news \/ appsCache \in {Unread, appsInfo}
      /\ \A k \in System : <<k, "other">> \in news \/ systemInfo[k] \in {Unread, system[k]}
  BY DEF ValuesInv, Setting!CacheFresh, Setting!Heard, Setting!AppInfo
<1> DEFINE Fresh ==
      /\ systemInfo' \in [System -> Value \cup {Unread}] /\ system' \in [System -> Value]
      /\ appsInfo' \in [App -> Info] /\ appsCache' \in [App -> Info] \cup {Unread}
      /\ <<"appsInfo", "other">> \in news' \/ appsCache' \in {Unread, appsInfo'}
      /\ \A k \in System : <<k, "other">> \in news' \/ systemInfo'[k] \in {Unread, system'[k]}
<1>2. ASSUME Setting!AppValue PROVE Fresh
  BY <1>1, <1>2 DEF Setting!AppValue
<1>3. ASSUME NEW a \in App, NEW i \in Info, Setting!SetAppValue(a, i)
      PROVE  Fresh
  <2>1. PICK all : all = [Setting!AppInfo EXCEPT ![a] = i]
    OBVIOUS
  <2>2. /\ appsCache' = all /\ appsInfo' = all /\ news \subseteq news'
        /\ UNCHANGED <<system, systemInfo>>
    BY <1>3, <2>1 DEF Setting!SetAppValue
  <2>3. Setting!AppInfo \in [App -> Info]
    BY <1>1 DEF Setting!AppInfo
  <2>4. all \in [App -> Info]
    BY <2>1, <2>3
  <2> QED
    BY <1>1, <2>2, <2>4
<1>4. ASSUME Setting!OtherWrites PROVE Fresh
  BY <1>1, <1>4, PartsAssumption DEF Setting!OtherWrites
<1>5. ASSUME NEW k \in System, Setting!SystemValue(k)
      PROVE  Fresh
  BY <1>1, <1>5 DEF Setting!SystemValue
<1>6. ASSUME NEW k \in System, NEW v \in Value, Setting!SetSystemValue(k, v)
      PROVE  Fresh
  BY <1>1, <1>6 DEF Setting!SetSystemValue, Setting!None
<1>7. ASSUME NEW n \in ({"appsInfo"} \cup System) \X {"own", "other"}, Setting!ValueChanged(n)
      PROVE  Fresh
  BY <1>1, <1>7, PartsAssumption DEF Setting!ValueChanged, Setting!None
<1>8. ASSUME UNCHANGED settingVars PROVE Fresh
  BY <1>1, <1>8 DEF settingVars
<1>9. Fresh
  BY <1>2, <1>3, <1>4, <1>5, <1>6, <1>7, <1>8 DEF Setting!ValuesNext
<1> QED
  BY <1>9 DEF ValuesInv, Setting!CacheFresh, Setting!Heard, Setting!AppInfo

\* Every step keeps the clients' list.
LEMMA ListStep == ListInv /\ [Setting!ListNext]_settingVars => ListInv'
<1> SUFFICES ASSUME ListInv, [Setting!ListNext]_settingVars PROVE ListInv'
  OBVIOUS
<1>1. CASE Setting!OnAppsChanged
  <2>1. /\ known' = (known \cup (rows \ Setting!AppItems)) \ (Setting!AppItems \ rows)
        /\ calls > 0 /\ calls' = calls - 1 /\ items' = rows /\ rows' = rows
        /\ blind' = (blind \/ items = {})
    BY <1>1 DEF Setting!OnAppsChanged
  <2>2. ~blind' => ~blind /\ items # {}
    BY <2>1
  <2>3. items # {} => Setting!AppItems = items
    BY DEF Setting!AppItems
  <2>4. ~blind' => known' = rows
    <3>1. ~blind' => known = items
      BY <2>2 DEF ListInv
    <3>2. (items \cup (rows \ items)) \ (items \ rows) = rows
      OBVIOUS
    <3> QED
      BY <2>1, <2>2, <2>3, <3>1, <3>2
  <2>5. calls' \in Nat /\ blind' \in BOOLEAN
    BY <2>1 DEF ListInv
  <2> QED
    BY <2>1, <2>4, <2>5 DEF ListInv
<1>2. CASE Setting!Apps
  BY <1>2 DEF ListInv, Setting!Apps, Setting!AppItems
<1>3. CASE Setting!AppItem
  <2>1. /\ items = {} /\ items' = rows /\ blind' = (blind \/ calls > 0)
        /\ UNCHANGED <<rows, calls, known>>
    BY <1>3 DEF Setting!AppItem
  <2>2. calls \in Nat /\ blind' \in BOOLEAN
    BY <2>1 DEF ListInv
  <2>3. ~blind' => ~blind /\ ~(calls > 0)
    BY <2>1, Zenon
  <2>5. ~(calls > 0) => calls = 0
    BY <2>2
  <2>4. ~blind' => known' = items'
    BY <2>1, <2>3, <2>5 DEF ListInv
  <2> QED
    BY <2>1, <2>2, <2>4 DEF ListInv
<1>4. ASSUME NEW apps \in SUBSET App, Setting!RowsChange(apps)
      PROVE  ListInv'
  BY <1>4 DEF ListInv, Setting!RowsChange
<1>5. CASE UNCHANGED settingVars
  BY <1>5 DEF settingVars, ListInv
<1> QED
  BY <1>1, <1>2, <1>3, <1>4, <1>5 DEF Setting!ListNext

\* The two halves share no state.
LEMMA SettingStep == SettingInv /\ [Setting!Next]_settingVars => SettingInv'
<1>1. Setting!ValuesNext => UNCHANGED <<rows, items, calls, known, blind>>
  BY DEF Setting!ValuesNext, Setting!AppValue, Setting!OtherWrites, Setting!SetAppValue,
         Setting!SystemValue, Setting!SetSystemValue, Setting!ValueChanged, Setting!list
<1>2. Setting!ListNext => UNCHANGED <<appsInfo, appsCache, system, systemInfo, news>>
  BY DEF Setting!ListNext, Setting!OnAppsChanged, Setting!Apps, Setting!AppItem,
         Setting!RowsChange, Setting!values
<1>3. UNCHANGED <<rows, items, calls, known, blind>> /\ ListInv => ListInv'
  BY DEF ListInv
<1>4. UNCHANGED <<appsInfo, appsCache, system, systemInfo, news>> /\ ValuesInv => ValuesInv'
  BY DEF ValuesInv, Setting!CacheFresh, Setting!Heard, Setting!AppInfo
<1>5. UNCHANGED settingVars =>
        /\ UNCHANGED <<rows, items, calls, known, blind>>
        /\ UNCHANGED <<appsInfo, appsCache, system, systemInfo, news>>
  BY DEF settingVars
<1> QED
  BY <1>1, <1>2, <1>3, <1>4, <1>5, ValuesStep, ListStep DEF Setting!Next, SettingInv

\* At first nothing is cached.
LEMMA SettingInit == Setting!Init => SettingInv
<1> SUFFICES ASSUME Setting!Init PROVE SettingInv
  OBVIOUS
<1>1. ValuesInv
  BY DEF Setting!Init, ValuesInv, Setting!CacheFresh, Setting!Heard, Setting!AppInfo,
         Setting!None
<1>2. ListInv
  BY DEF Setting!Init, ListInv
<1> QED
  BY <1>1, <1>2 DEF SettingInv

\* What the invariant says of clients.
LEMMA SettingsAreFresh == SettingInv => SettingsFresh
BY DEF SettingInv, ValuesInv, ListInv, SettingsFresh, Setting!SettingsFresh, Setting!AppsKnown

\* What the server goes by is what DConfig has until another process's change is news,
\* and a client that asked knows the applications there are.
THEOREM ServerSettingsFresh == Setting!Spec => []Setting!SettingsFresh
<1>1. [Setting!Next]_Setting!vars => [Setting!Next]_settingVars
  BY DEF Setting!vars, Setting!values, Setting!list, settingVars
<1>2. SettingInv => Setting!SettingsFresh
  BY SettingsAreFresh DEF SettingsFresh
<1> QED
  BY <1>1, <1>2, SettingInit, SettingStep, PTL DEF Setting!Spec

-----------------------------------------------------------------------------
(* What becomes of an arrival.                                                *)

\* The settings are switches and times of the day.
PolicyTypes ==
  /\ now \in 0..Day - 1
  /\ setting \in [Policy!Switch \cup Policy!Time -> BOOLEAN \cup 0..Day - 1]
  /\ \A k \in Policy!Switch : setting[k] \in BOOLEAN
  /\ \A k \in Policy!Time : setting[k] \in 0..Day - 1

PolicyInv == PolicyTypes /\ Policy!PolicyRight

\* An interval over midnight holds the times that are no longer after its start than
\* its end is.
LEMMA IntervalOfDay ==
  ASSUME NEW s \in 0..Day - 1, NEW e \in 0..Day - 1, NEW t \in 0..Day - 1
  PROVE  Policy!InInterval(t, s, e) <=> s = e \/ Policy!Since(s, t) <= Policy!Since(s, e)
<1>1. Day \in Nat /\ s \in Int /\ e \in Int /\ t \in Int
  BY PartsAssumption
<1>2. /\ 0 <= s /\ 0 <= e /\ 0 <= t /\ s < Day /\ e < Day /\ t < Day
  BY <1>1
<1>3. CASE s < e
  BY <1>1, <1>2, <1>3 DEF Policy!InInterval, Policy!Since
<1>4. CASE s > e
  BY <1>1, <1>2, <1>4 DEF Policy!InInterval, Policy!Since
<1>5. CASE s = e
  BY <1>1, <1>5 DEF Policy!InInterval
<1> QED
  BY <1>1, <1>3, <1>4, <1>5

\* isDoNotDisturb is what the settings ask for.
LEMMA DisturbIsQuiet == PolicyTypes => (Policy!IsDoNotDisturb <=> Policy!Quiet)
<1> SUFFICES ASSUME PolicyTypes PROVE Policy!IsDoNotDisturb <=> Policy!Quiet
  OBVIOUS
<1>1. /\ now \in 0..Day - 1 /\ setting.startTime \in 0..Day - 1
      /\ setting.endTime \in 0..Day - 1
  BY DEF PolicyTypes, Policy!Time
<1>2. Policy!InInterval(now, setting.startTime, setting.endTime) <=>
        \/ setting.startTime = setting.endTime
        \/ Policy!Since(setting.startTime, now) <= Policy!Since(setting.startTime, setting.endTime)
  BY <1>1, IntervalOfDay
<1> QED
  BY <1>2, Zenon DEF Policy!IsDoNotDisturb, Policy!Quiet

\* Every step keeps what is shown right.
LEMMA PolicyStep == PolicyInv /\ [Policy!PolicyNext]_policyVars => PolicyInv'
<1> SUFFICES ASSUME PolicyInv, [Policy!PolicyNext]_policyVars PROVE PolicyInv'
  OBVIOUS
<1>1. PolicyTypes /\ Policy!PolicyRight
  BY DEF PolicyInv
<1>2. UNCHANGED <<now, setting>> => PolicyTypes'
  BY <1>1 DEF PolicyTypes
<1>3. UNCHANGED <<now, setting, locked>> => (Policy!Quiet' <=> Policy!Quiet)
  BY DEF Policy!Quiet, Policy!Since
<1>4. CASE Policy!Changes
  <2>1. last' = Nothing
    BY <1>4 DEF Policy!Changes
  <2>2. PolicyTypes'
    <3>1. ASSUME now' = (IF now + 1 = Day THEN 0 ELSE now + 1), UNCHANGED <<locked, setting>>
          PROVE  PolicyTypes'
      BY <1>1, <3>1, PartsAssumption DEF PolicyTypes
    <3>2. ASSUME NEW k \in Policy!Switch, UNCHANGED <<now, locked>>,
                 setting' = [setting EXCEPT ![k] = ~@]
          PROVE  PolicyTypes'
      BY <1>1, <3>2 DEF PolicyTypes, Policy!Switch, Policy!Time
    <3>3. ASSUME NEW k \in Policy!Time, NEW t \in 0..Day - 1, UNCHANGED <<now, locked>>,
                 setting' = [setting EXCEPT ![k] = t]
          PROVE  PolicyTypes'
      BY <1>1, <3>3 DEF PolicyTypes, Policy!Switch, Policy!Time
    <3> QED
      BY <1>2, <1>4, <3>1, <3>2, <3>3 DEF Policy!Changes
  <2> QED
    BY <2>1, <2>2 DEF PolicyInv, Policy!PolicyRight
<1>5. ASSUME NEW a \in Policy!Application, NEW replaces \in BOOLEAN, NEW silent \in BOOLEAN,
             Policy!Notify(a, replaces, silent)
      PROVE  PolicyInv'
  <2>1. /\ a.enabled \/ a.system
        /\ last' = [app |-> a, replaces |-> replaces,
                    shown |-> replaces \/ Policy!Shown(a), sounds |-> Policy!Sounds(a, silent)]
        /\ UNCHANGED <<now, locked, setting>>
    BY <1>5 DEF Policy!Notify
  <2>2. /\ last'.app = a /\ last'.replaces = replaces
        /\ last'.shown = (replaces \/ Policy!Shown(a)) /\ last'.sounds = Policy!Sounds(a, silent)
    BY <2>1
  <2>3. Policy!Quiet' <=> Policy!IsDoNotDisturb
    BY <1>1, <1>3, <2>1, DisturbIsQuiet
  <2>4. Policy!Sounds(a, silent) => ~Policy!IsDoNotDisturb
    BY DEF Policy!Sounds
  <2>5. ~a.system =>
          (Policy!Shown(a) <=> /\ ~Policy!IsDoNotDisturb /\ (locked => a.onLock)
                               /\ (~locked => a.onDesktop))
    BY <2>1, Zenon DEF Policy!Shown
  <2>6. Policy!PolicyRight'
    BY <2>1, <2>2, <2>3, <2>4, <2>5, Zenon DEF Policy!PolicyRight
  <2> QED
    BY <1>2, <2>1, <2>6 DEF PolicyInv
<1>6. CASE UNCHANGED policyVars
  BY <1>1, <1>2, <1>3, <1>6 DEF policyVars, PolicyInv, Policy!PolicyRight
<1> QED
  BY <1>4, <1>5, <1>6 DEF Policy!PolicyNext

\* At first nothing is decided.
LEMMA PolicyInit == Policy!Init => PolicyInv
<1> SUFFICES ASSUME Policy!Init PROVE PolicyInv
  OBVIOUS
<1>1. PolicyTypes
  BY PartsAssumption DEF Policy!Init, PolicyTypes, Policy!Switch, Policy!Time
<1> QED
  BY <1>1 DEF PolicyInv, Policy!PolicyRight, Policy!Init

-----------------------------------------------------------------------------
(* Actions invoked.                                                           *)

\* The command of a call was run or its token is under way.
Commanded(c) == c \in started \/ <<"command", c>> \in waiting

ActionTypes ==
  /\ IsFiniteSet(invoked) /\ invoked \subseteq Nat \X Notification
  /\ \A c \in invoked : c[1] <= Cardinality(invoked)
  /\ announced \subseteq invoked /\ started \subseteq invoked
  /\ waiting \subseteq {"signals", "command"} \X invoked
  /\ new \cap stored = {}

\* Announced are the calls whose token has come; what is still to come or in a store
\* has no command, and no notification has two.
ActionInv ==
  /\ ActionTypes
  /\ \A c \in invoked : c \in announced <=> <<"signals", c>> \notin waiting
  /\ \A c \in invoked : Commanded(c) => c[2] \notin new \cup stored
  /\ \A c, d \in invoked : Commanded(c) /\ Commanded(d) /\ c[2] = d[2] => c = d

\* The instance counts as its module does.
LEMMA SameCardinality == \A S : Policy!Cardinality(S) = Cardinality(S)
BY DEF Policy!Cardinality, Cardinality

\* The number of a call is one more than there are: it is none of them.
LEMMA CallIsNew ==
  ASSUME ActionTypes, NEW n \in Notification, NEW call, call = <<Cardinality(invoked) + 1, n>>
  PROVE  /\ call \notin invoked /\ call \in Nat \X Notification
         /\ IsFiniteSet(invoked \cup {call})
         /\ Cardinality(invoked \cup {call}) = Cardinality(invoked) + 1
         /\ \A c \in invoked \cup {call} : c[1] <= Cardinality(invoked \cup {call})
<1>1. Cardinality(invoked) \in Nat
  BY FS_CardinalityType DEF ActionTypes
<1>2. call[1] = Cardinality(invoked) + 1
  OBVIOUS
<1>3. call \notin invoked
  BY <1>1, <1>2 DEF ActionTypes
<1>4. /\ IsFiniteSet(invoked \cup {call})
      /\ Cardinality(invoked \cup {call}) = Cardinality(invoked) + 1
  BY <1>3, FS_AddElement DEF ActionTypes
<1>5. \A c \in invoked : c[1] \in Nat /\ c[1] <= Cardinality(invoked)
  BY DEF ActionTypes
<1>6. ASSUME NEW c \in invoked \cup {call} PROVE c[1] <= Cardinality(invoked) + 1
  <2>1. CASE c \in invoked
    BY <1>1, <1>5, <2>1
  <2>2. CASE c = call
    BY <1>1, <1>2, <2>2
  <2> QED
    BY <2>1, <2>2
<1>7. call \in Nat \X Notification
  BY <1>1
<1>8. \A c \in invoked \cup {call} : c[1] <= Cardinality(invoked \cup {call})
  BY <1>4, <1>6
<1> QED
  BY <1>3, <1>4, <1>7, <1>8

\* Every step keeps the calls and their commands right.
LEMMA ActionStep == ActionInv /\ [Policy!ActionsNext]_policyVars => ActionInv'
<1> SUFFICES ASSUME ActionInv, [Policy!ActionsNext]_policyVars PROVE ActionInv'
  OBVIOUS
<1>1. /\ ActionTypes
      /\ \A c \in invoked : c \in announced <=> <<"signals", c>> \notin waiting
      /\ \A c \in invoked : Commanded(c) => c[2] \notin new \cup stored
      /\ \A c, d \in invoked : Commanded(c) /\ Commanded(d) /\ c[2] = d[2] => c = d
  BY DEF ActionInv
<1>2. ASSUME NEW n \in Notification, Policy!Arrives(n) PROVE ActionInv'
  <2>1. /\ n \in new /\ new' = new \ {n} /\ stored' = stored \cup {n}
        /\ UNCHANGED <<invoked, waiting, started, announced>>
    BY <1>2 DEF Policy!Arrives
  <2> QED
    BY <1>1, <2>1 DEF ActionInv, ActionTypes, Commanded
<1>3. ASSUME NEW n \in Notification, Policy!Closed(n) PROVE ActionInv'
  <2>1. /\ stored' = stored \ {n} /\ UNCHANGED <<new, invoked, waiting, started, announced>>
    BY <1>3 DEF Policy!Closed
  <2> QED
    BY <1>1, <2>1 DEF ActionInv, ActionTypes, Commanded
<1>4. ASSUME NEW n \in Notification, NEW kind \in {"plain", "command"},
             Policy!ActionInvoked(n, kind)
      PROVE  ActionInv'
  <2>1. PICK call : call = <<Cardinality(invoked) + 1, n>>
    OBVIOUS
  <2>2. /\ n \notin new /\ invoked' = invoked \cup {call} /\ stored' = stored \ {n}
        /\ waiting' = waiting \cup {<<"signals", call>>}
             \cup (IF n \in stored /\ kind = "command" THEN {<<"command", call>>} ELSE {})
        /\ UNCHANGED <<new, started, announced>>
    BY <1>4, <2>1, SameCardinality, Zenon DEF Policy!ActionInvoked, Policy!Invoked
  <2>3. /\ call \notin invoked /\ call \in Nat \X Notification
        /\ IsFiniteSet(invoked') /\ \A c \in invoked' : c[1] <= Cardinality(invoked')
    BY <1>1, <2>1, <2>2, CallIsNew
  <2>4. call[2] = n
    BY <2>1
  <2>5. ActionTypes'
    BY <1>1, <2>2, <2>3 DEF ActionTypes
  <2>6. ~Commanded(call) /\ call \notin announced /\ <<"signals", call>> \notin waiting
    BY <1>1, <2>3 DEF ActionTypes, Commanded
  <2>7. \A c \in invoked : /\ Commanded(c)' <=> Commanded(c)
                           /\ <<"signals", c>> \in waiting' <=> <<"signals", c>> \in waiting
    BY <2>2, <2>3 DEF Commanded
  <2>8. Commanded(call)' => n \in stored
    BY <2>2, <2>6 DEF Commanded
  <2>9. ASSUME NEW c \in invoked' PROVE c \in announced' <=> <<"signals", c>> \notin waiting'
    BY <1>1, <2>2, <2>6, <2>7, <2>9
  <2>10. ASSUME NEW c \in invoked', Commanded(c)' PROVE c[2] \notin new' \cup stored'
    BY <1>1, <2>2, <2>4, <2>7, <2>10
  <2>11. ASSUME NEW c \in invoked, Commanded(c)', Commanded(call)' PROVE c[2] # n
    BY <1>1, <2>7, <2>8, <2>11
  <2>12. ASSUME NEW c \in invoked', NEW d \in invoked', Commanded(c)', Commanded(d)',
                c[2] = d[2]
         PROVE  c = d
    BY <1>1, <2>2, <2>4, <2>7, <2>11, <2>12
  <2> QED
    BY <2>5, <2>9, <2>10, <2>12 DEF ActionInv
<1>5. ASSUME NEW r \in waiting, Policy!TokenReady(r) PROVE ActionInv'
  <2>1. /\ waiting' = waiting \ {r} /\ UNCHANGED <<stored, new, invoked>>
        /\ IF r[1] = "command" THEN started' = started \cup {r[2]} /\ UNCHANGED announced
                               ELSE announced' = announced \cup {r[2]} /\ UNCHANGED started
    BY <1>5 DEF Policy!TokenReady
  <2>2. PICK c \in invoked : r = <<"signals", c>> \/ r = <<"command", c>>
    BY <1>1 DEF ActionTypes
  <2>3. CASE r = <<"command", c>>
    <3>1. started' = started \cup {c} /\ UNCHANGED announced
      BY <2>1, <2>3
    <3>2. \A d \in invoked : /\ Commanded(d)' <=> Commanded(d)
                             /\ <<"signals", d>> \in waiting' <=> <<"signals", d>> \in waiting
      BY <1>5, <2>1, <2>3, <3>1 DEF Commanded
    <3>3. ActionTypes'
      BY <1>1, <2>1, <3>1 DEF ActionTypes
    <3> QED
      BY <1>1, <2>1, <3>1, <3>2, <3>3 DEF ActionInv
  <2>4. CASE r = <<"signals", c>>
    <3>1. announced' = announced \cup {c} /\ UNCHANGED started
      BY <2>1, <2>4
    <3>2. \A d \in invoked : /\ Commanded(d)' <=> Commanded(d)
                             /\ <<"signals", d>> \in waiting' <=>
                                  <<"signals", d>> \in waiting /\ d # c
      BY <1>5, <2>1, <2>4, <3>1 DEF Commanded
    <3>3. ActionTypes'
      BY <1>1, <2>1, <3>1 DEF ActionTypes
    <3> QED
      BY <1>1, <2>1, <3>1, <3>2, <3>3 DEF ActionInv
  <2> QED
    BY <2>2, <2>3, <2>4
<1>6. CASE UNCHANGED policyVars
  BY <1>1, <1>6 DEF policyVars, ActionInv, ActionTypes, Commanded
<1> QED
  BY <1>2, <1>3, <1>4, <1>5, <1>6 DEF Policy!ActionsNext

\* At first no action was invoked.
LEMMA ActionInit == Policy!Init => ActionInv
<1> SUFFICES ASSUME Policy!Init PROVE ActionInv
  OBVIOUS
<1>1. invoked = {} /\ waiting = {} /\ started = {} /\ announced = {} /\ stored = {}
  BY DEF Policy!Init
<1> QED
  BY <1>1, FS_EmptySet DEF ActionInv, ActionTypes, Commanded

\* No notification has two commands.
LEMMA OneCommandEach == ActionInv => Policy!ActionsRight
<1> SUFFICES ASSUME ActionInv PROVE Policy!ActionsRight
  OBVIOUS
<1> DEFINE Those(n) == {c \in invoked : c[2] = n /\ (c \in started \/ <<"command", c>> \in waiting)}
<1>1. ASSUME NEW n \in Notification PROVE Cardinality(Those(n)) <= 1
  <2>1. CASE Those(n) = {}
    <3>1. Cardinality(Those(n)) = 0
      BY <2>1, FS_EmptySet
    <3> QED
      BY <3>1
  <2>2. ASSUME NEW c \in Those(n) PROVE Cardinality(Those(n)) <= 1
    <3>1. Those(n) = {c}
      BY <2>2 DEF ActionInv, Commanded
    <3>2. Cardinality(Those(n)) = 1
      BY <3>1, FS_Singleton
    <3> QED
      BY <3>2
  <2> QED
    BY <2>1, <2>2
<1> QED
  BY <1>1, SameCardinality, Zenon DEF ActionInv, Policy!ActionsRight

\* In whatever order notifications come, are closed and have their actions invoked and
\* tokens come, and whatever the time, the lock and the settings: what is shown and
\* what is run are what the user set and asked for.
THEOREM DecidedRight == Policy!Spec => []Policy!PolicySound
<1> DEFINE Both == PolicyInv /\ ActionInv
<1>1. Policy!Init => Both
  BY PolicyInit, ActionInit
<1>2. Both /\ [Policy!Next]_Policy!vars => Both'
  <2> SUFFICES ASSUME Both, [Policy!Next]_Policy!vars PROVE Both'
    OBVIOUS
  <2>1. CASE Policy!PolicyNext
    <3>1. UNCHANGED <<stored, new, invoked, waiting, started, announced>>
      BY <2>1 DEF Policy!PolicyNext, Policy!Changes, Policy!Notify, Policy!actions
    <3>2. ActionInv'
      BY <3>1 DEF ActionInv, ActionTypes, Commanded
    <3> QED
      BY <2>1, <3>2, PolicyStep
  <2>2. CASE Policy!ActionsNext
    <3>1. UNCHANGED <<now, locked, setting, last>>
      BY <2>2 DEF Policy!ActionsNext, Policy!Arrives, Policy!Closed, Policy!ActionInvoked,
                  Policy!TokenReady, Policy!policy
    <3>2. PolicyInv'
      BY <3>1 DEF PolicyInv, PolicyTypes, Policy!PolicyRight, Policy!Quiet, Policy!Since
    <3> QED
      BY <2>2, <3>2, ActionStep
  <2>3. CASE UNCHANGED Policy!vars
    <3>1. UNCHANGED policyVars
      BY <2>3 DEF Policy!vars, Policy!policy, Policy!actions, policyVars
    <3> QED
      BY <3>1, PolicyStep, ActionStep
  <2> QED
    BY <2>1, <2>2, <2>3 DEF Policy!Next
<1>3. Both => Policy!PolicySound
  BY OneCommandEach DEF PolicyInv, Policy!PolicySound
<1> QED
  BY <1>1, <1>2, <1>3, PTL DEF Policy!Spec

-----------------------------------------------------------------------------
(* The generated classes.                                                     *)

Queue == Seq(Cached!Call)

\* The last call for k that is queued is for v.
Last(s, k, v) ==
  \E i \in 1..Len(s) : /\ s[i].key = k /\ s[i].value = v
                       /\ \A j \in i + 1..Len(s) : s[j].key # k

\* No call for k is queued.
Absent(s, k) == \A i \in 1..Len(s) : s[i].key # k

\* A call that is queued is the last for its property.
LEMMA LastAppended ==
  ASSUME NEW s \in Queue, NEW c \in Cached!Call
  PROVE  Last(Append(s, c), c.key, c.value)
<1>1. Len(s) \in Nat /\ Len(Append(s, c)) = Len(s) + 1 /\ Append(s, c)[Len(s) + 1] = c
  BY DEF Queue
<1> QED
  BY <1>1 DEF Last

\* It changes nothing for the others.
LEMMA OtherAppended ==
  ASSUME NEW s \in Queue, NEW c \in Cached!Call, NEW k, c.key # k
  PROVE  /\ \A v : Last(s, k, v) => Last(Append(s, c), k, v)
         /\ Absent(s, k) => Absent(Append(s, c), k)
<1>1. /\ Len(s) \in Nat /\ Len(Append(s, c)) = Len(s) + 1 /\ Append(s, c)[Len(s) + 1] = c
      /\ \A i \in 1..Len(s) : Append(s, c)[i] = s[i]
  BY DEF Queue
<1>2. ASSUME NEW v, Last(s, k, v) PROVE Last(Append(s, c), k, v)
  <2>1. PICK i \in 1..Len(s) : /\ s[i].key = k /\ s[i].value = v
                               /\ \A j \in i + 1..Len(s) : s[j].key # k
    BY <1>2 DEF Last
  <2>2. i \in 1..Len(Append(s, c)) /\ Append(s, c)[i] = s[i]
    BY <1>1
  <2>3. ASSUME NEW j \in i + 1..Len(Append(s, c)) PROVE Append(s, c)[j].key # k
    <3>1. CASE j = Len(s) + 1
      BY <1>1, <3>1
    <3>2. CASE j # Len(s) + 1
      <4>1. j \in 1..Len(s) /\ j \in i + 1..Len(s)
        BY <1>1, <3>2
      <4> QED
        BY <1>1, <2>1, <4>1
    <3> QED
      BY <3>1, <3>2
  <2> QED
    BY <2>1, <2>2, <2>3 DEF Last
<1>3. ASSUME Absent(s, k), NEW j \in 1..Len(Append(s, c)) PROVE Append(s, c)[j].key # k
  <2>1. CASE j = Len(s) + 1
    BY <1>1, <2>1
  <2>2. CASE j # Len(s) + 1
    <3>1. j \in 1..Len(s)
      BY <1>1, <2>2
    <3> QED
      BY <1>1, <1>3, <3>1 DEF Absent
  <2> QED
    BY <2>1, <2>2
<1> QED
  BY <1>2, <1>3 DEF Absent

\* What is queued behind the first call is queued without it.
LEMMA Tailed ==
  ASSUME NEW s \in Queue, s # <<>>, NEW k
  PROVE  /\ Absent(s, k) => Absent(Tail(s), k)
         /\ \A v : Last(s, k, v) => \/ Last(Tail(s), k, v)
                                    \/ /\ Head(s).key = k /\ Head(s).value = v
                                       /\ Absent(Tail(s), k)
         /\ Absent(s, k) => Head(s).key # k
<1>1. /\ Len(s) \in Nat /\ Len(s) > 0 /\ Len(Tail(s)) = Len(s) - 1 /\ Head(s) = s[1]
      /\ \A i \in 1..Len(Tail(s)) : Tail(s)[i] = s[i + 1]
  BY DEF Queue
<1>2. ASSUME Absent(s, k), NEW j \in 1..Len(Tail(s)) PROVE Tail(s)[j].key # k
  <2>1. j + 1 \in 1..Len(s)
    BY <1>1
  <2> QED
    BY <1>1, <1>2, <2>1 DEF Absent
<1>3. ASSUME NEW v, Last(s, k, v)
      PROVE  \/ Last(Tail(s), k, v)
             \/ Head(s).key = k /\ Head(s).value = v /\ Absent(Tail(s), k)
  <2>1. PICK i \in 1..Len(s) : /\ s[i].key = k /\ s[i].value = v
                               /\ \A j \in i + 1..Len(s) : s[j].key # k
    BY <1>3 DEF Last
  <2>2. ASSUME NEW j \in i..Len(Tail(s)), j \in 1..Len(Tail(s)) PROVE Tail(s)[j].key # k
    <3>1. j + 1 \in i + 1..Len(s)
      BY <1>1
    <3> QED
      BY <1>1, <2>1, <2>2, <3>1
  <2>3. CASE i = 1
    <3>1. Absent(Tail(s), k)
      BY <2>2, <2>3 DEF Absent
    <3> QED
      BY <1>1, <2>1, <2>3, <3>1
  <2>4. CASE i # 1
    <3>1. i - 1 \in 1..Len(Tail(s)) /\ Tail(s)[i - 1] = s[i]
      BY <1>1, <2>4
    <3>2. ASSUME NEW j \in (i - 1) + 1..Len(Tail(s)) PROVE Tail(s)[j].key # k
      <4>1. j \in i..Len(Tail(s)) /\ j \in 1..Len(Tail(s))
        BY <1>1, <2>4
      <4> QED
        BY <2>2, <4>1
    <3>3. Last(Tail(s), k, v)
      BY <2>1, <3>1, <3>2 DEF Last
    <3> QED
      BY <3>3
  <2> QED
    BY <2>3, <2>4
<1>4. ASSUME Absent(s, k) PROVE Head(s).key # k
  BY <1>1, <1>4 DEF Absent
<1> QED
  BY <1>2, <1>3, <1>4 DEF Absent

\* The settings are open.
Open == pointer \in {"stored", "seen"}

\* A setter of k is between its halves.
Sets(k) == setter # Unset /\ setter.key = k

\* v is under way from the object to the settings, or nothing is.
Pending(k, v) == IF Sets(k) THEN setter.value = v ELSE Last(toConfig, k, v)

Idle(k) == ~Sets(k) /\ Absent(toConfig, k)

\* initialize has come to k.
Known(k) == Open /\ k \notin unread

\* What is stored is under way to the object, or the object has it or has set another
\* since.
ObjectHears(k) ==
  \/ Last(toObject, k, kept[k])
  \/ /\ Absent(toObject, k)
     /\ property[k] = kept[k] \/ Pending(k, property[k])

\* What was set is under way to the settings or stored.
WantedStored(k) == Pending(k, wanted[k]) \/ (Idle(k) /\ kept[k] = wanted[k])

\* k is marked, or is about to be.
Marks(k) == k \in marked \/ setter = Cached!Calls(k, wanted[k])

\* What was set is there for initialize.
WantedMarked(k) ==
  /\ property[k] = wanted[k] /\ Marks(k)
  /\ Idle(k) \/ Pending(k, wanted[k])

KeyInv(k) ==
  /\ Known(k) => ObjectHears(k)
  /\ wanted[k] # Unset =>
       /\ Known(k) => WantedStored(k)
       /\ ~Known(k) /\ pointer # "failed" => WantedMarked(k)

CacheTypes ==
  /\ property \in [Property -> Content] /\ kept \in [Property -> Content]
  /\ wanted \in [Property -> Content \cup {Unset}]
  /\ marked \subseteq Property /\ unread \subseteq Property /\ missed \subseteq Property
  /\ setter \in Cached!Call \cup {Unset}
  /\ pointer \in {"none", "failed", "stored", "seen"}
  /\ toConfig \in Queue /\ toObject \in Queue

CacheInv ==
  /\ CacheTypes
  /\ ~Open => toConfig = <<>> /\ toObject = <<>> /\ unread = {}
  /\ \A k \in unread : Absent(toObject, k)
  /\ \A k \in Property \ missed : KeyInv(k)

\* A step that does not concern k.
LEMMA KeyStays ==
  ASSUME NEW k \in Property, CacheTypes, KeyInv(k),
         property'[k] = property[k], kept'[k] = kept[k], wanted'[k] = wanted[k],
         Known(k)' <=> Known(k), pointer' # "failed" => pointer # "failed",
         Last(toObject, k, kept[k]) => Last(toObject', k, kept[k]),
         Absent(toObject, k) => Absent(toObject', k),
         \A v \in Content : Pending(k, v) => Pending(k, v)',
         Idle(k) => Idle(k)', wanted[k] # Unset /\ Marks(k) => Marks(k)'
  PROVE  KeyInv(k)'
<1>1. property[k] \in Content /\ wanted[k] \in Content \cup {Unset}
  BY DEF CacheTypes
<1>2. Pending(k, property[k]) => Pending(k, property[k])'
  <2>1. PICK v : v = property[k] /\ v = property'[k]
    OBVIOUS
  <2>2. Pending(k, v) => Pending(k, v)'
    BY <1>1, <2>1
  <2> QED
    BY <2>1, <2>2 DEF Pending, Sets
<1>3. wanted[k] # Unset => (Pending(k, wanted[k]) => Pending(k, wanted[k])')
  <2>1. PICK v : v = wanted[k] /\ v = wanted'[k]
    OBVIOUS
  <2>2. v # Unset => (Pending(k, v) => Pending(k, v)')
    BY <1>1, <2>1
  <2> QED
    BY <2>1, <2>2 DEF Pending, Sets
<1>4. ObjectHears(k) => ObjectHears(k)'
  BY <1>2 DEF ObjectHears
<1>5. wanted[k] # Unset => (WantedStored(k) => WantedStored(k)')
  BY <1>3 DEF WantedStored
<1>6. wanted[k] # Unset => (WantedMarked(k) => WantedMarked(k)')
  BY <1>3 DEF WantedMarked
<1> QED
  BY <1>4, <1>5, <1>6 DEF KeyInv

\* A call has a property and a value, and is not none.
LEMMA CallIsCall ==
  /\ \A k \in Property, v \in Content : Cached!Calls(k, v) \in Cached!Call
  /\ \A c \in Cached!Call : /\ c.key \in Property /\ c.value \in Content
                            /\ c # Unset /\ c = Cached!Calls(c.key, c.value)
  /\ \A k, v : Cached!Calls(k, v).key = k /\ Cached!Calls(k, v).value = v
BY PartsAssumption DEF Cached!Calls, Cached!Call

\* The first half of a setter.
LEMMA SetXKeeps ==
  ASSUME CacheInv, NEW q \in Property, NEW v \in Content, Cached!SetX(q, v)
  PROVE  CacheInv'
<1>1. /\ setter = Unset /\ setter' = Cached!Calls(q, v)
      /\ property' = [property EXCEPT ![q] = v] /\ wanted' = [wanted EXCEPT ![q] = v]
      /\ UNCHANGED <<marked, pointer, unread, kept, toConfig, toObject, missed>>
  BY DEF Cached!SetX
<1>2. setter' # Unset /\ setter'.key = q /\ setter'.value = v /\ setter' \in Cached!Call
  BY <1>1, CallIsCall
<1>3. CacheTypes'
  BY <1>1, <1>2 DEF CacheInv, CacheTypes
<1>4. ASSUME NEW k \in Property \ missed' PROVE KeyInv(k)'
  <2>1. KeyInv(k)
    BY <1>1 DEF CacheInv
  <2>2. CASE k = q
    <3>1. property'[k] = v /\ wanted'[k] = v
      BY <1>1, <2>2 DEF CacheInv, CacheTypes
    <3>2. Pending(k, property[k])' /\ Pending(k, wanted[k])' /\ Marks(k)'
      BY <1>1, <1>2, <2>2, <3>1 DEF Pending, Sets, Marks
    <3>3. Known(k)' => ObjectHears(k)'
      BY <1>1, <2>1, <3>2 DEF KeyInv, Known, Open, ObjectHears
    <3> QED
      BY <3>1, <3>2, <3>3 DEF KeyInv, WantedStored, WantedMarked
  <2>3. CASE k # q
    <3>1. property'[k] = property[k] /\ wanted'[k] = wanted[k]
      BY <1>1, <2>3 DEF CacheInv, CacheTypes
    <3>2. \A u \in Content : Pending(k, u) => Pending(k, u)'
      BY <1>1, <1>2, <2>3 DEF Pending, Sets
    <3>3. Idle(k) => Idle(k)'
      BY <1>1, <1>2, <2>3 DEF Idle, Sets
    <3>4. wanted[k] # Unset /\ Marks(k) => Marks(k)'
      <4>1. wanted[k] # Unset => wanted[k] \in Content
        BY <2>1 DEF CacheInv, CacheTypes
      <4>2. wanted[k] # Unset => Cached!Calls(k, wanted[k]) # Unset
        BY <4>1, CallIsCall
      <4> QED
        BY <1>1, <4>2 DEF Marks
    <3> QED
      BY <1>1, <2>1, <3>1, <3>2, <3>3, <3>4, KeyStays DEF CacheInv, Known, Open
  <2> QED
    BY <2>2, <2>3
<1> QED
  BY <1>1, <1>3, <1>4 DEF CacheInv, Open

\* The second half.
LEMMA SetXEndsKeeps ==
  ASSUME CacheInv, Cached!SetXEnds
  PROVE  CacheInv'
<1> DEFINE q == setter.key
<1> DEFINE v == setter.value
<1>1. /\ setter # Unset /\ setter' = Unset
      /\ UNCHANGED <<property, unread, kept, toObject, wanted>>
  BY DEF Cached!SetXEnds
<1>2. PICK seen \in IF pointer = "stored" THEN BOOLEAN ELSE {pointer = "seen"} :
        /\ marked' = marked \cup {q}
        /\ toConfig' = IF seen THEN Append(toConfig, setter) ELSE toConfig
        /\ pointer' = IF seen THEN "seen" ELSE pointer
        /\ missed' = IF pointer = "stored" /\ ~seen THEN missed \cup {q} ELSE missed
  BY DEF Cached!SetXEnds, Cached!MarkAndTell
<1>3. setter \in Cached!Call /\ q \in Property /\ v \in Content /\ toConfig \in Queue
  BY <1>1, CallIsCall DEF CacheInv, CacheTypes
<1>4. CacheTypes'
  BY <1>1, <1>2, <1>3 DEF CacheInv, CacheTypes, Queue
<1>5. seen => pointer \in {"stored", "seen"}
  BY <1>2
<1>6. ~seen => pointer # "seen"
  BY <1>2
<1>7. Open' <=> Open
  BY <1>2, <1>5 DEF Open
<1>8. ~Open' => toConfig' = <<>> /\ toObject' = <<>> /\ unread' = {}
  BY <1>1, <1>2, <1>5, <1>7 DEF CacheInv, Open
<1>9. ASSUME NEW k \in Property \ missed' PROVE KeyInv(k)'
  <2>1. KeyInv(k) /\ k \in Property
    BY <1>2 DEF CacheInv
  <2>2. Known(k)' <=> Known(k)
    BY <1>1, <1>7 DEF Known
  <2>3. pointer' # "failed" => pointer # "failed"
    BY <1>2, <1>5
  <2>4. property'[k] = property[k] /\ kept'[k] = kept[k] /\ wanted'[k] = wanted[k]
    BY <1>1
  <2>5. Marks(k) => Marks(k)'
    <3>1. setter = Cached!Calls(k, wanted[k]) => k = q
      BY CallIsCall
    <3> QED
      BY <1>2, <3>1 DEF Marks
  <2>6. CASE k # q
    <3>1. ~Sets(k) /\ ~Sets(k)'
      BY <1>1, <2>6 DEF Sets
    <3>2. /\ \A u : Last(toConfig, k, u) => Last(toConfig', k, u)
          /\ Absent(toConfig, k) => Absent(toConfig', k)
      BY <1>2, <1>3, <2>6, OtherAppended
    <3>3. /\ \A u \in Content : Pending(k, u) => Pending(k, u)'
          /\ Idle(k) => Idle(k)'
      BY <3>1, <3>2 DEF Pending, Idle
    <3> QED
      BY <1>1, <2>1, <2>2, <2>3, <2>4, <2>5, <3>3, KeyStays DEF CacheInv
  <2>7. CASE k = q /\ seen
    <3>1. toConfig' = Append(toConfig, setter) /\ Last(Append(toConfig, setter), k, v)
      BY <1>2, <1>3, <2>7, LastAppended
    <3>2. Last(toConfig', k, v)
      BY <3>1
    <3>3. Sets(k) /\ ~Sets(k)'
      BY <1>1, <2>7 DEF Sets
    <3>4. /\ \A u \in Content : Pending(k, u) => Pending(k, u)'
          /\ Idle(k) => Idle(k)'
      BY <3>2, <3>3 DEF Pending, Idle
    <3> QED
      BY <1>1, <2>1, <2>2, <2>3, <2>4, <2>5, <3>4, KeyStays DEF CacheInv
  <2>8. CASE k = q /\ ~seen
    <3>1. pointer # "stored" /\ pointer' = pointer /\ toConfig' = toConfig
      BY <1>2, <2>8
    <3>2. ~Open /\ ~Open' /\ toConfig' = <<>>
      BY <1>6, <1>7, <1>8, <2>8, <3>1 DEF Open
    <3>3. Idle(k)'
      BY <1>1, <3>2 DEF Idle, Sets, Absent
    <3>4. Marks(k)'
      BY <1>2, <2>8 DEF Marks
    <3>5. wanted[k] # Unset /\ pointer # "failed" => property[k] = wanted[k]
      BY <2>1, <3>2 DEF KeyInv, WantedMarked, Known
    <3> QED
      BY <2>4, <3>1, <3>2, <3>3, <3>4, <3>5 DEF KeyInv, Known, WantedMarked
  <2> QED
    BY <2>6, <2>7, <2>8
<1> QED
  BY <1>1, <1>4, <1>8, <1>9 DEF CacheInv

\* The object hears of a change.
LEMMA UpdatedKeeps ==
  ASSUME CacheInv, Cached!Updated
  PROVE  CacheInv'
<1> DEFINE c == Head(toObject)
<1>1. /\ setter = Unset /\ toObject # <<>> /\ toObject' = Tail(toObject)
      /\ property' = [property EXCEPT ![c.key] = c.value] /\ pointer' = "seen"
      /\ UNCHANGED <<marked, unread, setter, kept, toConfig, wanted, missed>>
  BY DEF Cached!Updated
<1>2. toObject \in Queue /\ c \in Cached!Call /\ Tail(toObject) \in Queue
  BY <1>1 DEF CacheInv, CacheTypes, Queue
<1>3. c.key \in Property /\ c.value \in Content
  BY <1>2, CallIsCall
<1>4. CacheTypes'
  BY <1>1, <1>2, <1>3 DEF CacheInv, CacheTypes
<1>5. Open /\ Open'
  BY <1>1 DEF CacheInv, Open
<1>6. ASSUME NEW k \in unread' PROVE Absent(toObject', k)
  BY <1>1, <1>2, <1>6, Tailed DEF CacheInv
<1>7. /\ \A k : Known(k)' <=> Known(k)
      /\ \A k, u : Pending(k, u)' <=> Pending(k, u)
      /\ \A k : Idle(k)' <=> Idle(k)
  BY <1>1, <1>5 DEF Known, Pending, Idle, Sets
<1>8. ASSUME NEW k \in Property \ missed' PROVE KeyInv(k)'
  <2>1. KeyInv(k) /\ k \in Property
    BY <1>1 DEF CacheInv
  <2>2. /\ Absent(toObject, k) => Absent(toObject', k) /\ c.key # k
        /\ \A u : Last(toObject, k, u) =>
             Last(toObject', k, u) \/ (c.key = k /\ c.value = u /\ Absent(toObject', k))
    BY <1>1, <1>2, Tailed
  <2>3. CASE k # c.key
    <3>1. property'[k] = property[k]
      BY <1>1, <2>3 DEF CacheInv, CacheTypes
    <3>2. Marks(k) => Marks(k)'
      BY <1>1 DEF Marks
    <3>3. pointer # "failed"
      BY <1>5 DEF Open
    <3> QED
      BY <1>1, <1>7, <2>1, <2>2, <2>3, <3>1, <3>2, <3>3, KeyStays DEF CacheInv
  <2>4. CASE k = c.key
    <3>1. k \notin unread /\ ~Absent(toObject, k)
      BY <2>2, <2>4 DEF CacheInv
    <3>2. Known(k) /\ Known(k)'
      BY <1>5, <1>7, <3>1 DEF Known
    <3>3. Last(toObject, k, kept[k])
      BY <2>1, <3>1, <3>2 DEF KeyInv, ObjectHears
    <3>4. property'[k] = c.value /\ kept'[k] = kept[k] /\ wanted'[k] = wanted[k]
      BY <1>1, <2>4 DEF CacheInv, CacheTypes
    <3>5. ObjectHears(k)'
      BY <2>2, <3>3, <3>4 DEF ObjectHears
    <3>6. wanted[k] # Unset => WantedStored(k)
      BY <2>1, <3>2 DEF KeyInv
    <3>7. WantedStored(k) => WantedStored(k)'
      BY <1>1 DEF WantedStored, Pending, Idle, Sets
    <3> QED
      BY <3>2, <3>4, <3>5, <3>6, <3>7 DEF KeyInv
  <2> QED
    BY <2>3, <2>4
<1> QED
  BY <1>4, <1>5, <1>6, <1>8 DEF CacheInv

\* The settings are opened, or not.
LEMMA CreatedKeeps ==
  ASSUME CacheInv, NEW ok \in BOOLEAN, Cached!Created(ok)
  PROVE  CacheInv'
<1>1. /\ pointer = "none" /\ pointer' = (IF ok THEN "stored" ELSE "failed")
      /\ unread' = (IF ok THEN Property ELSE {})
      /\ UNCHANGED <<property, marked, setter, kept, toConfig, toObject, wanted, missed>>
  BY DEF Cached!Created
<1>2. ~Open /\ toConfig = <<>> /\ toObject = <<>>
  BY <1>1 DEF CacheInv, Open
<1>3. CacheTypes'
  BY <1>1 DEF CacheInv, CacheTypes
<1>4. \A k \in unread' : Absent(toObject', k)
  BY <1>1, <1>2 DEF Absent
<1>5. ~Open' => toConfig' = <<>> /\ toObject' = <<>> /\ unread' = {}
  BY <1>1, <1>2 DEF Open
<1>6. ASSUME NEW k \in Property \ missed' PROVE KeyInv(k)'
  <2>1. KeyInv(k)
    BY <1>1 DEF CacheInv
  <2>2. ~Known(k) /\ ~Known(k)'
    BY <1>1, <1>2 DEF Known, Open
  <2>3. pointer # "failed"
    BY <1>1
  <2>4. /\ \A u \in Content : Pending(k, u) => Pending(k, u)'
        /\ Idle(k) => Idle(k)'
        /\ Marks(k) => Marks(k)'
    BY <1>1 DEF Pending, Idle, Sets, Marks
  <2> QED
    BY <1>1, <2>1, <2>2, <2>3, <2>4, KeyStays DEF CacheInv
<1> QED
  BY <1>3, <1>4, <1>5, <1>6 DEF CacheInv

\* initialize, for one property.
LEMMA InitializeKeeps ==
  ASSUME CacheInv, NEW q \in Property, Cached!Initialize(q)
  PROVE  CacheInv'
<1>1. /\ q \in unread /\ unread' = unread \ {q}
      /\ UNCHANGED <<property, marked, pointer, setter, toConfig, wanted, missed>>
  BY DEF Cached!Initialize
<1>3. Open /\ Open' /\ Absent(toObject, q)
  BY <1>1 DEF CacheInv, Open
<1>4. q \in marked => kept' = [kept EXCEPT ![q] = property[q]] /\ toObject' = toObject
  BY DEF Cached!Initialize
<1>5. q \notin marked => /\ kept' = kept
                         /\ toObject' = Append(toObject, Cached!Calls(q, kept[q]))
  BY DEF Cached!Initialize, Cached!UpdateValue
<1>6. /\ property[q] \in Content /\ kept[q] \in Content /\ toObject \in Queue
      /\ Cached!Calls(q, kept[q]) \in Cached!Call
  BY CallIsCall DEF CacheInv, CacheTypes
<1>7. CacheTypes'
  <2>1. kept' \in [Property -> Content]
    BY <1>4, <1>5, <1>6 DEF CacheInv, CacheTypes
  <2>2. Append(toObject, Cached!Calls(q, kept[q])) \in Queue
    BY <1>6 DEF Queue
  <2>3. toObject' \in Queue
    BY <1>4, <1>5, <1>6, <2>2
  <2> QED
    BY <1>1, <2>1, <2>3 DEF CacheInv, CacheTypes
<1>8. ASSUME NEW k \in Property, k # q
      PROVE  /\ kept'[k] = kept[k]
             /\ Absent(toObject, k) => Absent(toObject', k)
             /\ \A u : Last(toObject, k, u) => Last(toObject', k, u)
  <2>1. kept'[k] = kept[k]
    BY <1>4, <1>5, <1>8 DEF CacheInv, CacheTypes
  <2>2. Cached!Calls(q, kept[q]).key # k
    BY <1>8, CallIsCall
  <2>3. CASE q \in marked
    BY <1>4, <2>1, <2>3
  <2>4. CASE q \notin marked
    BY <1>5, <1>6, <2>1, <2>2, <2>4, OtherAppended
  <2> QED
    BY <2>3, <2>4
<1>9. \A k \in unread' : Absent(toObject', k)
  BY <1>1, <1>8 DEF CacheInv, CacheTypes
<1>10. ASSUME NEW k \in Property \ missed' PROVE KeyInv(k)'
  <2>1. KeyInv(k) /\ k \in Property
    BY <1>1 DEF CacheInv
  <2>2. /\ \A u : Pending(k, u)' <=> Pending(k, u)
        /\ Idle(k)' <=> Idle(k)
        /\ Marks(k)' <=> Marks(k)
    BY <1>1 DEF Pending, Idle, Sets, Marks
  <2>3. pointer # "failed"
    BY <1>3 DEF Open
  <2>4. CASE k # q
    <3>1. Known(k)' <=> Known(k)
      BY <1>1, <1>3, <2>4 DEF Known
    <3> QED
      BY <1>1, <1>8, <2>1, <2>2, <2>3, <2>4, <3>1, KeyStays DEF CacheInv
  <2>5. CASE k = q
    <3>1. ~Known(k) /\ Known(k)'
      BY <1>1, <1>3, <2>5 DEF Known
    <3>2. wanted[k] # Unset => WantedMarked(k)
      BY <2>1, <2>3, <3>1 DEF KeyInv
    <3>3. CASE q \in marked
      <4>1. kept'[k] = property[k] /\ property'[k] = property[k] /\ wanted'[k] = wanted[k]
        BY <1>1, <1>4, <2>5, <3>3 DEF CacheInv, CacheTypes
      <4>2. ObjectHears(k)'
        BY <1>3, <1>4, <2>5, <3>3, <4>1 DEF ObjectHears
      <4>3. wanted[k] # Unset => WantedStored(k)'
        BY <1>1, <3>2, <4>1 DEF WantedStored, WantedMarked, Pending, Idle, Sets
      <4> QED
        BY <3>1, <4>1, <4>2, <4>3 DEF KeyInv
    <3>4. CASE q \notin marked
      <4>1. kept' = kept /\ Last(Append(toObject, Cached!Calls(q, kept[q])), k, kept[k])
        BY <1>5, <1>6, <2>5, <3>4, LastAppended, CallIsCall
      <4>2. ObjectHears(k)'
        BY <1>5, <3>4, <4>1 DEF ObjectHears
      <4>3. wanted[k] # Unset => setter = Cached!Calls(k, wanted[k])
        BY <2>5, <3>2, <3>4 DEF WantedMarked, Marks
      <4>4. wanted[k] # Unset => Sets(k) /\ setter.value = wanted[k]
        <5>1. wanted[k] # Unset => wanted[k] \in Content
          BY <2>1 DEF CacheInv, CacheTypes
        <5> QED
          BY <4>3, <5>1, CallIsCall DEF Sets
      <4>5. wanted[k] # Unset => WantedStored(k)'
        BY <1>1, <4>4 DEF WantedStored, Pending, Sets
      <4> QED
        BY <1>1, <3>1, <4>2, <4>5 DEF KeyInv
    <3> QED
      BY <3>3, <3>4
  <2> QED
    BY <2>4, <2>5
<1> QED
  BY <1>3, <1>7, <1>9, <1>10 DEF CacheInv

\* The settings take what was set.
LEMMA SetValueKeeps ==
  ASSUME CacheInv, Cached!SetValue
  PROVE  CacheInv'
<1> DEFINE c == Head(toConfig)
<1>1. /\ Open /\ unread = {} /\ toConfig # <<>> /\ toConfig' = Tail(toConfig)
      /\ UNCHANGED <<property, marked, pointer, unread, setter, wanted, missed>>
  BY DEF Cached!SetValue, Cached!Running, Open
<1>2. toConfig \in Queue /\ toObject \in Queue /\ c \in Cached!Call /\ Tail(toConfig) \in Queue
  BY <1>1 DEF CacheInv, CacheTypes, Queue
<1>3. c.key \in Property /\ c.value \in Content /\ c = Cached!Calls(c.key, c.value)
  BY <1>2, CallIsCall
<1>4. kept[c.key] = c.value => UNCHANGED <<kept, toObject>>
  BY DEF Cached!SetValue
<1>5. kept[c.key] # c.value => /\ kept' = [kept EXCEPT ![c.key] = c.value]
                               /\ toObject' = Append(toObject, c)
  <2>1. kept[c.key] # c.value =>
          /\ kept' = [kept EXCEPT ![c.key] = c.value]
          /\ toObject' = Append(toObject, Cached!Calls(c.key, kept'[c.key]))
    BY DEF Cached!SetValue, Cached!UpdateValue
  <2>2. kept[c.key] # c.value => kept'[c.key] = c.value
    BY <1>3, <2>1 DEF CacheInv, CacheTypes
  <2> QED
    BY <1>3, <2>1, <2>2
<1>6. CacheTypes'
  <2>1. kept' \in [Property -> Content]
    BY <1>3, <1>4, <1>5 DEF CacheInv, CacheTypes
  <2>2. Append(toObject, c) \in Queue
    BY <1>2 DEF Queue
  <2>3. toObject' \in Queue /\ toConfig' \in Queue
    BY <1>1, <1>2, <1>4, <1>5, <2>2
  <2> QED
    BY <1>1, <2>1, <2>3 DEF CacheInv, CacheTypes
<1>7. kept'[c.key] = c.value /\ \A k \in Property : k # c.key => kept'[k] = kept[k]
  BY <1>3, <1>4, <1>5 DEF CacheInv, CacheTypes
<1>8. ASSUME NEW k \in Property \ missed' PROVE KeyInv(k)'
  <2>1. KeyInv(k) /\ k \in Property
    BY <1>1 DEF CacheInv
  <2>2. /\ Absent(toConfig, k) => Absent(toConfig', k) /\ c.key # k
        /\ \A u : Last(toConfig, k, u) =>
             Last(toConfig', k, u) \/ (c.key = k /\ c.value = u /\ Absent(toConfig', k))
    BY <1>1, <1>2, Tailed
  <2>3. Known(k) /\ Known(k)'
    BY <1>1 DEF Known, Open
  <2>4. Sets(k)' <=> Sets(k)
    BY <1>1 DEF Sets
  <2>5. Idle(k) => Idle(k)' /\ c.key # k
    BY <2>2, <2>4 DEF Idle
  <2>6. \A u : Pending(k, u) => \/ Pending(k, u)'
                                \/ c.key = k /\ c.value = u /\ Idle(k)'
    BY <1>1, <2>2, <2>4 DEF Pending, Idle, Sets
  <2>7. CASE k # c.key
    <3>1. /\ \A u : Last(toObject, k, u) => Last(toObject', k, u)
          /\ Absent(toObject, k) => Absent(toObject', k)
      <4>1. /\ \A u : Last(toObject, k, u) => Last(Append(toObject, c), k, u)
            /\ Absent(toObject, k) => Absent(Append(toObject, c), k)
        BY <1>2, <2>7, OtherAppended
      <4> QED
        BY <1>4, <1>5, <4>1
    <3>2. Marks(k) => Marks(k)'
      BY <1>1 DEF Marks
    <3>3. \A u \in Content : Pending(k, u) => Pending(k, u)'
      BY <2>6, <2>7
    <3> QED
      BY <1>1, <1>7, <2>1, <2>3, <2>5, <2>7, <3>1, <3>2, <3>3, KeyStays DEF CacheInv
  <2>8. CASE k = c.key
    <3>1. ObjectHears(k)'
      <4>1. CASE kept[k] # c.value
        <5>1. Last(Append(toObject, c), k, c.value)
          BY <1>2, <2>8, LastAppended
        <5> QED
          BY <1>5, <1>7, <2>8, <4>1, <5>1 DEF ObjectHears
      <4>2. CASE kept[k] = c.value
        <5>1. kept' = kept /\ toObject' = toObject /\ property' = property
          BY <1>1, <1>4, <2>8, <4>2
        <5>2. ObjectHears(k)
          BY <2>1, <2>3 DEF KeyInv
        <5>3. Pending(k, property[k]) => Pending(k, property[k])' \/ property[k] = kept[k]
          BY <2>6, <4>2, <5>1 DEF Pending, Sets
        <5> QED
          BY <5>1, <5>2, <5>3 DEF ObjectHears
      <4> QED
        BY <4>1, <4>2
    <3>2. wanted[k] # Unset => Pending(k, wanted[k])
      BY <2>1, <2>3, <2>5, <2>8 DEF KeyInv, WantedStored
    <3>3. wanted[k] # Unset => Pending(k, wanted[k])' \/ (c.value = wanted[k] /\ Idle(k)')
      BY <1>1, <2>6, <3>2 DEF Pending, Sets
    <3>4. wanted[k] # Unset => WantedStored(k)'
      BY <1>1, <1>7, <2>8, <3>3 DEF WantedStored
    <3> QED
      BY <1>1, <2>3, <3>1, <3>4 DEF KeyInv
  <2> QED
    BY <2>7, <2>8
<1> QED
  BY <1>1, <1>6, <1>8 DEF CacheInv, Open

\* Somebody else changes a setting.
LEMMA ChangedKeeps ==
  ASSUME CacheInv, NEW q \in Property, NEW v \in Content, Cached!Changed(q, v)
  PROVE  CacheInv'
<1> DEFINE c == Cached!Calls(q, v)
<1>1. /\ unread \in {{}, Property} /\ kept' = [kept EXCEPT ![q] = v]
      /\ wanted' = [wanted EXCEPT ![q] = Unset]
      /\ UNCHANGED <<property, marked, pointer, unread, setter, toConfig, missed>>
  BY DEF Cached!Changed
<1>2. /\ kept'[q] = v /\ wanted'[q] = Unset
      /\ \A k \in Property : k # q => kept'[k] = kept[k] /\ wanted'[k] = wanted[k]
  BY <1>1 DEF CacheInv, CacheTypes
<1>3. c \in Cached!Call /\ c.key = q /\ c.value = v /\ toObject \in Queue
  BY CallIsCall DEF CacheInv, CacheTypes
<1>4. Open /\ unread = {} => toObject' = Append(toObject, c)
  BY <1>2 DEF Cached!Changed, Cached!Running, Cached!UpdateValue, Open
<1>5. ~(Open /\ unread = {}) => toObject' = toObject
  BY DEF Cached!Changed, Cached!Running, Open
<1>6. CacheTypes'
  <2>1. kept' \in [Property -> Content] /\ wanted' \in [Property -> Content \cup {Unset}]
    BY <1>1 DEF CacheInv, CacheTypes
  <2>2. Append(toObject, c) \in Queue
    BY <1>3 DEF Queue
  <2>3. toObject' \in Queue
    BY <1>3, <1>4, <1>5, <2>2
  <2> QED
    BY <1>1, <2>1, <2>3 DEF CacheInv, CacheTypes
<1>7. ~Open' => toConfig' = <<>> /\ toObject' = <<>> /\ unread' = {}
  BY <1>1, <1>5 DEF CacheInv, Open
<1>8. \A k \in unread' : Absent(toObject', k)
  BY <1>1, <1>5 DEF CacheInv
<1>9. ASSUME NEW k \in Property \ missed' PROVE KeyInv(k)'
  <2>1. KeyInv(k) /\ k \in Property
    BY <1>1 DEF CacheInv
  <2>2. Known(k)' <=> Known(k)
    BY <1>1 DEF Known, Open
  <2>3. CASE k = q
    <3>1. Known(k) => unread = {} /\ Open
      BY <1>1, <2>1 DEF Known
    <3>2. Known(k) => Last(toObject', k, v)
      BY <1>3, <1>4, <2>3, <3>1, LastAppended
    <3> QED
      BY <1>2, <2>2, <2>3, <3>2 DEF KeyInv, ObjectHears
  <2>4. CASE k # q
    <3>1. /\ \A u : Last(toObject, k, u) => Last(toObject', k, u)
          /\ Absent(toObject, k) => Absent(toObject', k)
      BY <1>3, <1>4, <1>5, <2>4, OtherAppended
    <3>2. /\ \A u \in Content : Pending(k, u) => Pending(k, u)'
          /\ Idle(k) => Idle(k)'
      BY <1>1 DEF Pending, Idle, Sets
    <3>3. wanted'[k] = wanted[k] /\ kept'[k] = kept[k]
      BY <1>2, <2>1, <2>4
    <3>4. Marks(k) => Marks(k)'
      BY <1>1, <3>3 DEF Marks
    <3> QED
      BY <1>1, <2>1, <2>2, <3>1, <3>2, <3>3, <3>4, KeyStays DEF CacheInv
  <2> QED
    BY <2>3, <2>4
<1> QED
  BY <1>6, <1>7, <1>8, <1>9 DEF CacheInv

\* Every step keeps what is under way between a class and its settings.
LEMMA CacheStep == CacheInv /\ [Cached!Next]_cacheVars => CacheInv'
<1> SUFFICES ASSUME CacheInv, [Cached!Next]_cacheVars PROVE CacheInv'
  OBVIOUS
<1>1. CASE UNCHANGED cacheVars
  BY <1>1 DEF cacheVars, CacheInv, CacheTypes, KeyInv, Known, Open, ObjectHears, WantedStored,
              WantedMarked, Marks, Pending, Idle, Sets
<1>2. CASE Cached!Next
  BY <1>2, SetXKeeps, SetXEndsKeeps, UpdatedKeeps, CreatedKeeps, InitializeKeeps,
     SetValueKeeps, ChangedKeeps DEF Cached!Next
<1> QED
  BY <1>1, <1>2

\* At first nothing is under way.
LEMMA CacheInit == Cached!Init => CacheInv
<1> SUFFICES ASSUME Cached!Init PROVE CacheInv
  OBVIOUS
<1>1. /\ property \in [Property -> Content] /\ kept \in [Property -> Content]
      /\ marked = {} /\ pointer = "none" /\ unread = {} /\ setter = Unset
      /\ toConfig = <<>> /\ toObject = <<>> /\ missed = {}
      /\ wanted = [k \in Property |-> Unset]
  BY DEF Cached!Init
<1>2. CacheTypes
  BY <1>1 DEF CacheTypes, Queue
<1>3. ~Open /\ \A k \in Property : wanted[k] = Unset
  BY <1>1 DEF Open
<1> QED
  BY <1>1, <1>2, <1>3 DEF CacheInv, KeyInv, Known

\* With nothing under way the object and the settings have the same.
LEMMA CacheIsSound == CacheInv => CacheSound
<1> SUFFICES ASSUME CacheInv PROVE Cached!CacheSound
  BY DEF CacheSound
<1>1. Cached!TypeOK
  BY DEF CacheInv, CacheTypes, Cached!TypeOK, Queue
<1>2. ASSUME Cached!Quiet, NEW k \in Property \ missed
      PROVE  property[k] = kept[k] /\ wanted[k] \in {Unset, kept[k]}
  <2>1. /\ Open /\ unread = {} /\ setter = Unset /\ toConfig = <<>> /\ toObject = <<>>
    BY <1>2 DEF Cached!Quiet, Cached!Running, Open
  <2>2. Known(k) /\ KeyInv(k)
    BY <2>1 DEF Known, CacheInv
  <2>3. \A v : ~Last(toObject, k, v) /\ ~Pending(k, v)
    BY <2>1 DEF Last, Pending, Sets
  <2> QED
    BY <2>2, <2>3 DEF KeyInv, ObjectHears, WantedStored
<1> QED
  BY <1>1, <1>2 DEF Cached!CacheSound, Cached!CacheAgrees

\* With a worker's thread that opens the settings when it can, and whatever is set on
\* either side before, during and after: once nothing is under way, a generated class and
\* its settings agree on every property whose setter did not miss the pointer.
THEOREM ClassesAgree == Cached!Spec => []CacheSound
<1>1. [Cached!Next]_Cached!vars => [Cached!Next]_cacheVars
  BY DEF Cached!vars, cacheVars
<1> QED
  BY <1>1, CacheInit, CacheStep, CacheIsSound, PTL DEF Cached!Spec

-----------------------------------------------------------------------------
(* Together.                                                                  *)

PartsInv == DockInv /\ SettingInv /\ PolicyInv /\ ActionInv /\ CacheInv

\* A step of one part leaves the others alone.
LEMMA PartsStep ==
  PartsInv /\ [PartsNext]_<<part, vars, settingVars, policyVars, cacheVars>> => PartsInv'
<1> SUFFICES ASSUME PartsInv, [PartsNext]_<<part, vars, settingVars, policyVars, cacheVars>>
             PROVE  PartsInv'
  OBVIOUS
<1>1. DockInv /\ SettingInv /\ PolicyInv /\ ActionInv /\ CacheInv
  BY DEF PartsInv
<1>2. [Next]_vars => DockInv'
  BY <1>1, DockStep
<1>3. [Setting!Next]_settingVars => SettingInv'
  BY <1>1, SettingStep
<1>4. [Policy!PolicyNext]_policyVars => PolicyInv'
  BY <1>1, PolicyStep
<1>5. [Policy!ActionsNext]_policyVars => ActionInv'
  BY <1>1, ActionStep
<1>6. [Cached!Next]_cacheVars => CacheInv'
  BY <1>1, CacheStep
<1>7. Policy!PolicyNext => ActionInv'
  <2>1. Policy!PolicyNext => UNCHANGED <<stored, new, invoked, waiting, started, announced>>
    BY DEF Policy!PolicyNext, Policy!Changes, Policy!Notify, Policy!actions
  <2> QED
    BY <1>1, <2>1 DEF ActionInv, ActionTypes, Commanded
<1>8. Policy!ActionsNext => PolicyInv'
  <2>1. Policy!ActionsNext => UNCHANGED <<now, locked, setting, last>>
    BY DEF Policy!ActionsNext, Policy!Arrives, Policy!Closed, Policy!ActionInvoked,
           Policy!TokenReady, Policy!policy
  <2> QED
    BY <1>1, <2>1 DEF PolicyInv, PolicyTypes, Policy!PolicyRight, Policy!Quiet, Policy!Since
<1>9. Setting!ValuesNext \/ Setting!ListNext => Setting!Next
  BY DEF Setting!Next
<1>10. CASE UNCHANGED <<part, vars, settingVars, policyVars, cacheVars>>
  BY <1>2, <1>3, <1>4, <1>5, <1>6, <1>10 DEF PartsInv
<1>11. CASE PartsNext
  BY <1>2, <1>3, <1>4, <1>5, <1>6, <1>7, <1>8, <1>9, <1>11 DEF PartsNext, PartsInv
<1> QED
  BY <1>10, <1>11

\* The parts start as they start alone.
LEMMA PartsStart == PartsInit => PartsInv
BY DockStart, SettingInit, PolicyInit, ActionInit, CacheInit DEF PartsInit, PartsInv

\* The settings of the dock, of the notification server and of the generated classes
\* count as they were set last.
THEOREM SettingsCount == PartsSpec => []SettingsSound
<1>1. PartsInv => SettingsSound
  BY SettingsAreFresh, CacheIsSound DEF PartsInv, DockInv, SettingsSound
<1> QED
  BY <1>1, PartsStart, PartsStep, PTL DEF PartsSpec

\* What is shown and what is run are what the user set and asked for.
THEOREM PolicyCounts == PartsSpec => []PolicySound
<1>1. PartsInv => PolicySound
  BY OneCommandEach DEF PartsInv, PolicyInv, PolicySound, Policy!PolicySound
<1> QED
  BY <1>1, PartsStart, PartsStep, PTL DEF PartsSpec
=============================================================================
