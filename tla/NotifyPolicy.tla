----------------------------- MODULE NotifyPolicy -----------------------------
(***************************************************************************)
(* What becomes of a notification that arrives, and of an action that is      *)
(* invoked: NotificationManager's Notify up to its record, isDoNotDisturb,       *)
(* tryPlayNotificationSound, actionInvoked and doActionInvoked.                *)
(*                                                                           *)
(* A day has Day times.  Actions need an activation token, which comes when it    *)
(* comes; whatever a call does until then is one step.                         *)
(***************************************************************************)
EXTENDS Integers, FiniteSets

CONSTANTS
  Day,
  Notification, \* notifications with an action, each of which is new once
  MaxCalls,     \* bound: actions invoked
  Nothing

VARIABLES
  now,     \* the time of the day
  locked,  \* m_screenLocked
  setting, \* the settings of the system
  last,    \* what was decided last, until something changes
  \* actions
  stored,  \* notifications in a store
  new,     \* notifications that have not come
  calls,   \* actions invoked: <<the notification, its action>>
  waiting, \* tokens asked for: <<what for, the call>>
  started, \* calls whose command was run
  told     \* calls whose ActionInvoked and NotificationClosed were emitted

policy  == <<now, locked, setting, last>>
actions == <<stored, new, calls, waiting, started, told>>
vars    == <<policy, actions>>

Switch == {"dndMode", "openByTimeInterval", "lockScreenOpenDndMode", "notificationClosed"}

Time   == {"startTime", "endTime"}

\* Settings of an application; "system" is not asked for any of them.
Application == [system : BOOLEAN, enabled : BOOLEAN, onLock : BOOLEAN,
                onDesktop : BOOLEAN, sound : BOOLEAN]

-----------------------------------------------------------------------------
(* Arrivals.                                                                 *)

\* Defect: the interval is taken to be within one day.
InIntervalOneDay(t, start, end) == IF start = end THEN TRUE ELSE start <= t /\ t <= end

InInterval(t, start, end) ==
  CASE start < end -> start <= t /\ t <= end
    [] start > end -> start <= t \/ t <= end
    [] OTHER       -> TRUE

IsDoNotDisturb ==
  /\ setting.dndMode
  /\ \/ ~setting.openByTimeInterval /\ ~setting.lockScreenOpenDndMode
     \/ setting.lockScreenOpenDndMode /\ locked
     \/ setting.openByTimeInterval /\ InInterval(now, setting.startTime, setting.endTime)

\* tryPlayNotificationSound: silent says that a hint forbids it, or that a bluetooth file
\* is still being sent.
Sounds(a, silent) == ~silent /\ (a.system \/ a.sound) /\ ~IsDoNotDisturb

\* The processedType of a new notification.
Shown(a) ==
  \/ a.system
  \/ (IF locked THEN a.onLock ELSE a.onDesktop) /\ ~IsDoNotDisturb /\ a.enabled

\* Notify.  A replacement is always shown.
Notify(a, replaces, silent) ==
  /\ ~setting.notificationClosed /\ (a.enabled \/ a.system)
  /\ last' = [app |-> a, replaces |-> replaces,
              shown |-> replaces \/ Shown(a), sounds |-> Sounds(a, silent)]
  /\ UNCHANGED <<now, locked, setting, actions>>

\* Time passes, the screen is locked or unlocked, a setting changes.
Changes ==
  /\ last' = Nothing /\ UNCHANGED actions
  /\ \/ now' = (IF now + 1 = Day THEN 0 ELSE now + 1) /\ UNCHANGED <<locked, setting>>
     \/ locked' = ~locked /\ UNCHANGED <<now, setting>>
     \/ /\ UNCHANGED <<now, locked>>
        /\ \/ \E k \in Switch : setting' = [setting EXCEPT ![k] = ~@]
           \/ \E k \in Time, t \in 0..Day - 1 :
                setting' = [setting EXCEPT ![k] = t]

-----------------------------------------------------------------------------
(* Actions.                                                                  *)

\* Defect: the notification stays until its token has come.
InvokedLate(n) == stored

\* updateEntityProcessed: what was invoked is removed from the stores.
Invoked(n) == stored \ {n}

Arrives(n) ==
  /\ n \in new /\ new' = new \ {n} /\ stored' = stored \cup {n}
  /\ UNCHANGED <<policy, calls, waiting, started, told>>

\* actionInvoked: doActionInvoked asks for the token of a command.  isExtendedAction
\* looks for the notification that is removed by then: the signals have a token of
\* their own in either case.
ActionInvoked(n, kind) ==
  LET call == <<Cardinality(calls) + 1, n>>
  IN  /\ Cardinality(calls) < MaxCalls /\ n \notin new
      /\ calls' = calls \cup {call} /\ stored' = Invoked(n)
      /\ waiting' = waiting \cup {<<"signals", call>>}
           \cup (IF n \in stored /\ kind = "command" THEN {<<"command", call>>} ELSE {})
      /\ UNCHANGED <<policy, new, started, told>>

\* tokenReady
TokenReady(r) ==
  /\ r \in waiting /\ waiting' = waiting \ {r}
  /\ IF r[1] = "command" THEN started' = started \cup {r[2]} /\ UNCHANGED told
                         ELSE told' = told \cup {r[2]} /\ UNCHANGED started
  /\ UNCHANGED <<policy, stored, new, calls>>

\* Closed, expired or cleared.
Closed(n) ==
  /\ n \in stored /\ stored' = stored \ {n}
  /\ UNCHANGED <<policy, new, calls, waiting, started, told>>

-----------------------------------------------------------------------------

Init ==
  /\ now = 0 /\ locked \in BOOLEAN /\ last = Nothing
  /\ setting = [k \in Switch \cup Time |-> IF k \in Switch THEN FALSE
                                            ELSE IF k = "startTime" THEN 1 ELSE 0]
  /\ stored = {} /\ new = Notification /\ calls = {} /\ waiting = {}
  /\ started = {} /\ told = {}

PolicyNext ==
  \/ Changes
  \/ \E a \in Application, replaces, silent \in BOOLEAN : Notify(a, replaces, silent)

ActionsNext ==
  \/ \E n \in Notification :
       Arrives(n) \/ Closed(n) \/ \E kind \in {"plain", "command"} : ActionInvoked(n, kind)
  \/ \E r \in waiting : TokenReady(r)

Next == PolicyNext \/ ActionsNext

Spec == Init /\ [][Next]_vars

-----------------------------------------------------------------------------
(* Properties.                                                               *)

\* How long before t it was s.
Since(s, t) == IF s <= t THEN t - s ELSE t - s + Day

\* From the start of the interval to its end, over midnight or not; an interval that
\* ends where it begins is the whole day.
Quiet ==
  LET start == setting.startTime
      end   == setting.endTime
      timed == start = end \/ Since(start, now) <= Since(start, end)
  IN  /\ setting.dndMode
      /\ setting.openByTimeInterval \/ setting.lockScreenOpenDndMode
           => \/ setting.openByTimeInterval /\ timed
              \/ setting.lockScreenOpenDndMode /\ locked

\* While the settings ask not to disturb, whatever the time and the lock, nothing sounds
\* and no new notification of an application is shown; else what its application
\* and the screen allow is.  A replacement is shown in any case.
PolicyRight ==
  last # Nothing =>
    /\ last.sounds => ~Quiet
    /\ ~last.replaces /\ ~last.app.system =>
         (last.shown <=> ~Quiet /\ (locked => last.app.onLock) /\ (~locked => last.app.onDesktop))

\* Each action invoked is announced once or its token is under way; the command of
\* a notification is run once at most, however often its action is invoked and
\* whenever the tokens come.
ActionsRight ==
  /\ \A c \in calls : c \in told <=> <<"signals", c>> \notin waiting
  /\ \A n \in Notification :
       Cardinality({c \in calls : c[2] = n /\ (c \in started \/ <<"command", c>> \in waiting)}) <= 1

\* What is shown and what is run are what the user set and asked for.
PolicySound == PolicyRight /\ ActionsRight
=============================================================================
