----------------------- MODULE MCNotificationManager -----------------------
(***************************************************************************)
(* NotificationManager for TLC.  What two calls of two threads do to one        *)
(* notification, which multiplies the rows and the ids, is gone into for          *)
(* notifications with an early timeout or none; other behaviours end where it        *)
(* happens.                                                                    *)
(***************************************************************************)
EXTENDS NotificationManager

Kind(a, n, h, b) == [app |-> a, timeout |-> n, hidden |-> h, bluetooth |-> b]

\* An early, a late and no timeout.
PlainKinds == {Kind("app", 1, FALSE, FALSE), Kind("app", 3, FALSE, FALSE),
               Kind("app", 0, FALSE, FALSE)}
\* Plain and hidden replacements of a timed notification.
TimedKinds == {Kind("app", 1, FALSE, FALSE), Kind("app", 1, TRUE, FALSE)}

EarlyOnly == \A e \in 1..made' : entity'[e].kind.timeout <= 1

MCFairSpec == Init /\ [][Next /\ (overtaken' = {} \/ EarlyOnly)]_vars /\ Fairness

\* Behaviours up to the first such notification.
MCSpec == Init /\ [][Next /\ overtaken = {}]_vars
=============================================================================
