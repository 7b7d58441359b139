------------------------ MODULE MCNotificationSystem ------------------------
(***************************************************************************)
(* NotificationSystem for TLC.  A behaviour is about two notifications of any  *)
(* of two kinds, or about three that never expire.                           *)
(***************************************************************************)
EXTENDS NotificationSystem

VARIABLE about

Kind(a, n, h) == [app |-> a, timeout |-> n, hidden |-> h, bluetooth |-> FALSE]

\* With and without a timeout, one of them hidden from the center.
TwoKinds == {Kind("app", 1, FALSE), Kind("app", 0, TRUE)}
\* No timeouts: only closing and replacing.
LastingKinds == {Kind("app", 0, FALSE)}
SystemKinds == TwoKinds \cup LastingKinds

KindsIn(kinds) == \A e \in 1..made' : entity'[e].kind \in kinds

Within ==
  \/ about = "two" /\ made' <= 2 /\ KindsIn(TwoKinds)
  \/ about = "three" /\ hiding' <= 1 /\ KindsIn(LastingKinds)

MCInit == SystemInit /\ about \in {"two", "three"}

MCSpec ==
  /\ MCInit
  /\ [][SystemNext /\ Within /\ UNCHANGED about]_<<all, about>>
=============================================================================
