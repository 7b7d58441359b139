------------------------------ MODULE MCApplets ------------------------------
(***************************************************************************)
(* Three parts of the shell for TLC, of which a behaviour is one: AppletTree     *)
(* with four panels, the first with a containment that has an applet of its own;  *)
(* the pages of the launcher, where apps come and go and there is one folder at    *)
(* most, or there may be two and the apps stay; and the list of the notification    *)
(* center, with four notifications that are announced one at a time, or three of    *)
(* which two may be under way.                                                *)
(***************************************************************************)
EXTENDS AppletTree

ThePanels == <<"dock", "notify", "osd", "apps">>
Children == [p \in ToSet(ThePanels) \cup {"tray", "clock"} |->
               CASE p = "dock" -> <<"tray">> [] p = "tray" -> <<"clock">> [] OTHER -> <<>>]

CONSTANTS a, b, c, MaxPerPage, MaxFolders, MaxEvents, MaxRepeats

ThreeApps == <<a, b, c>>

\* Three notifications of one application and one of another.
FourNotifications == [e \in 1..4 |-> IF e = 2 THEN b ELSE a]

VARIABLES part, installed, apps, ready, groups, saved,
          db, kept, events, repeats, items, shown, pins, failed, strayed

padVars == <<installed, apps, ready, groups, saved>>
listVars == <<db, kept, events, repeats, items, shown, pins, failed, strayed>>

Pad == INSTANCE Launchpad WITH Catalog <- ThreeApps
Center == INSTANCE NotifyCenter
            WITH Apps <- {a, b}, AppOf <- FourNotifications, saved <- kept

PartsInit ==
  /\ part \in {"tree", "apps", "folders", "many", "late"}
  /\ Init /\ Pad!Init /\ Center!Init
  /\ part \notin {"apps", "folders"} => installed = {}
  /\ part # "tree" => enabled = Plugin /\ fault = [p \in Plugin |-> "no"]

PartsNext ==
  /\ UNCHANGED part
  /\ \/ part = "tree" /\ Next /\ UNCHANGED <<padVars, listVars>>
     \/ part = "apps" /\ Pad!Next /\ Len(groups') <= 2 /\ UNCHANGED <<vars, listVars>>
     \/ part = "folders" /\ Pad!Next /\ UNCHANGED <<installed, vars, listVars>>
     \/ part = "many" /\ Center!Next /\ Len(events') <= 1 /\ UNCHANGED <<vars, padVars>>
     \/ part = "late" /\ Center!Next /\ kept' \subseteq 1..3 /\ UNCHANGED <<vars, padVars>>

PartsSpec == PartsInit /\ [][PartsNext]_<<part, vars, padVars, listVars>>

-----------------------------------------------------------------------------
(* The properties of the launcher.                                           *)

\* The pages are as full as they may be, and lose nothing.
PagesSound == Pad!PagesSound

\* One item moves at a time.
OneMoves == Pad!OneMoves

\* What was saved is where it was when the application manager has replied.
ArrangementKept == Pad!ArrangementKept

-----------------------------------------------------------------------------
(* The properties of the notification center.                                *)

\* The rows of an application keep their shape, piles have rows of the history to
\* show, and what is pinned comes first.
ListSound == Center!ListSound

\* The list shows what the history has, unless an announcement went astray.
Faithful == Center!Faithful

\* A newcomer takes its application to its place.
NewestRises == Center!NewestRises
=============================================================================
