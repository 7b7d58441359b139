---------------------------- MODULE WindowGroups ----------------------------
(***************************************************************************)
(* Which window a click on a group of windows goes to:                         *)
(* taskmanager/dockgroupmodel.cpp on rolegroupmodel.cpp.  For the window manager   *)
(* the one loses the focus before the other gets it.                           *)
(*                                                                           *)
(* The model of groups is told at once of windows that come, go and change; the    *)
(* model for the view keeps the window to go to by the group's row, and hears of     *)
(* it through the event queue, with the rows as they were.                      *)
(***************************************************************************)
EXTENDS Naturals, Sequences, SequencesExt

CONSTANTS
  Window, AppOf,  \* windows, and their apps
  NoWindow,
  MaxSignals      \* bound: queued signals

VARIABLES
  groups,   \* m_rowMap: the windows of each group
  active,   \* the active window
  current,  \* m_currentActiveWindow: row -> place in the group
  signals,  \* queued for the DockGroupModel
  astray    \* history: apps whose group has the place of another's, or an attention's

vars == <<groups, active, current, signals, astray>>

\* Rows and places count from 1.
RowOf(w) == CHOOSE k \in DOMAIN groups : Contains(groups[k], w)
PlaceOf(w) == CHOOSE i \in DOMAIN groups[RowOf(w)] : groups[RowOf(w)][i] = w
Open == UNION {ToSet(groups[k]) : k \in DOMAIN groups}
Mates(w) == {v \in Open : AppOf[v] = AppOf[w]}

Signal(kind, w) == [kind |-> kind, row |-> RowOf(w), place |-> PlaceOf(w)]
Roomy == Len(signals) < MaxSignals

\* The rows that have a place, or may get one.
Rowed == DOMAIN current \cup {signals[i].row : i \in DOMAIN signals}

\* m_currentActiveWindow.value
Current(row) == IF row \in DOMAIN current THEN current[row] ELSE 1

-----------------------------------------------------------------------------
(* Windows.                                                                  *)

\* rowsInserted: to its group, or to a new one at the end.
Opens(w) ==
  /\ w \notin Open
  /\ IF Mates(w) = {}
     THEN /\ groups' = Append(groups, <<w>>)
          /\ astray' = IF Len(groups) + 1 \in Rowed THEN astray \cup {AppOf[w]} ELSE astray
     ELSE LET v == CHOOSE v \in Mates(w) : TRUE
          IN  groups' = [groups EXCEPT ![RowOf(v)] = Append(@, w)] /\ UNCHANGED astray
  /\ UNCHANGED <<active, current, signals>>

\* rowsRemoved: the group goes with its last window, and those behind it move up.
Closes(w) ==
  /\ w \in Open /\ Roomy
  /\ signals' = Append(signals, Signal("removed", w))
  /\ active' = IF active = w THEN NoWindow ELSE active
  /\ LET k == RowOf(w)
         alone == Mates(w) = {w}
     IN  /\ groups' = IF alone THEN RemoveAt(groups, k)
                      ELSE [groups EXCEPT ![k] = RemoveAt(@, PlaceOf(w))]
         /\ astray' = IF alone
                      THEN (astray \ {AppOf[w]}) \cup
                             {AppOf[groups[j][1]] : j \in k + 1..Len(groups)}
                      ELSE astray
  /\ UNCHANGED current

\* dataChanged with ActiveRole: for the window that was active, then for the one that is.
Focus(w) ==
  /\ active' = w
  /\ signals' = signals
       \o (IF active = NoWindow THEN <<>> ELSE <<Signal("changed", active)>>)
       \o (IF w = NoWindow THEN <<>> ELSE <<Signal("changed", w)>>)
  /\ astray' = IF w = NoWindow THEN astray ELSE astray \ {AppOf[w]}
  /\ UNCHANGED <<groups, current>>

\* The user turns to another window, or to none.
Turns(w) == w # active /\ w \in Open \cup {NoWindow} /\ Roomy /\ Focus(w)

\* The state of a window changes that is not active: it wants attention.
Attends(w) ==
  /\ w \in Open /\ w # active /\ Roomy
  /\ signals' = Append(signals, Signal("changed", w)) /\ astray' = astray \cup {AppOf[w]}
  /\ UNCHANGED <<groups, active, current>>

-----------------------------------------------------------------------------
(* The queued slots.                                                         *)

\* resetActiveWindow, where a row that is not there counts as the list of groups.
ResetActiveWindow(row) ==
  IF row \in DOMAIN groups \/ groups # <<>> THEN [current EXCEPT ![row] = 1]
  ELSE [r \in DOMAIN current \ {row} |-> current[r]]

\* The slot of rowsRemoved.
Removed(row, place) ==
  IF row \notin DOMAIN current THEN current
  ELSE IF current[row] = place THEN ResetActiveWindow(row)
  ELSE IF current[row] > place THEN [current EXCEPT ![row] = @ - 1]
  ELSE current

\* The slot of dataChanged; nothing when the row has gone, whose signal has no parent then.
Changed(row, place) ==
  IF row \notin DOMAIN groups THEN current
  ELSE [r \in DOMAIN current \cup {row} |-> IF r = row THEN place ELSE current[r]]

Deliver ==
  /\ signals # <<>> /\ signals' = Tail(signals)
  /\ LET s == Head(signals)
     IN  current' = IF s.kind = "removed" THEN Removed(s.row, s.place)
                    ELSE Changed(s.row, s.place)
  /\ UNCHANGED <<groups, active, astray>>

-----------------------------------------------------------------------------
(* The click.                                                                *)

IsActive(k) == active # NoWindow /\ Contains(groups[k], active)

\* The place requestActivate goes to.
Target(k) ==
  IF IsActive(k) THEN (Current(k) % Len(groups[k])) + 1 ELSE Current(k)

\* requestActivate: the window is activated, or minimised if it is active; nothing happens
\* for a place that is not there.
RequestActivate(k) ==
  /\ k \in DOMAIN groups /\ Roomy /\ Target(k) <= Len(groups[k])
  /\ LET w == groups[k][Target(k)]
     IN  Focus(IF w = active THEN NoWindow ELSE w)

Init ==
  /\ groups = <<>> /\ active = NoWindow /\ current = <<>> /\ signals = <<>> /\ astray = {}

Next ==
  \/ \E w \in Window : Opens(w) \/ Closes(w) \/ Attends(w)
  \/ \E w \in Window \cup {NoWindow} : Turns(w)
  \/ \E k \in DOMAIN groups : RequestActivate(k)
  \/ Deliver

Spec == Init /\ [][Next]_vars

-----------------------------------------------------------------------------
(* Properties.                                                               *)

\* Every variable keeps its type, and the groups are those of the apps.
TypeOK ==
  /\ groups \in Seq(Seq(Window) \ {<<>>}) /\ active \in Open \cup {NoWindow}
  /\ \A r \in DOMAIN current : current[r] \in Nat \ {0}
  /\ \A k, j \in DOMAIN groups : \A v \in ToSet(groups[k]), w \in ToSet(groups[j]) :
       k = j <=> AppOf[v] = AppOf[w]

\* When all is delivered, a click on the group of the active window goes to the one behind
\* it, and so to all of them in turn; and a click on another goes to a window it has.
TakesTurns ==
  signals = <<>> =>
    \A k \in DOMAIN groups :
      AppOf[groups[k][1]] \notin astray =>
        /\ Target(k) <= Len(groups[k])
        /\ IsActive(k) => Current(k) = PlaceOf(active)

\* Clicks go where they should.
GroupsSound == TypeOK /\ TakesTurns
=============================================================================
