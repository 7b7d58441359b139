-------------------------------- MODULE Lists --------------------------------
(***************************************************************************)
(* Lists and sets, as several components use them: the part of a list that is   *)
(* in a set, and the numbers of a set in their order.                         *)
(***************************************************************************)
EXTENDS Integers, Sequences, FiniteSets, SequencesExt

\* The items of a list that are in the set, in their order.
Only(list, set) ==
  LET Up[n \in 0..Len(list)] ==
        IF n = 0 THEN <<>>
        ELSE IF list[n] \in set THEN Append(Up[n - 1], list[n]) ELSE Up[n - 1]
  IN  Up[Len(list)]

\* The numbers of a finite set, the least first.
Ascending(set) ==
  [n \in 1..Cardinality(set) |->
     CHOOSE e \in set : Cardinality({f \in set : f <= e}) = n]
=============================================================================
