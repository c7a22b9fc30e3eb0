---------------------------- MODULE LinearHistory ----------------------------
(***************************************************************************)
(* What undo and redo promise: the versions of a document stand in one     *)
(* line, one of them is shown, undo and redo move along the line, and an   *)
(* edit replaces everything after the version shown.                       *)
(***************************************************************************)
EXTENDS Naturals, Sequences

VARIABLES
    line,     \* the versions, oldest first
    position  \* the one that is shown

Init == Len(line) = 1 /\ position = 1

Edit ==
    /\ position' = position + 1
    /\ Len(line') = position'
    /\ SubSeq(line', 1, position) = SubSeq(line, 1, position)

Undo == position > 1 /\ position' = position - 1 /\ line' = line

Redo == position < Len(line) /\ position' = position + 1 /\ line' = line

Next == Edit \/ Undo \/ Redo

Spec == Init /\ [][Next]_<<line, position>>
=============================================================================
