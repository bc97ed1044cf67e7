----------------------------- MODULE CutHistory -----------------------------
(***************************************************************************)
(* What undo and redo promise, whatever the edits are: the contents of a   *)
(* clip in the order they were made, and a place among them.                *)
(***************************************************************************)
EXTENDS Integers, SequencesExt

CONSTANTS Contents,  \* what a cut list may keep
          Start,     \* what it keeps before any edit
          Depth      \* contents remembered on either side

VARIABLES past, present, future

vars == <<past, present, future>>

Newest(s) == IF Len(s) > Depth THEN Tail(s) ELSE s

Init == past = <<>> /\ present = Start /\ future = <<>>

Edit == /\ present' \in Contents
        /\ past' = Newest(Append(past, present))
        /\ future' = <<>>

Undo == /\ past # <<>>
        /\ present' = Last(past) /\ past' = Front(past)
        /\ future' = Newest(Append(future, present))

Redo == /\ future # <<>>
        /\ present' = Last(future) /\ future' = Front(future)
        /\ past' = Newest(Append(past, present))

Next == Edit \/ Undo \/ Redo
Spec == Init /\ [][Next]_vars
=============================================================================
