----------------------------- MODULE UndoStack ------------------------------
(***************************************************************************)
(* What an undo history promises, whoever keeps it: the steps that are in  *)
(* effect, oldest first, and the steps that can be redone, next first.     *)
(* "Per device the steps are a stack: only the newest active step can be   *)
(* undone, only the most recently undone one redone, and a new change on   *)
(* the device discards its redo steps" (backend/README.md:595).            *)
(***************************************************************************)
EXTENDS Naturals, Sequences

CONSTANT Entries

VARIABLES done, redo

Init == done = <<>> /\ redo = <<>>

\* A new step, which is then the newest one, ends the redo branch.
Do ==
    /\ done' # <<>>
    /\ LET e == done'[Len(done')]
       IN  e \in Entries /\ done' = Append(done, e) /\ redo' = <<>>

Undo ==
    /\ done # <<>>
    /\ done' = SubSeq(done, 1, Len(done) - 1)
    /\ redo' = <<done[Len(done)]>> \o redo

Redo ==
    /\ redo # <<>>
    /\ done' = Append(done, Head(redo))
    /\ redo' = Tail(redo)

Next == Do \/ Undo \/ Redo

Spec == Init /\ [][Next]_<<done, redo>>

=============================================================================
