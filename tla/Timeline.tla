------------------------------ MODULE Timeline ------------------------------
(***************************************************************************)
(* What the draft history of a user promises: between two barriers it is   *)
(* an undo stack, and a barrier (data changed behind its back, a restored  *)
(* backup, a restart of the process) replaces all of it, so that no state  *)
(* from before a barrier can be undone or redone to: "history barrier",    *)
(* pending_service.py:588.                                                 *)
(***************************************************************************)
EXTENDS UndoStack, Functions

InTimeline == Range(done) \cup Range(redo)

Barrier ==
    /\ (Range(done') \cup Range(redo')) \cap InTimeline = {}
    /\ done' = <<>> => redo' = <<>>

TimelineSpec == Init /\ [][Next \/ Barrier]_<<done, redo>>

=============================================================================
