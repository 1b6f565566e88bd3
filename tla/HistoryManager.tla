--------------------------- MODULE HistoryManager ---------------------------
(***************************************************************************)
(* One topology of a HistoryManager (history_extension/history_manager.py) *)
(* as a value: a journal of snapshots that only grows, and two stacks of   *)
(* positions in it.  Each method builds a new value from a copy, which     *)
(* _install_state then makes the live one.  The contents of an event other *)
(* than its snapshot (time, actor, description, difference) are left out.  *)
(***************************************************************************)
EXTENDS Naturals, SequencesExt

CONSTANT NoSnapshot      \* None, what a history without a state returns

EmptyHistory == [journal |-> <<>>, undo |-> <<>>, redo |-> <<>>]

\* _snapshot: the state on top of the undo stack.
Current(h) == IF h.undo = <<>> THEN NoSnapshot ELSE h.journal[Last(h.undo)]

\* _event
Event(h, s) == [h EXCEPT !.journal = Append(@, s)]

PushState(h, s) ==
    [Event(h, s) EXCEPT !.undo = Append(@, Len(h.journal) + 1), !.redo = <<>>]

\* A barrier that forgets the redo branch.
CheckpointRedoKept(h, s) ==
    [Event(h, s) EXCEPT !.undo = <<Len(h.journal) + 1>>]

\* A barrier: what was undoable before it no longer is.
Checkpoint(h, s) ==
    [Event(h, s) EXCEPT !.undo = <<Len(h.journal) + 1>>, !.redo = <<>>]

\* The first state of the stack is the baseline.
CanUndo(h) == Len(h.undo) > 1

CanRedo(h) == h.redo # <<>>

\* A move that copies the state to the other stack.
UndoneCopied(h) ==
    LET m == [h EXCEPT !.redo = Append(@, Last(h.undo))]
    IN  Event(m, Current(m))

\* _move, which records the state it arrives at.
Undone(h) ==
    LET m == [h EXCEPT !.undo = Front(@), !.redo = Append(@, Last(h.undo))]
    IN  Event(m, Current(m))

Redone(h) ==
    LET m == [h EXCEPT !.undo = Append(@, Last(h.redo)), !.redo = Front(@)]
    IN  Event(m, Current(m))

\* active_snapshots
ActiveSnapshots(h) == {h.journal[i] : i \in Range(h.undo) \cup Range(h.redo)}

\* export_backup_file: the journal, private, and the stacks.
Exported(h) == h

\* The checks of restore_from_backup on the stacks of a file.
Restorable(b) ==
    /\ Range(b.undo \o b.redo) \subseteq DOMAIN b.journal
    /\ IsInjective(b.undo \o b.redo)
    /\ b.undo = <<>> => b.redo = <<>>

\* restore_from_backup keeps the journal of the receiving manager in front.
Restored(h, b) ==
    LET Shift(i) == i + Len(h.journal)
        m == [journal |-> h.journal \o b.journal,
              undo |-> [k \in DOMAIN b.undo |-> Shift(b.undo[k])],
              redo |-> [k \in DOMAIN b.redo |-> Shift(b.redo[k])]]
    IN  Event(m, IF b.undo = <<>> THEN <<>> ELSE Current(m))

=============================================================================
