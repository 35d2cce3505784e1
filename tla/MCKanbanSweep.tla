---------------------------- MODULE MCKanbanSweep ----------------------------
(* Small instances of the kanban sweep for TLC: a board with one card and a
   second board that answers or fails on its own. *)
EXTENDS KanbanSweep

CONSTANTS home, work, ours

MCBoardOf == [c \in {ours} |-> home]

MCKeys == {home, work, Current} \X {ours}

MCValues == [status : Statuses, repeats : 0..MaxRepeats]

=============================================================================
