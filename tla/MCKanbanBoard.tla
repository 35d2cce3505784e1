---- MODULE MCKanbanBoard ----
\* KanbanBoard over two boards, and a card.
EXTENDS KanbanBoard, TLC

CONSTANTS main, side, c1

MCHome == c1 :> main
MCBegun == main :> 1 @@ side :> 0

====
