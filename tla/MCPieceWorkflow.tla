--------------------------- MODULE MCPieceWorkflow ---------------------------
(* One order of two pieces, so that a segment can be split, a batch can take *)
(* a part of the order, and a piece can stay behind.                         *)
EXTENDS PieceWorkflow

MCN == 2
MCMaxReceived == 3
MCMaxIncidents == 1
=============================================================================
