------------------------- MODULE MCLoopbackTransfer -------------------------
(***************************************************************************)
(* Files of up to four chunks: none, one short, one full, a full and a     *)
(* short one, three, four full ones.                                       *)
(***************************************************************************)
EXTENDS LoopbackTransfer

LoopFiles == {<<>>, <<1>>, <<1, 2>>, <<1, 2, 3>>, <<1, 2, 3, 4, 5>>, <<1, 2, 3, 4, 5, 6, 7, 8>>}
=============================================================================
