------------------------- MODULE MCActivationOffload -------------------------
(* ActivationOffload for TLC.                                               *)
EXTENDS ActivationOffload

SizesDef == {<<1, 1>>, <<2, 2>>, <<1, 3>>, <<2, 3>>, <<3, 4>>,
             <<2, 5>>, <<3, 5>>, <<4, 5>>}
=============================================================================
