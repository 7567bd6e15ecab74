------------------------- MODULE MCDispatchExecutor -------------------------
(* A concurrent and a serial queue; code on the first may lock handles of  *)
(* the second (Ordered), or of its own queue (Reentrant).                  *)
EXTENDS DispatchExecutor

CONSTANTS q1, q2

Ordered == {<<q1, q2>>}
Reentrant == {<<q1, q1>>}
=============================================================================
