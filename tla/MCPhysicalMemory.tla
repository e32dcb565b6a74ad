-------------------------- MODULE MCPhysicalMemory --------------------------
(* A small instance of PhysicalMemory: two modules of unequal size with a  *)
(* gap between them, the first one starting at an odd page so that         *)
(* alignment and bit index differ.                                         *)
EXTENDS PhysicalMemory

MCBase == <<1, 6>>

MCCount == <<3, 2>>

MCRequests == {<<1, 1>>, <<2, 1>>, <<1, 2>>, <<2, 2>>}
=============================================================================
