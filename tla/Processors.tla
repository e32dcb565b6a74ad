----------------------------- MODULE Processors -----------------------------
(***************************************************************************)
(* What ServerLaunch and ContextSwitch share: the cores, and which of them *)
(* have a scheduling server to run.                                        *)
(***************************************************************************)
EXTENDS Integers

CONSTANT N   \* bootable_processor_cnt

ASSUME NAssumption == N \in Nat \ {0}

Cores == 0 .. (N - 1)

VARIABLE context   \* cores whose scheduling server has a context
=============================================================================
