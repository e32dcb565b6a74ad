--------------------------- MODULE MCKernelSpace ----------------------------
(***************************************************************************)
(* Large pages of two small ones, a fixed map of four, a controller in     *)
(* its last page, and memory below and above it.                           *)
(***************************************************************************)
EXTENDS KernelSpace

MCDevices == <<2, 4, 6>>

\* A region below the end of the fixed map (page 8) and one at or above it.
MCMaps ==
  {<<[base |-> b, length |-> l, usable |-> TRUE],
     [base |-> c, length |-> m, usable |-> u]>> :
     b \in 0..1, l \in 1..3, c \in 8..11, m \in 1..4, u \in BOOLEAN}
=============================================================================
