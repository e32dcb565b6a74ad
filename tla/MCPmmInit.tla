----------------------------- MODULE MCPmmInit ------------------------------
(* Memory maps of up to three regions with the real page and limit sizes.  *)
(* The lengths, in pages, include those at which a bitmap grows by a byte. *)
EXTENDS PmmInit

Region(base, pages, usable) ==
  [base |-> base * 4096, length |-> pages * 4096, usable |-> usable]

\* A region below the limit, then two above it with a gap in between.
MCMaps ==
  {<<Region(b, n, u), Region(256, p, v), Region(40000, q, TRUE)>> :
     b \in {1, 80}, n \in {1, 158}, u \in BOOLEAN, v \in BOOLEAN,
     p \in {1, 2, 8, 9, 20000}, q \in {1, 2, 3, 17, 4096}}

\* A usable region that straddles the limit, and one behind or far above it.
MCStraddling ==
  {<<Region(128, n, TRUE), Region(128 + n + gap, q, TRUE)>> :
     n \in {129, 200, 1000, 20000}, gap \in {0, 127, 128, 40000}, q \in {1, 2, 4096}}

MCAll == MCMaps \cup MCStraddling
=============================================================================
