---------------------------- MODULE AddressSpace ----------------------------
(***************************************************************************)
(* What a page table promises its users: a partial map from virtual pages  *)
(* to frames with a write permission.  An operation on a page changes the  *)
(* translation of that page only; one on a large page that of its block.   *)
(***************************************************************************)
EXTENDS Integers

CONSTANTS
  Vpages,    \* virtual pages
  Block(_),  \* the pages of the large page that a page belongs to
  Offset(_), \* a page's place in its large page
  Frames,    \* physical frames
  Absent     \* the translation of a page that is not mapped

VARIABLE trans   \* trans[v]: [frame, rw], or Absent

Init == trans = [v \in Vpages |-> Absent]

Map(v, f, rw) == trans' = [trans EXCEPT ![v] = [frame |-> f, rw |-> rw]]

MapLarge(v, f, rw) ==
  trans' = [w \in Vpages |-> IF w \in Block(v)
                             THEN [frame |-> f + Offset(w), rw |-> rw]
                             ELSE trans[w]]

\* The page goes, with its block where a large page maps it.
Unmap(v) ==
  \E gone \in {{v}, Block(v)} :
    trans' = [w \in Vpages |-> IF w \in gone THEN Absent ELSE trans[w]]

Next ==
  \E v \in Vpages :
    \/ \E f \in Frames, rw \in BOOLEAN : Map(v, f, rw) \/ MapLarge(v, f, rw)
    \/ Unmap(v)

Spec == Init /\ [][Next]_trans
=============================================================================
