--------------------------- MODULE FrameAllocator ---------------------------
(***************************************************************************)
(* What the page allocator promises the rest of the kernel: a range of     *)
(* pages is given to somebody only while no page of it belongs to anybody  *)
(* else, and it belongs to them until they give it back.  Requests may     *)
(* fail, and pages given back need not become available again.             *)
(***************************************************************************)
EXTENDS Integers

CONSTANT Ranges   \* the page ranges [base, cnt] that may be given out

VARIABLE inuse    \* the ranges that belong to somebody

Span(r) == r.base .. (r.base + r.cnt - 1)

Overlap(r, s) == Span(r) \cap Span(s) # {}

Init == inuse = {}

Take ==
  \E r \in inuse' \ inuse : /\ r \in Ranges
                            /\ \A s \in inuse : ~Overlap(r, s)
                            /\ inuse' = inuse \cup {r}

Return == \E r \in inuse : inuse' = inuse \ {r}

Next == Take \/ Return

Spec == Init /\ [][Next]_inuse
=============================================================================
