------------------------------ MODULE MCPortal ------------------------------
(* Requests for two servers, A and B, and the kernel.                      *)
EXTENDS Portal, TLC

A == "A"
B == "B"
K == "K"

MCSpaces == {A, B, K}

MCNames == {"link"}

\* Page 2, which lies between the portals of A, is not accessed.
MCPages == {0, 1, 3}

Req(type, base, limit, write, create, circular) ==
  [type |-> type, base |-> base, limit |-> limit, write |-> write, name |-> "link",
   create |-> create, circular |-> circular, frame |-> IF "direct" \in type THEN 100 ELSE -1]

Anon(base, limit, write) == Req({"anon"}, base, limit, write, FALSE, FALSE)

Join(base, limit) == Req({"anon", "share"}, base, limit, TRUE, FALSE, FALSE)

Create(base, limit, circular) == Req({"anon", "share"}, base, limit, TRUE, TRUE, circular)

\* sched_establish_shared_link and launch_schedulers.
KernelLink(limit, circular) == Req({"direct", "share"}, 0, limit, TRUE, TRUE, circular)

Requested(a, b, k) == A :> a @@ B :> b @@ K :> k

\* An orderly server that joins a link, and one that races with the kernel to
\* create it and has portals that touch.
MCMixed == Requested({Join(0, 2), Anon(3, 1, FALSE)},
                     {Anon(2, 1, FALSE), Create(3, 8, TRUE)},
                     {KernelLink(8, TRUE)})

\* A server that joins a link of the kernel.
MCJoined == Requested({Join(3, 1)}, {}, {KernelLink(1, TRUE)})
=============================================================================
