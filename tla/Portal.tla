------------------------------- MODULE Portal -------------------------------
(***************************************************************************)
(* Memory portals (kernel/core/portal.c): the portal system call, the page *)
(* faults that fill anonymous portals, and the table of share points.      *)
(* Addresses and lengths are counted in pages.                             *)
(*                                                                         *)
(* A space is a page table with its portals, and the context that runs in  *)
(* it; Kernel is kernel_mappings, used where there is no context.  Spaces  *)
(* run on different cores and share the table of share points, which no    *)
(* lock protects; a call touches nothing else that is not its own.         *)
(*                                                                         *)
(* The tree of portals is the sequence of its insertions.  External: the   *)
(* tree and the hash table (a search that finds nothing yields NULL, a key *)
(* may be pushed twice), pmm_alloc (PhysicalMemory), map_page (Paging).    *)
(***************************************************************************)
EXTENDS Integers, Sequences, FiniteSets

CONSTANTS
  Spaces, Kernel,
  Names,      \* share identifiers
  Requests,   \* Requests[s]: the portal requests that s may make, each once
  Word,       \* sizeof(uint64_t)
  Pages       \* virtual pages

(***************************************************************************)
(* A request: its classes, place, permission, and for SHARE the name,      *)
(* create flag and whether the link is circular.  DIRECT maps the frames   *)
(* from `frame' on.                                                        *)
(***************************************************************************)
Request ==
  [type : SUBSET {"anon", "share", "direct"}, base : Nat, limit : Nat,
   write : BOOLEAN, name : Names, create : BOOLEAN, circular : BOOLEAN,
   frame : Nat \cup {-1}]

ASSUME PortalAssumption ==
  /\ Kernel \in Spaces
  /\ Word \in Nat \ {0}
  /\ Pages \subseteq Nat
  /\ Requests \in [Spaces -> SUBSET Request]

VARIABLES
  todo,     \* requests not made yet
  portals,  \* portals[s]: the tree, in order of insertion
  points,   \* points[n]: lengths of the share points pushed under n
  table,    \* table[s][p]: what page p is mapped to
  used,     \* frames handed out so far
  pc, req, acc   \* per space: where it is, its request, its memory access

vars == <<todo, portals, points, table, used, pc, req, acc>>

NoPage == [frame |-> -1, rw |-> FALSE]

NoReq == [type |-> {}]

NoAcc == [page |-> -1, write |-> FALSE]

Init ==
  /\ todo = Requests
  /\ portals = [s \in Spaces |-> <<>>]
  /\ points = [n \in Names |-> <<>>]
  /\ table = [s \in Spaces |-> [p \in Pages |-> NoPage]]
  /\ used = 0
  /\ pc = [s \in Spaces |-> "run"]
  /\ req = [s \in Spaces |-> NoReq]
  /\ acc = [s \in Spaces |-> NoAcc]

Goto(s, l) == pc' = [pc EXCEPT ![s] = l]

-----------------------------------------------------------------------------
(* portal()                                                                *)

\* portal_handle_direct maps at once.
Mapped(t, r) ==
  [p \in Pages |-> IF "direct" \in r.type /\ p \in r.base .. (r.base + r.limit - 1)
                   THEN [frame |-> r.frame + (p - r.base), rw |-> r.write]
                   ELSE t[p]]

Call(s, r) ==
  /\ pc[s] = "run"
  /\ r \in todo[s]
  /\ todo' = [todo EXCEPT ![s] = @ \ {r}]
  /\ req' = [req EXCEPT ![s] = r]
  /\ table' = [table EXCEPT ![s] = Mapped(@, r)]
  /\ Goto(s, IF "share" \in r.type THEN "search" ELSE "insert")
  /\ UNCHANGED <<portals, points, used, acc>>

\* Mutant: a share point that does not exist is not an error.
SearchLenient(s) ==
  /\ pc[s] = "search"
  /\ Goto(s, IF points[req[s].name] = <<>> /\ req[s].create THEN "push" ELSE "insert")
  /\ UNCHANGED <<todo, portals, points, table, used, req, acc>>

\* portal_handle_share looks the name up; on failure portal() drops the
\* portal, and leaves what DIRECT has mapped.
Search(s) ==
  /\ pc[s] = "search"
  /\ Goto(s, IF points[req[s].name] # <<>> THEN "insert"
             ELSE IF req[s].create THEN "push"
             ELSE "run")
  /\ UNCHANGED <<todo, portals, points, table, used, req, acc>>

Push(s) ==
  /\ pc[s] = "push"
  /\ points' = [points EXCEPT ![req[s].name] = Append(@, req[s].limit)]
  /\ acc' = [acc EXCEPT ![s] = IF req[s].circular
                               THEN [page |-> req[s].base, write |-> TRUE] ELSE @]
  /\ Goto(s, IF req[s].circular THEN "link" ELSE "insert")
  /\ UNCHANGED <<todo, portals, table, used, req>>

Insert(s) ==
  /\ pc[s] = "insert"
  /\ portals' = [portals EXCEPT ![s] = Append(@, req[s])]
  /\ Goto(s, "run")
  /\ UNCHANGED <<todo, points, table, used, req, acc>>

-----------------------------------------------------------------------------
(* Memory accesses and page faults                                         *)

Covers(r, a) == "anon" \in r.type /\ r.base <= a /\ a < r.base + r.limit

\* A program keeps to its portals and their permissions.  It touches the first
\* byte of a page, where the bound below makes a difference.
Access(s, a, w) ==
  /\ pc[s] = "run"
  /\ \E i \in DOMAIN portals[s] :
       Covers(portals[s][i], a) /\ (w => portals[s][i].write)
  /\ acc' = [acc EXCEPT ![s] = [page |-> a, write |-> w]]
  /\ Goto(s, "access")
  /\ UNCHANGED <<todo, portals, points, table, used, req>>

\* The access, or the kernel's write of a new link's header, succeeds.
Done(s) ==
  /\ pc[s] \in {"access", "link"}
  /\ table[s][acc[s].page] # NoPage
  /\ acc[s].write => table[s][acc[s].page].rw
  /\ Goto(s, IF pc[s] = "link" THEN "insert" ELSE "run")
  /\ acc' = [acc EXCEPT ![s] = NoAcc]
  /\ UNCHANGED <<todo, portals, points, table, used, req>>

\* Mutant: the search turns the other way.
OnPathReversed(tree, i, a) ==
  \A j \in 1 .. (i - 1) : (tree[j].base <= a) <=> (tree[j].base > tree[i].base)

\* Portal i is on the search path of address a: every portal inserted before
\* it sends a and its base the same way.
OnPath(tree, i, a) ==
  \A j \in 1 .. (i - 1) : (tree[j].base > a) <=> (tree[j].base > tree[i].base)

\* The test of portal_fault_anon.  The upper bound is inclusive: it takes in the
\* first byte of the page above.
Claims(r, a) == "anon" \in r.type /\ r.base <= a /\ a <= r.base + r.limit

\* The portal that portal_fault_anon stops at.
Resolves(tree, i, a) ==
  /\ i \in DOMAIN tree
  /\ OnPath(tree, i, a) /\ Claims(tree[i], a)
  /\ \A j \in 1 .. (i - 1) : ~(OnPath(tree, j, a) /\ Claims(tree[j], a))

\* The share point's length is a number of pages, and is divided by the size
\* of a word before the index is compared with it.
InPoint(r, a) ==
  "share" \in r.type => points[r.name] # <<>> /\ a - r.base <= Head(points[r.name]) \div Word

\* Mutant: the permission is not translated.
FaultMapReadOnly(s, r) == [frame |-> used + 1, rw |-> FALSE]

\* Mutant: every page is writable.
FaultMapWritable(s, r) == [frame |-> used + 1, rw |-> TRUE]

\* A fresh frame is mapped for every portal.  The frame that a share point
\* records is looked up (out of the bounds of its allocation, so its value
\* is arbitrary), maybe allocated, and not used.
FaultMap(s, r) == [frame |-> used + 1, rw |-> r.write]

\* portal_resolve_fault succeeds with portal i; without a context it fails.
Resolved(s, i) ==
  /\ s # Kernel
  /\ Resolves(portals[s], i, acc[s].page)
  /\ InPoint(portals[s][i], acc[s].page)

Fault(s) ==
  /\ pc[s] \in {"access", "link"}
  /\ table[s][acc[s].page] = NoPage
  /\ \E i \in DOMAIN portals[s] :
       /\ Resolved(s, i)
       /\ table' = [table EXCEPT ![s][acc[s].page] = FaultMap(s, portals[s][i])]
       /\ used' \in {used + 1} \cup {used + 2 : x \in portals[s][i].type \cap {"share"}}
  /\ UNCHANGED <<todo, portals, points, pc, req, acc>>

\* A write to a page that is present and read-only: resolve_fault reports
\* success, having changed nothing, and the access is tried again.
Retry(s) ==
  /\ pc[s] \in {"access", "link"}
  /\ table[s][acc[s].page] # NoPage
  /\ acc[s].write /\ ~table[s][acc[s].page].rw
  /\ UNCHANGED vars

\* A fault that is not resolved: isr_handler_main reports it and halts.
Halt(s) ==
  /\ pc[s] \in {"access", "link"}
  /\ table[s][acc[s].page] = NoPage
  /\ \A i \in DOMAIN portals[s] : ~Resolved(s, i)
  /\ Goto(s, "halt")
  /\ UNCHANGED <<todo, portals, points, table, used, req, acc>>

Step(s) == Search(s) \/ Push(s) \/ Insert(s) \/ Done(s) \/ Fault(s) \/ Halt(s)

Next ==
  \E s \in Spaces :
    \/ \E r \in todo[s] : Call(s, r)
    \/ \E a \in Pages, w \in BOOLEAN : Access(s, a, w)
    \/ Step(s)
    \/ Retry(s)

Spec == Init /\ [][Next]_vars

\* A core that is in the kernel, or in a faulting access, keeps running.
FairSpec == Spec /\ \A s \in Spaces : WF_vars(Step(s))

-----------------------------------------------------------------------------
TypeOK ==
  /\ todo \in [Spaces -> SUBSET Request]
  /\ portals \in [Spaces -> Seq(Request)]
  /\ points \in [Names -> Seq(Nat)]
  /\ table \in [Spaces -> [Pages -> [frame : Int, rw : BOOLEAN]]]
  /\ \A s \in Spaces, p \in Pages : table[s][p].frame >= -1
  /\ used \in Nat
  /\ pc \in [Spaces -> {"run", "search", "push", "insert", "link", "access", "halt"}]
  /\ \A s \in Spaces : req[s] \in Request \cup {NoReq}
  /\ \A s \in Spaces : acc[s] \in [page : Int, write : BOOLEAN]

\* Two portals with at least a page between them.
Apart(p, q) == p.base + p.limit < q.base \/ q.base + q.limit < p.base

\* The kernel resolves a fault in page k of a link only if k is at most the
\* length of the link over the size of a word.
WithinBound(r) ==
  \A t \in Spaces : \A q \in Requests[t] :
    "share" \in q.type /\ q.create /\ q.name = r.name => r.limit <= q.limit \div Word + 1

(***************************************************************************)
(* Servers that ask for anonymous memory with a page between portals, and  *)
(* join links no further than that bound but create none.  Other servers   *)
(* may do anything.                                                        *)
(***************************************************************************)
Orderly ==
  {s \in Spaces \ {Kernel} :
     /\ \A r \in Requests[s] :
          \/ r.type = {"anon"}
          \/ r.type = {"anon", "share"} /\ ~r.create /\ WithinBound(r)
     /\ \A r, q \in Requests[s] : r # q => Apart(r, q)}

(***************************************************************************)
(* An orderly server that keeps to its portals is never stopped by the     *)
(* kernel, whatever other servers do: every page fault in an anonymous     *)
(* portal is resolved (portal_fault_anon), whatever the shape of the tree. *)
(* The others may be stopped: the kernel writes a new link before it is in *)
(* the tree, and refuses pages beyond the bound.                           *)
(***************************************************************************)
NeverHalts == \A s \in Orderly : pc[s] # "halt"

(***************************************************************************)
(* A page of an orderly server that a fault has mapped has the permission  *)
(* of the portal it belongs to.  Portals that touch may get each other's.  *)
(***************************************************************************)
RightsAsAsked ==
  \A s \in Orderly : \A i \in DOMAIN portals[s] : \A a \in Pages :
    Covers(portals[s][i], a) /\ table[s][a] # NoPage =>
      table[s][a].rw = portals[s][i].write

(***************************************************************************)
(* A portal is in a tree under a name only if the share point of that name *)
(* exists: portal() inserts it after portal_handle_share, which another    *)
(* core's portal_handle_share may race with.                               *)
(***************************************************************************)
JoinAfterCreate ==
  \A s \in Spaces : \A i \in DOMAIN portals[s] :
    "share" \in portals[s][i].type => points[portals[s][i].name] # <<>>

(***************************************************************************)
(* Portals of one name show the same memory: page k of each is the same    *)
(* frame, once both are mapped.                                            *)
(***************************************************************************)
SharedMemory ==
  \A s, t \in Spaces : \A i \in DOMAIN portals[s], j \in DOMAIN portals[t] :
    LET p == portals[s][i]  q == portals[t][j]
    IN  "share" \in p.type \cap q.type /\ p.name = q.name =>
          \A k \in Nat \cap (0 .. (p.limit - 1)) :
            (k < q.limit /\ table[s][p.base + k] # NoPage /\ table[t][q.base + k] # NoPage)
              => table[s][p.base + k].frame = table[t][q.base + k].frame

(***************************************************************************)
(* Every access that an orderly server's portals permit is eventually      *)
(* made: the faults it takes end.                                          *)
(***************************************************************************)
AccessCompletes == \A s \in Orderly : (pc[s] = "access") ~> (pc[s] = "run")
=============================================================================
