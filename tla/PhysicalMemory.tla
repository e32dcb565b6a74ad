--------------------------- MODULE PhysicalMemory ---------------------------
(***************************************************************************)
(* The physical page allocator of kernel/core/physical.c.                  *)
(*                                                                         *)
(* Usable memory is split into modules, each with a bitmap, a hint         *)
(* (last_free) and a spinlock.  pmm_alloc walks the modules in order and   *)
(* holds one module's lock at a time; pmm_free looks for the module a base *)
(* address belongs to.  Every address is counted in pages.  A caller is    *)
(* one kernel thread of control that may be inside the allocator: a core,  *)
(* or a preempted system call.                                             *)
(***************************************************************************)
EXTENDS Integers, FiniteSets

CONSTANTS
  Callers,     \* threads of control that call pmm_alloc and pmm_free
  NoCaller,    \* the holder of a lock nobody holds
  NumModules,  \* length of the root_module list
  Base,        \* Base[m]: first page of module m     (mmap_entry->base)
  Count,       \* Count[m]: pages in module m         (bitmap_entry_cnt)
  Requests     \* the <<cnt, align>> pairs the kernel passes to pmm_alloc

Modules == 1..NumModules

\* The modules are built from the boot loader's usable regions, which are
\* disjoint and sorted by address; a caller asks for at least one page.
ASSUME ModulesAssumption ==
  /\ NumModules \in Nat \ {0}
  /\ Base \in [Modules -> Nat]
  /\ Count \in [Modules -> Nat \ {0}]
  /\ \A m, n \in Modules : m < n => Base[m] + Count[m] <= Base[n]

ASSUME CallersAssumption ==
  /\ NoCaller \notin Callers
  /\ Requests \subseteq (Nat \ {0}) \X (Nat \ {0})

VARIABLES
  bitmap,     \* bitmap[m]: the indices of the set bits of module m
  last_free,  \* last_free[m]: where the next scan of module m starts
  lock,       \* lock[m]: the caller holding module m's spinlock
  pc,         \* pc[c]: where caller c is in pmm_alloc or pmm_free
  mod,        \* mod[c]: the module caller c is working on
  req,        \* req[c]: the <<cnt, align>> of c's pmm_alloc
  run,        \* run[c]: the page range c is allocating or freeing
  held,       \* page ranges returned by pmm_alloc and not yet freed
  dirty,      \* pages whose contents are not zero
  stray       \* <<m, i>>: bit i was cleared beyond the end of m's bitmap

vars == <<bitmap, last_free, lock, pc, mod, req, run, held, dirty, stray>>

(***************************************************************************)
(* Page ranges.                                                            *)
(***************************************************************************)
Pages(r) == r.base .. (r.base + r.cnt - 1)

\* Mutant: the base is rounded up one page too far.
BitsShifted(m, r) == {p + 1 - Base[m] : p \in Pages(r)}

Bits(m, r) == {p - Base[m] : p \in Pages(r)}

AllPages == UNION {Base[m] .. (Base[m] + Count[m] - 1) : m \in Modules}

Ranges == [base : Nat, cnt : Nat \ {0}]

InModule(m, r) == Base[m] <= r.base /\ r.base + r.cnt <= Base[m] + Count[m]

\* A caller's locals outside a call: mod is 1, req NoRequest, run NoRange.
NoRange == [base |-> 0, cnt |-> 1]

NoRequest == <<1, 1>>

Init ==
  /\ bitmap = [m \in Modules |-> {}]
  /\ last_free = [m \in Modules |-> 0]
  /\ lock = [m \in Modules |-> NoCaller]
  /\ pc = [c \in Callers |-> "idle"]
  /\ mod = [c \in Callers |-> 1]
  /\ req = [c \in Callers |-> NoRequest]
  /\ run = [c \in Callers |-> NoRange]
  /\ held = {}
  /\ dirty = AllPages
  /\ stray = {}

(***************************************************************************)
(* pmm_module_alloc: the scan starts at the hint, rounded up so that the   *)
(* absolute address is aligned, and steps by the alignment.  It gives up   *)
(* at the first candidate whose run would leave the bitmap, so the run it  *)
(* takes is the lowest free candidate that stays inside.                   *)
(***************************************************************************)
AlignUp(x, a) == ((x + a - 1) \div a) * a

\* Mutant: the bit index is aligned instead of the address.
BitBaseRelative(m, align) == AlignUp(last_free[m], align)

BitBase(m, align) == AlignUp(Base[m] + last_free[m], align) - Base[m]

\* Mutant: only the first bit of the run is tested.
CandidatesFirstBit(m, cnt, align) ==
  {i \in BitBase(m, align) .. (Count[m] - cnt) :
     (i - BitBase(m, align)) % align = 0 /\ i \notin bitmap[m]}

Candidates(m, cnt, align) ==
  {i \in BitBase(m, align) .. (Count[m] - cnt) :
     /\ (i - BitBase(m, align)) % align = 0
     /\ \A j \in i .. (i + cnt - 1) : j \notin bitmap[m]}

\* Mutant: with no clear bit left the hint stays at the end of the run.
NextFreeKeepsEnd(m, bits, j, h) ==
  LET clear == (j .. (Count[m] - 1)) \ bits
  IN  IF clear = {} THEN h = j ELSE h \in clear /\ \A z \in clear : h <= z

\* h is the hint left behind by an allocation whose last bit is j: the first
\* clear bit from j on, or 0 when there is none.
NextFree(m, bits, j, h) ==
  LET clear == (j .. (Count[m] - 1)) \ bits
  IN  IF clear = {} THEN h = 0 ELSE h \in clear /\ \A z \in clear : h <= z

\* A caller enters pmm_alloc.
Request(c) ==
  /\ pc[c] = "idle"
  /\ \E q \in Requests : req' = [req EXCEPT ![c] = q]
  /\ mod' = [mod EXCEPT ![c] = 1]
  /\ pc' = [pc EXCEPT ![c] = "alloc"]
  /\ UNCHANGED <<bitmap, last_free, lock, run, held, dirty, stray>>

\* Mutant: the lock is taken without waiting for it to be free.
LockWithoutTest(c) ==
  /\ pc[c] \in {"alloc", "free"}
  /\ lock' = [lock EXCEPT ![mod[c]] = c]
  /\ pc' = [pc EXCEPT ![c] = IF @ = "alloc" THEN "scan" ELSE "clear"]
  /\ UNCHANGED <<bitmap, last_free, mod, req, run, held, dirty, stray>>

\* spinlock(&module->lock), in pmm_module_alloc and in pmm_module_free.
Lock(c) ==
  /\ pc[c] \in {"alloc", "free"}
  /\ lock[mod[c]] = NoCaller
  /\ lock' = [lock EXCEPT ![mod[c]] = c]
  /\ pc' = [pc EXCEPT ![c] = IF @ = "alloc" THEN "scan" ELSE "clear"]
  /\ UNCHANGED <<bitmap, last_free, mod, req, run, held, dirty, stray>>

\* spinrelease(&module->lock).
Unlock(m) == lock' = [lock EXCEPT ![m] = NoCaller]

\* The scan finds a run; nothing is written yet.
ScanHit(c) ==
  /\ pc[c] = "scan"
  /\ LET m == mod[c]
         found == Candidates(m, req[c][1], req[c][2])
     IN  \E i \in found :
           /\ \A k \in found : i <= k
           /\ run' = [run EXCEPT ![c] = [base |-> Base[m] + i, cnt |-> req[c][1]]]
  /\ pc' = [pc EXCEPT ![c] = "commit"]
  /\ UNCHANGED <<bitmap, last_free, lock, mod, req, held, dirty, stray>>

\* Mutant: the walk starts over instead of giving up.
ScanMissRetries(c) ==
  /\ pc[c] = "scan"
  /\ Candidates(mod[c], req[c][1], req[c][2]) = {}
  /\ Unlock(mod[c])
  /\ mod' = [mod EXCEPT ![c] = IF @ < NumModules THEN @ + 1 ELSE 1]
  /\ pc' = [pc EXCEPT ![c] = "alloc"]
  /\ UNCHANGED <<bitmap, last_free, req, run, held, dirty, stray>>

\* No run in this module: release it and go on to the next one, or return
\* -1 to the caller after the last.
ScanMiss(c) ==
  /\ pc[c] = "scan"
  /\ Candidates(mod[c], req[c][1], req[c][2]) = {}
  /\ Unlock(mod[c])
  /\ IF mod[c] < NumModules
     THEN /\ mod' = [mod EXCEPT ![c] = @ + 1]
          /\ pc' = [pc EXCEPT ![c] = "alloc"]
     ELSE /\ mod' = [mod EXCEPT ![c] = 1]
          /\ pc' = [pc EXCEPT ![c] = "idle"]
  /\ req' = [req EXCEPT ![c] = IF mod[c] < NumModules THEN @ ELSE NoRequest]
  /\ UNCHANGED <<bitmap, last_free, run, held, dirty, stray>>

\* BIT_SET over the run, the new hint, spinrelease.
Commit(c) ==
  /\ pc[c] = "commit"
  /\ LET m == mod[c]
         bits == bitmap[m] \cup Bits(m, run[c])
         last == run[c].base + run[c].cnt - 1 - Base[m]
     IN  /\ bitmap' = [bitmap EXCEPT ![m] = bits]
         /\ \E h \in 0 .. (Count[m] - 1) :
              /\ NextFree(m, bits, last, h)
              /\ last_free' = [last_free EXCEPT ![m] = h]
         /\ Unlock(m)
  /\ pc' = [pc EXCEPT ![c] = "zero"]
  /\ UNCHANGED <<mod, req, run, held, dirty, stray>>

\* Mutant: the count of memset64 is taken for bytes.
ZeroedBytes(r) == {r.base}

\* The pages that memset64(alloc + HIGH_VMA, 0, cnt * PAGE_SIZE / 8) clears.
Zeroed(r) == Pages(r)

\* pmm_alloc clears the run after the lock is gone and returns it.
Zero(c) ==
  /\ pc[c] = "zero"
  /\ dirty' = dirty \ Zeroed(run[c])
  /\ held' = held \cup {run[c]}
  /\ run' = [run EXCEPT ![c] = NoRange]
  /\ mod' = [mod EXCEPT ![c] = 1]
  /\ req' = [req EXCEPT ![c] = NoRequest]
  /\ pc' = [pc EXCEPT ![c] = "idle"]
  /\ UNCHANGED <<bitmap, last_free, lock, stray>>

\* Whoever was given a range writes to it.
Write ==
  /\ \E r \in held : dirty' = dirty \cup Pages(r)
  /\ UNCHANGED <<bitmap, last_free, lock, pc, mod, req, run, held, stray>>

(***************************************************************************)
(* pmm_free takes the first module whose base is not above the range and   *)
(* whose size is not below it; it does not compare the range with the end  *)
(* of the module.                                                          *)
(***************************************************************************)
FreeMatches(m, r) == r.base >= Base[m] /\ Base[m] + r.cnt <= Base[m] + Count[m]

IsFreeTarget(m, r) ==
  /\ FreeMatches(m, r)
  /\ \A n \in Modules : n < m => ~FreeMatches(n, r)

\* The owner gives a range back after its last writes to it.
Free(c) ==
  /\ pc[c] = "idle"
  /\ \E r \in held, m \in Modules :
       /\ IsFreeTarget(m, r)
       /\ held' = held \ {r}
       /\ run' = [run EXCEPT ![c] = r]
       /\ dirty' = dirty \cup Pages(r)
       /\ mod' = [mod EXCEPT ![c] = m]
  /\ pc' = [pc EXCEPT ![c] = "free"]
  /\ UNCHANGED <<bitmap, last_free, lock, req, stray>>

\* pmm_module_free: clear the bits and release.  The hint stays.
Clear(c) ==
  /\ pc[c] = "clear"
  /\ LET m == mod[c]
         bits == Bits(m, run[c])
     IN  /\ bitmap' = [bitmap EXCEPT ![m] = @ \ bits]
         /\ stray' = stray \cup ({m} \X {i \in bits : i >= Count[m]})
         /\ Unlock(m)
  /\ run' = [run EXCEPT ![c] = NoRange]
  /\ mod' = [mod EXCEPT ![c] = 1]
  /\ pc' = [pc EXCEPT ![c] = "idle"]
  /\ UNCHANGED <<last_free, req, held, dirty>>

Next ==
  \/ \E c \in Callers :
       \/ Request(c) \/ Lock(c) \/ ScanHit(c) \/ ScanMiss(c) \/ Commit(c)
       \/ Zero(c) \/ Free(c) \/ Clear(c)
  \/ Write

Spec == Init /\ [][Next]_vars

\* What a caller does inside pmm_alloc and pmm_free; entering them is the
\* kernel's choice.
Step(c) ==
  Lock(c) \/ ScanHit(c) \/ ScanMiss(c) \/ Commit(c) \/ Zero(c) \/ Clear(c)

\* A core that executes keeps executing.  The spinlock is a test-and-set
\* loop, so a waiting caller is not promised the lock: weak fairness only.
FairSpec == Spec /\ \A c \in Callers : WF_vars(Step(c))

-----------------------------------------------------------------------------
TypeOK ==
  /\ bitmap \in [Modules -> SUBSET Nat]
  /\ \A m \in Modules : bitmap[m] \subseteq 0 .. (Count[m] - 1)
  /\ last_free \in [Modules -> Nat]
  /\ lock \in [Modules -> Callers \cup {NoCaller}]
  /\ pc \in [Callers -> {"idle", "alloc", "scan", "commit", "zero", "free", "clear"}]
  /\ mod \in [Callers -> Modules]
  /\ req \in [Callers -> (Nat \ {0}) \X (Nat \ {0})]
  /\ run \in [Callers -> Ranges]
  /\ held \subseteq Ranges
  /\ dirty \subseteq Nat
  /\ stray \subseteq Modules \X Nat

\* Caller c has a range that is marked in a bitmap and not in held.
InHand(c) == pc[c] \in {"zero", "free", "clear"}

Disjoint(r, s) == Pages(r) \cap Pages(s) = {}

(***************************************************************************)
(* No page is given out twice: the ranges that pmm_alloc has returned, is  *)
(* about to return, or that pmm_free is taking back do not overlap.  It    *)
(* rests on pmm_module_alloc reading and writing the bitmap under one      *)
(* lock.  Once a clear has landed beyond a bitmap the metadata of later    *)
(* modules is unreliable and nothing is claimed.                           *)
(***************************************************************************)
NoDoubleHandout ==
  stray = {} =>
    /\ \A r, s \in held : r # s => Disjoint(r, s)
    /\ \A r \in held, c \in Callers : InHand(c) => Disjoint(r, run[c])
    /\ \A c, d \in Callers :
         c # d /\ InHand(c) /\ InHand(d) => Disjoint(run[c], run[d])

(***************************************************************************)
(* The root module neither leaks nor forges pages: a bit of its bitmap is  *)
(* set exactly when the page belongs to a range that somebody has.         *)
(***************************************************************************)
RootConserved ==
  \A i \in 0 .. (Count[1] - 1) :
    i \in bitmap[1] <=>
      \/ \E r \in held : Base[1] + i \in Pages(r)
      \/ \E c \in Callers : InHand(c) /\ Base[1] + i \in Pages(run[c])

(***************************************************************************)
(* last_free never hides a free page from a one-page request: when the     *)
(* scan of pmm_alloc(1, 1) finds nothing in a module, the module is full.  *)
(* pmm_free does not move the hint back, so this is not obvious.           *)
(***************************************************************************)
SinglePageComplete ==
  \A c \in Callers :
    pc[c] = "scan" /\ req[c] = <<1, 1>> /\ Candidates(mod[c], 1, 1) = {}
      => bitmap[mod[c]] = 0 .. (Count[mod[c]] - 1)

(***************************************************************************)
(* The address pmm_module_alloc returns is a multiple of the alignment and *)
(* the whole run is inside the module, whatever the hint was; alloc_base   *)
(* and the bit index are advanced separately in the code.                  *)
(***************************************************************************)
Placement ==
  \A c \in Callers :
    pc[c] \in {"commit", "zero"} =>
      /\ InModule(mod[c], run[c])
      /\ run[c].base % req[c][2] = 0
      /\ run[c].cnt = req[c][1]

(***************************************************************************)
(* pmm_free clears a bit outside a bitmap only for a range of a module     *)
(* after the first: while all freed ranges come from the root module,      *)
(* every clear stays in the bitmap.  As a step property: a stray clear is  *)
(* made by a caller freeing a range that starts past the target module.    *)
(***************************************************************************)
StrayOnlyFromLaterModules ==
  [][stray' # stray =>
       \E c \in Callers : /\ pc[c] = "clear"
                          /\ run[c].base >= Base[1] + Count[1]
                          /\ mod[c] = 1 \/ ~InModule(mod[c], run[c])]_vars

(***************************************************************************)
(* A range comes back from pmm_alloc with every page zero, and clearing it *)
(* outside the lock never wipes a page somebody already has.               *)
(***************************************************************************)
ReturnedZeroed ==
  [][stray = {} =>
       /\ \A r \in held' \ held : Pages(r) \cap dirty' = {}
       /\ \A r \in held : Pages(r) \cap dirty \subseteq dirty']_vars

(***************************************************************************)
(* Every path through the allocator ends, the failing ones included, and   *)
(* releases the lock it took: callers cannot all be stuck inside it.       *)
(***************************************************************************)
SomeoneFinishes ==
  (\A c \in Callers : pc[c] # "idle") ~> (\E c \in Callers : pc[c] = "idle")

(***************************************************************************)
(* The allocator implements FrameAllocator: a range is in use from the     *)
(* moment its bits are set until its caller asks for it to be freed.       *)
(***************************************************************************)
Promise == INSTANCE FrameAllocator WITH
             inuse <- held \cup {run[c] : c \in {d \in Callers : pc[d] = "zero"}}

\* pmm_alloc and pmm_free keep the promise of FrameAllocator.
KeepsPromise == Promise!Spec
=============================================================================
