---------------------------- MODULE MemoryProofs ----------------------------
(***************************************************************************)
(* What physical.c and virtual.c keep up while the system runs.            *)
(*                                                                         *)
(* The page allocator (PhysicalMemory), for any number of callers, any     *)
(* module list and any set of requests.                                    *)
(*                                                                         *)
(* The kernel's half of the address spaces (KernelSpace), for every memory *)
(* map, every set of controllers and any number of contexts.  The          *)
(* inductive invariant Exact says what the tables are: all of them         *)
(* vmm_default_table's, and the kernel's own has the identity page while   *)
(* the cores start.                                                        *)
(***************************************************************************)
EXTENDS PhysicalMemory, KernelSpace, TLAPS

\* A caller is between spinlock and spinrelease.
Locking(c) == pc[c] \in {"scan", "commit", "clear"}

\* The lock word of a module names the caller that is inside.
LockInv ==
  \A c \in Callers, m \in Modules : lock[m] = c <=> mod[c] = m /\ Locking(c)

\* Page p is marked in the bitmap of the module it lies in.
Marked(p) ==
  \E m \in Modules : /\ Base[m] <= p /\ p < Base[m] + Count[m]
                     /\ p - Base[m] \in bitmap[m]

\* The run a scan has found is inside the module and still unmarked.
RunInv ==
  \A c \in Callers : pc[c] = "commit" =>
    /\ InModule(mod[c], run[c])
    /\ \A p \in Pages(run[c]) : ~Marked(p)

\* Every range somebody has lies in one module and is marked.
Placed(r) == /\ \E m \in Modules : InModule(m, r)
             /\ \A p \in Pages(r) : Marked(p)

CustodyInv ==
  /\ \A r \in held : Placed(r)
  /\ \A c \in Callers : InHand(c) => Placed(run[c])

\* Ranges of different owners do not overlap.
DistinctInv ==
  /\ \A r, s \in held : r # s => Disjoint(r, s)
  /\ \A r \in held, c \in Callers : InHand(c) => Disjoint(r, run[c])
  /\ \A c, d \in Callers :
       c # d /\ InHand(c) /\ InHand(d) => Disjoint(run[c], run[d])

\* pmm_free works on the module its search found.
TargetInv ==
  \A c \in Callers : pc[c] \in {"free", "clear"} => IsFreeTarget(mod[c], run[c])

\* The hint is 0 or names a clear bit of the bitmap.
HintInv ==
  \A m \in Modules :
    last_free[m] = 0 \/ last_free[m] \in (0 .. (Count[m] - 1)) \ bitmap[m]

IInv == /\ TypeOK /\ LockInv /\ RunInv /\ CustodyInv /\ DistinctInv
        /\ TargetInv /\ HintInv

-----------------------------------------------------------------------------
\* AllPages, the initial contents of dirty, holds page numbers only.
LEMMA AllPagesNat == AllPages \subseteq Nat
  BY ModulesAssumption DEF AllPages, Modules

\* What a caller's locals are reset to has the right type.
LEMMA RestTypes ==
  /\ 1 \in Modules
  /\ NoRange \in Ranges
  /\ NoRequest \in (Nat \ {0}) \X (Nat \ {0})
  BY ModulesAssumption DEF Modules, NoRange, NoRequest, Ranges

\* Rounding up never goes below the rounded value.
LEMMA AlignUpAbove ==
  ASSUME NEW x \in Nat, NEW a \in Nat \ {0}
  PROVE  AlignUp(x, a) \in Nat /\ AlignUp(x, a) >= x
<1>1. ASSUME NEW y \in Nat
      PROVE  /\ y \div a \in Nat
             /\ (y \div a) * a \in Nat
             /\ (y \div a) * a + a - 1 >= y
  BY SMTT(30)
<1> QED BY <1>1 DEF AlignUp

\* A run the scan finds starts at or after the hint, inside the module and
\* on clear bits.
LEMMA CandidateFits ==
  ASSUME TypeOK, NEW m \in Modules, NEW cnt \in Nat \ {0}, NEW align \in Nat \ {0},
         NEW i \in Candidates(m, cnt, align)
  PROVE  /\ i \in Nat /\ i >= last_free[m]
         /\ i + cnt <= Count[m]
         /\ \A j \in i .. (i + cnt - 1) : j \notin bitmap[m]
<1>1. Base[m] \in Nat /\ Count[m] \in Nat /\ last_free[m] \in Nat
  BY Zenon, ModulesAssumption DEF TypeOK
<1>2. BitBase(m, align) \in Int /\ BitBase(m, align) >= last_free[m]
  <2> DEFINE x == Base[m] + last_free[m]
  <2>1. x \in Nat
    BY <1>1
  <2>2. AlignUp(x, align) \in Nat /\ AlignUp(x, align) >= x
    BY Zenon, <2>1, AlignUpAbove
  <2>3. BitBase(m, align) = AlignUp(x, align) - Base[m]
    BY Zenon DEF BitBase
  <2> QED BY <1>1, <2>2, <2>3
<1> QED BY <1>1, <1>2 DEF Candidates

\* Setting the bits of a run marks exactly the pages of the run.
LEMMA CommitMarks ==
  ASSUME IInv, NEW c \in Callers, Commit(c), NEW p \in Nat
  PROVE  Marked(p)' <=> Marked(p) \/ p \in Pages(run[c])
<1> DEFINE m == mod[c]
<1>1. m \in Modules /\ InModule(m, run[c]) /\ run[c] \in Ranges
  BY Zenon DEF IInv, TypeOK, RunInv, Commit
<1>2. bitmap' = [bitmap EXCEPT ![m] = bitmap[m] \cup Bits(m, run[c])]
  BY Zenon DEF Commit
<1>3. \A i \in Int : i \in Bits(m, run[c]) <=> Base[m] + i \in Pages(run[c])
  BY <1>1, ModulesAssumption DEF Bits, Pages, Ranges
<1>4. ASSUME NEW n \in Modules
      PROVE  p - Base[n] \in bitmap'[n]
               <=> p - Base[n] \in bitmap[n] \/ (n = m /\ p \in Pages(run[c]))
  <2>1. Base[n] \in Nat /\ Base[n] + (p - Base[n]) = p
    BY ModulesAssumption
  <2>2. CASE n = m
    BY <1>1, <1>2, <1>3, <2>1, <2>2 DEF IInv, TypeOK
  <2>3. CASE n # m
    BY Zenon, <1>1, <1>2, <2>3 DEF IInv, TypeOK
  <2> QED BY Zenon, <2>2, <2>3
<1>5. p \in Pages(run[c]) => Base[m] <= p /\ p < Base[m] + Count[m]
  BY <1>1, ModulesAssumption DEF Pages, InModule, Ranges
<1> QED BY Zenon, <1>1, <1>4, <1>5 DEF Marked

\* Clearing the bits of a run unmarks no page outside the run.
LEMMA ClearKeeps ==
  ASSUME IInv, NEW c \in Callers, Clear(c), NEW p \in Nat,
         p \notin Pages(run[c]), Marked(p)
  PROVE  Marked(p)'
<1> DEFINE m == mod[c]
<1>1. m \in Modules /\ run[c] \in Ranges
  BY Zenon DEF IInv, TypeOK
<1>2. bitmap' = [bitmap EXCEPT ![m] = bitmap[m] \ Bits(m, run[c])]
  BY Zenon DEF Clear
<1>3. p - Base[m] \notin Bits(m, run[c])
  BY <1>1, ModulesAssumption DEF Bits, Pages, Ranges
<1>4. PICK n \in Modules : /\ Base[n] <= p /\ p < Base[n] + Count[n]
                           /\ p - Base[n] \in bitmap[n]
  BY Zenon DEF Marked
<1>5. p - Base[n] \in bitmap'[n]
  BY Zenon, <1>1, <1>2, <1>3, <1>4 DEF IInv, TypeOK
<1> QED BY Zenon, <1>4, <1>5 DEF Marked

-----------------------------------------------------------------------------
\* The page allocator's variables keep their types.
LEMMA TypeStep == IInv /\ [Next]_vars => TypeOK'
<1> SUFFICES ASSUME IInv, [Next]_vars PROVE TypeOK'
  BY Zenon
<1> USE ModulesAssumption, CallersAssumption
<1>1. ASSUME NEW c \in Callers, Request(c) PROVE TypeOK'
  <2>1. PICK q \in (Nat \ {0}) \X (Nat \ {0}) : req' = [req EXCEPT ![c] = q]
    BY ZenonT(60), <1>1 DEF Request
  <2> QED BY Zenon, <1>1, <2>1, RestTypes DEF IInv, TypeOK, Request
<1>2. ASSUME NEW c \in Callers, Lock(c) PROVE TypeOK'
  BY Zenon, <1>2 DEF IInv, TypeOK, Lock
<1>3. ASSUME NEW c \in Callers, ScanHit(c) PROVE TypeOK'
  <2>1. PICK i \in Candidates(mod[c], req[c][1], req[c][2]) :
          run' = [run EXCEPT ![c] = [base |-> Base[mod[c]] + i, cnt |-> req[c][1]]]
    BY ZenonT(60), <1>3 DEF ScanHit
  <2>2. mod[c] \in Modules /\ req[c] \in (Nat \ {0}) \X (Nat \ {0})
    BY Zenon DEF IInv, TypeOK
  <2>3. [base |-> Base[mod[c]] + i, cnt |-> req[c][1]] \in Ranges
    BY SMTT(30), <2>2, CandidateFits DEF IInv, Ranges
  <2> QED BY Zenon, <1>3, <2>1, <2>3 DEF IInv, TypeOK, ScanHit
<1>4. ASSUME NEW c \in Callers, ScanMiss(c) PROVE TypeOK'
  <2>1. CASE mod[c] < NumModules
    <3>1. /\ mod' = [mod EXCEPT ![c] = mod[c] + 1]
          /\ pc' = [pc EXCEPT ![c] = "alloc"]
          /\ req' = req
      BY Zenon, <1>4, <2>1 DEF ScanMiss, IInv, TypeOK
    <3>2. mod[c] \in Modules
      BY Zenon DEF IInv, TypeOK
    <3>3. mod[c] + 1 \in Modules
      BY SMTT(30), <2>1, <3>2 DEF Modules
    <3> QED BY Zenon, <1>4, <3>1, <3>3 DEF IInv, TypeOK, ScanMiss, Unlock
  <2>2. CASE ~(mod[c] < NumModules)
    <3>1. /\ mod' = [mod EXCEPT ![c] = 1]
          /\ pc' = [pc EXCEPT ![c] = "idle"]
          /\ req' = [req EXCEPT ![c] = NoRequest]
      BY Zenon, <1>4, <2>2 DEF ScanMiss
    <3> QED BY <1>4, <3>1, RestTypes DEF IInv, TypeOK, ScanMiss, Unlock
  <2> QED BY Zenon, <2>1, <2>2
<1>5. ASSUME NEW c \in Callers, Commit(c) PROVE TypeOK'
  <2> DEFINE m == mod[c]
  <2>1. m \in Modules /\ run[c] \in Ranges /\ InModule(m, run[c])
    BY Zenon, <1>5 DEF IInv, TypeOK, RunInv, Commit
  <2>2. Bits(m, run[c]) \subseteq 0 .. (Count[m] - 1)
    BY <2>1 DEF Bits, Pages, InModule, Ranges
  <2>3. bitmap' = [bitmap EXCEPT ![m] = bitmap[m] \cup Bits(m, run[c])]
    BY Zenon, <1>5 DEF Commit
  <2>4. /\ bitmap' \in [Modules -> SUBSET Nat]
        /\ \A n \in Modules : bitmap'[n] \subseteq 0 .. (Count[n] - 1)
    BY <2>1, <2>2, <2>3 DEF IInv, TypeOK
  <2>5. PICK h \in Nat : last_free' = [last_free EXCEPT ![m] = h]
    <3>1. Count[m] \in Nat
      BY Zenon, <2>1
    <3>2. 0 .. (Count[m] - 1) \subseteq Nat
      BY <3>1
    <3> QED BY ZenonT(60), <3>2, <1>5 DEF Commit
  <2> QED BY Zenon, <1>5, <2>4, <2>5 DEF IInv, TypeOK, Commit, Unlock
<1>6. ASSUME NEW c \in Callers, Zero(c) PROVE TypeOK'
  <2>1. held' \subseteq Ranges
    BY <1>6 DEF IInv, TypeOK, Zero
  <2>2. dirty' \subseteq Nat
    BY ZenonT(60), <1>6 DEF IInv, TypeOK, Zero
  <2>3. req' \in [Callers -> (Nat \ {0}) \X (Nat \ {0})]
    BY Zenon, <1>6, RestTypes DEF IInv, TypeOK, Zero
  <2> QED BY Zenon, <1>6, <2>1, <2>2, <2>3, RestTypes DEF IInv, TypeOK, Zero
<1>7. ASSUME NEW c \in Callers, Free(c) PROVE TypeOK'
  <2>1. PICK r \in held, m \in Modules :
          /\ held' = held \ {r}
          /\ run' = [run EXCEPT ![c] = r]
          /\ dirty' = dirty \cup Pages(r)
          /\ mod' = [mod EXCEPT ![c] = m]
    BY ZenonT(60), <1>7 DEF Free
  <2>2. Pages(r) \subseteq Nat /\ r \in Ranges
    BY DEF IInv, TypeOK, Pages, Ranges
  <2> QED BY ZenonT(60), <1>7, <2>1, <2>2 DEF IInv, TypeOK, Free
<1>8. ASSUME NEW c \in Callers, Clear(c) PROVE TypeOK'
  <2> DEFINE m == mod[c]
  <2>1. m \in Modules /\ run[c] \in Ranges
    BY Zenon DEF IInv, TypeOK
  <2>2. bitmap' = [bitmap EXCEPT ![m] = bitmap[m] \ Bits(m, run[c])]
    BY Zenon, <1>8 DEF Clear
  <2>3. /\ bitmap' \in [Modules -> SUBSET Nat]
        /\ \A n \in Modules : bitmap'[n] \subseteq 0 .. (Count[n] - 1)
    BY Zenon, <2>1, <2>2 DEF IInv, TypeOK
  <2>4. Bits(m, run[c]) \subseteq Int
    BY <2>1 DEF Bits, Pages, Ranges
  <2>5. stray' \subseteq Modules \X Nat
    BY <1>8, <2>1, <2>4 DEF IInv, TypeOK, Clear
  <2>6. NoRange \in Ranges /\ 1 \in Modules
    BY DEF NoRange, Ranges, Modules
  <2> QED BY Zenon, <1>8, <2>3, <2>5, <2>6 DEF IInv, TypeOK, Clear, Unlock
<1>9. CASE Write
  <2>1. PICK r \in held : dirty' = dirty \cup Pages(r)
    BY Zenon, <1>9 DEF Write
  <2>2. Pages(r) \subseteq Nat
    BY DEF IInv, TypeOK, Pages, Ranges
  <2> QED BY ZenonT(60), <1>9, <2>1, <2>2 DEF IInv, TypeOK, Write
<1>10. CASE UNCHANGED vars
  BY Zenon, <1>10 DEF IInv, TypeOK, vars
<1> QED BY Zenon, <1>1, <1>2, <1>3, <1>4, <1>5, <1>6, <1>7, <1>8, <1>9, <1>10 DEF Next

-----------------------------------------------------------------------------
\* A lock word names the one caller inside the module.
LEMMA LockStep == IInv /\ [Next]_vars => LockInv'
<1> SUFFICES ASSUME IInv, [Next]_vars PROVE LockInv'
  BY Zenon
<1> USE CallersAssumption DEF LockInv, Locking
<1>1. ASSUME NEW c \in Callers, Request(c) PROVE LockInv'
  BY <1>1 DEF IInv, TypeOK, Request
<1>2. ASSUME NEW c \in Callers, Lock(c) PROVE LockInv'
  BY <1>2 DEF IInv, TypeOK, Lock
<1>3. ASSUME NEW c \in Callers, ScanHit(c) PROVE LockInv'
  BY <1>3 DEF IInv, TypeOK, ScanHit
<1>4. ASSUME NEW c \in Callers, ScanMiss(c) PROVE LockInv'
  BY <1>4 DEF IInv, TypeOK, ScanMiss, Unlock
<1>5. ASSUME NEW c \in Callers, Commit(c) PROVE LockInv'
  BY <1>5 DEF IInv, TypeOK, Commit, Unlock
<1>6. ASSUME NEW c \in Callers, Zero(c) PROVE LockInv'
  BY <1>6 DEF IInv, TypeOK, Zero
<1>7. ASSUME NEW c \in Callers, Free(c) PROVE LockInv'
  BY <1>7 DEF IInv, TypeOK, Free
<1>8. ASSUME NEW c \in Callers, Clear(c) PROVE LockInv'
  BY <1>8 DEF IInv, TypeOK, Clear, Unlock
<1>9. CASE Write
  BY <1>9 DEF IInv, Write
<1>10. CASE UNCHANGED vars
  BY <1>10 DEF IInv, vars
<1> QED BY Zenon, <1>1, <1>2, <1>3, <1>4, <1>5, <1>6, <1>7, <1>8, <1>9, <1>10 DEF Next

\* pmm_free keeps working on the module its search found.
LEMMA TargetStep == IInv /\ [Next]_vars => TargetInv'
<1> SUFFICES ASSUME IInv, [Next]_vars PROVE TargetInv'
  BY Zenon
<1> USE DEF TargetInv, IInv, TypeOK
<1>1. ASSUME NEW c \in Callers, Request(c) PROVE TargetInv'
  BY Zenon, <1>1 DEF Request
<1>2. ASSUME NEW c \in Callers, Lock(c) PROVE TargetInv'
  BY Zenon, <1>2 DEF Lock
<1>3. ASSUME NEW c \in Callers, ScanHit(c) PROVE TargetInv'
  BY Zenon, <1>3 DEF ScanHit
<1>4. ASSUME NEW c \in Callers, ScanMiss(c) PROVE TargetInv'
  BY SMTT(30), <1>4 DEF ScanMiss
<1>5. ASSUME NEW c \in Callers, Commit(c) PROVE TargetInv'
  BY Zenon, <1>5 DEF Commit
<1>6. ASSUME NEW c \in Callers, Zero(c) PROVE TargetInv'
  BY Zenon, <1>6 DEF Zero
<1>7. ASSUME NEW c \in Callers, Free(c) PROVE TargetInv'
  BY Zenon, <1>7 DEF Free
<1>8. ASSUME NEW c \in Callers, Clear(c) PROVE TargetInv'
  BY Zenon, <1>8 DEF Clear
<1>9. CASE Write
  BY Zenon, <1>9 DEF Write
<1>10. CASE UNCHANGED vars
  BY Zenon, <1>10 DEF vars
<1> QED BY Zenon, <1>1, <1>2, <1>3, <1>4, <1>5, <1>6, <1>7, <1>8, <1>9, <1>10 DEF Next

\* The hint is recomputed under the lock by every allocation, and a free
\* can only clear bits.
LEMMA HintStep == IInv /\ [Next]_vars => HintInv'
<1> SUFFICES ASSUME IInv, [Next]_vars PROVE HintInv'
  BY Zenon
<1>1. ASSUME NEW c \in Callers, Commit(c) PROVE HintInv'
  <2> DEFINE m == mod[c]
             bits == bitmap[m] \cup Bits(m, run[c])
             last == run[c].base + run[c].cnt - 1 - Base[m]
  <2>1. m \in Modules /\ run[c] \in Ranges /\ InModule(m, run[c])
    BY Zenon, <1>1 DEF IInv, TypeOK, RunInv, Commit
  <2>2. Base[m] \in Nat /\ Count[m] \in Nat /\ last \in Nat
    BY <2>1, ModulesAssumption DEF InModule, Ranges
  <2>3. PICK h \in 0 .. (Count[m] - 1) :
          /\ NextFree(m, bits, last, h)
          /\ last_free' = [last_free EXCEPT ![m] = h]
    BY ZenonT(60), <1>1 DEF Commit
  <2>4. h = 0 \/ h \notin bits
    BY Zenon, <2>2, <2>3 DEF NextFree
  <2>5. bitmap' = [bitmap EXCEPT ![m] = bits]
    BY Zenon, <1>1 DEF Commit
  <2> QED BY <2>1, <2>3, <2>4, <2>5 DEF HintInv, IInv, TypeOK
<1>2. ASSUME NEW c \in Callers, Clear(c) PROVE HintInv'
  <2>1. last_free' = last_free
    BY Zenon, <1>2 DEF Clear
  <2>2. \A m \in Modules : bitmap'[m] \subseteq bitmap[m]
    BY Zenon, <1>2 DEF Clear, IInv, TypeOK
  <2> QED BY Zenon, <2>1, <2>2 DEF HintInv, IInv
<1>3. CASE UNCHANGED <<bitmap, last_free>>
  BY Zenon, <1>3 DEF HintInv, IInv
<1> QED BY Zenon, <1>1, <1>2, <1>3
        DEF Next, Request, Lock, ScanHit, ScanMiss, Zero, Free, Write, vars

-----------------------------------------------------------------------------
\* Ranges of different modules do not overlap.
LEMMA ModulesApart ==
  ASSUME NEW m \in Modules, NEW n \in Modules, m # n,
         NEW r \in Ranges, NEW s \in Ranges, InModule(m, r), InModule(n, s)
  PROVE  Disjoint(r, s)
<1>1. m < n \/ n < m
  BY ModulesAssumption DEF Modules
<1>2. Base[m] + Count[m] <= Base[n] \/ Base[n] + Count[n] <= Base[m]
  BY Zenon, <1>1, ModulesAssumption
<1> QED BY <1>2, ModulesAssumption DEF Disjoint, Pages, InModule, Ranges

\* Clearing bits marks no new page.
LEMMA ClearOnlyUnmarks ==
  ASSUME IInv, NEW c \in Callers, Clear(c), NEW p, Marked(p)'
  PROVE  Marked(p)
<1>1. \A m \in Modules : bitmap'[m] \subseteq bitmap[m]
  BY Zenon DEF Clear, IInv, TypeOK
<1> QED BY Zenon, <1>1 DEF Marked

\* A found run stays unmarked until its caller commits it: the module's
\* lock keeps the other callers out.
LEMMA RunStep == IInv /\ [Next]_vars => RunInv'
<1> SUFFICES ASSUME IInv, [Next]_vars, NEW d \in Callers, pc'[d] = "commit"
             PROVE  /\ InModule(mod'[d], run'[d])
                    /\ \A p \in Pages(run'[d]) : ~Marked(p)'
  BY Zenon DEF RunInv, InModule
<1> DEFINE Goal == /\ InModule(mod'[d], run'[d])
                   /\ \A p \in Pages(run'[d]) : ~Marked(p)'
<1>1. ASSUME bitmap' = bitmap, mod'[d] = mod[d], run'[d] = run[d], pc[d] = "commit"
      PROVE  Goal
  BY Zenon, <1>1 DEF IInv, RunInv, Marked, InModule
<1>2. ASSUME NEW c \in Callers, ScanHit(c) PROVE Goal
  <2>1. CASE c # d
    BY Zenon, <1>1, <1>2, <2>1 DEF ScanHit, IInv, TypeOK
  <2>2. CASE c = d
    <3> DEFINE m == mod[c]
    <3>1. PICK i \in Candidates(m, req[c][1], req[c][2]) :
            run' = [run EXCEPT ![c] = [base |-> Base[m] + i, cnt |-> req[c][1]]]
      BY ZenonT(60), <1>2 DEF ScanHit
    <3>2. m \in Modules /\ req[c][1] \in Nat \ {0} /\ req[c][2] \in Nat \ {0}
      BY Zenon DEF IInv, TypeOK
    <3>3. /\ i \in Nat /\ i + req[c][1] <= Count[m]
          /\ \A j \in i .. (i + req[c][1] - 1) : j \notin bitmap[m]
      BY Zenon, <3>2, CandidateFits DEF IInv
    <3>4. /\ run'[d].base = Base[m] + i /\ run'[d].cnt = req[c][1]
          /\ mod' = mod /\ bitmap' = bitmap
      BY <1>2, <2>2, <3>1 DEF ScanHit, IInv, TypeOK
    <3>5. Base[m] \in Nat /\ Count[m] \in Nat
      BY Zenon, <3>2, ModulesAssumption
    <3>6. InModule(mod'[d], run'[d])
      BY <2>2, <3>2, <3>3, <3>4, <3>5 DEF InModule
    <3>7. ASSUME NEW p \in Pages(run'[d]), Marked(p)' PROVE FALSE
      <4>1. p \in Nat /\ p - Base[m] \in i .. (i + req[c][1] - 1)
        BY SMTT(30), <3>2, <3>3, <3>4, <3>5, <3>7 DEF Pages
      <4>2. PICK n \in Modules : /\ Base[n] <= p /\ p < Base[n] + Count[n]
                                 /\ p - Base[n] \in bitmap[n]
        BY Zenon, <3>4, <3>7 DEF Marked
      <4>3. Base[m] <= p /\ p < Base[m] + Count[m]
        BY SMTT(30), <3>2, <3>3, <3>5, <4>1
      <4>4. n = m
        <5>1. n < m \/ n = m \/ m < n
          BY <3>2, ModulesAssumption DEF Modules
        <5>2. Base[n] \in Nat /\ Count[n] \in Nat
          BY Zenon, ModulesAssumption
        <5> QED BY <5>1, <5>2, <3>2, <3>5, <4>1, <4>2, <4>3, ModulesAssumption
      <4> QED BY Zenon, <3>3, <4>1, <4>2, <4>4
    <3> QED BY Zenon, <3>6, <3>7
  <2> QED BY Zenon, <2>1, <2>2
<1>3. ASSUME NEW c \in Callers, Commit(c) PROVE Goal
  <2>1. c # d /\ pc[d] = "commit" /\ pc[c] = "commit" /\ mod' = mod /\ run' = run
    BY Zenon, <1>3 DEF Commit, IInv, TypeOK
  <2>2. mod[c] \in Modules /\ mod[d] \in Modules /\ run[c] \in Ranges /\ run[d] \in Ranges
    BY Zenon DEF IInv, TypeOK
  <2>3. mod[c] # mod[d]
    BY <2>1, <2>2 DEF IInv, LockInv, Locking
  <2>4. InModule(mod[c], run[c]) /\ InModule(mod[d], run[d])
    BY Zenon, <2>1 DEF IInv, RunInv
  <2>5. Disjoint(run[c], run[d])
    BY Zenon, <2>2, <2>3, <2>4, ModulesApart
  <2>6. ASSUME NEW p \in Pages(run[d]) PROVE ~Marked(p)'
    <3>1. p \in Nat
      BY <2>2 DEF Pages, Ranges
    <3>2. ~Marked(p)
      BY Zenon, <2>1 DEF IInv, RunInv
    <3>3. p \notin Pages(run[c])
      BY Zenon, <2>5 DEF Disjoint
    <3> QED BY Zenon, <1>3, <3>1, <3>2, <3>3, CommitMarks
  <2> QED BY Zenon, <2>1, <2>4, <2>6
<1>4. ASSUME NEW c \in Callers, Clear(c) PROVE Goal
  <2>1. c # d /\ pc[d] = "commit" /\ mod'[d] = mod[d] /\ run'[d] = run[d]
    BY Zenon, <1>4 DEF Clear, IInv, TypeOK
  <2>2. \A p : Marked(p)' => Marked(p)
    BY Zenon, <1>4, ClearOnlyUnmarks
  <2> QED BY Zenon, <2>1, <2>2 DEF IInv, RunInv, InModule
<1>5. ASSUME NEW c \in Callers,
             Request(c) \/ Lock(c) \/ ScanMiss(c) \/ Zero(c) \/ Free(c)
      PROVE  Goal
  <2>1. c # d /\ pc[d] = "commit" /\ bitmap' = bitmap
    BY <1>5 DEF Request, Lock, ScanMiss, Zero, Free, IInv, TypeOK
  <2>2. mod'[d] = mod[d] /\ run'[d] = run[d]
    BY <1>5, <2>1 DEF Request, Lock, ScanMiss, Zero, Free, IInv, TypeOK
  <2> QED BY Zenon, <1>1, <2>1, <2>2
<1>6. CASE Write
  BY Zenon, <1>1, <1>6 DEF Write
<1>7. CASE UNCHANGED vars
  BY ZenonT(60), <1>1, <1>7 DEF vars
<1> QED BY Zenon, <1>2, <1>3, <1>4, <1>5, <1>6, <1>7 DEF Next

-----------------------------------------------------------------------------
\* The pages of a range are page numbers.
LEMMA PagesNat ==
  ASSUME NEW r \in Ranges PROVE Pages(r) \subseteq Nat
  BY DEF Pages, Ranges

\* A range somebody has stays marked until its own bits are cleared.
LEMMA CustodyStep == IInv /\ [Next]_vars => CustodyInv'
<1> SUFFICES ASSUME IInv, [Next]_vars PROVE CustodyInv'
  BY Zenon
<1>0. ASSUME NEW r, Placed(r), bitmap' = bitmap PROVE Placed(r)'
  BY Zenon, <1>0 DEF Placed, Marked, InModule
<1>1. ASSUME NEW c \in Callers, Commit(c) PROVE CustodyInv'
  <2>1. \A r \in Ranges : Placed(r) => \A p \in Pages(r) : Marked(p)'
    BY Zenon, <1>1, CommitMarks, PagesNat DEF Placed
  <2>2. run[c] \in Ranges /\ mod[c] \in Modules /\ InModule(mod[c], run[c])
    BY Zenon, <1>1 DEF Commit, IInv, RunInv, TypeOK
  <2>3. \A p \in Pages(run[c]) : Marked(p)'
    BY Zenon, <1>1, <2>2, CommitMarks, PagesNat
  <2>4. run' = run
    BY Zenon, <1>1 DEF Commit
  <2>5. ASSUME NEW d \in Callers, InHand(d)' PROVE Placed(run[d])'
    <3>2. CASE d = c
      BY Zenon, <2>2, <2>3, <2>4, <3>2 DEF Placed, InModule
    <3>3. CASE d # c
      <4>1. InHand(d) /\ run[d] \in Ranges
        BY Zenon, <1>1, <2>5, <3>3 DEF Commit, InHand, IInv, TypeOK
      <4>2. Placed(run[d])
        BY Zenon, <4>1 DEF IInv, CustodyInv
      <4> QED BY Zenon, <2>1, <2>4, <4>1, <4>2 DEF Placed, InModule
    <3> QED BY Zenon, <3>2, <3>3
  <2>6. \A r \in held' : Placed(r)'
    BY Zenon, <1>1, <2>1 DEF Commit, IInv, CustodyInv, TypeOK, Placed, InModule
  <2> QED BY Zenon, <2>5, <2>6 DEF CustodyInv
<1>2. ASSUME NEW c \in Callers, Clear(c) PROVE CustodyInv'
  <2>1. ASSUME NEW r \in Ranges, Placed(r), Disjoint(r, run[c]), NEW p \in Pages(r)
        PROVE  Marked(p)'
    <3>1. p \in Nat /\ p \notin Pages(run[c]) /\ Marked(p)
      BY Zenon, <2>1, PagesNat DEF Placed, Disjoint
    <3> QED BY Zenon, <1>2, <3>1, ClearKeeps
  <2>2. InHand(c) /\ held' = held /\ ~InHand(c)'
    BY Zenon, <1>2 DEF Clear, InHand, IInv, TypeOK
  <2>3. \A r \in held' : Placed(r)'
    BY Zenon, <2>1, <2>2 DEF IInv, CustodyInv, DistinctInv, TypeOK, Placed, InModule
  <2>4. ASSUME NEW d \in Callers, InHand(d)' PROVE Placed(run[d])'
    <3>1. d # c /\ InHand(d) /\ run'[d] = run[d] /\ run[d] \in Ranges
      BY Zenon, <1>2, <2>2, <2>4 DEF Clear, InHand, IInv, TypeOK
    <3>2. Placed(run[d]) /\ Disjoint(run[d], run[c])
      BY Zenon, <2>2, <3>1 DEF IInv, CustodyInv, DistinctInv
    <3> QED BY Zenon, <2>1, <3>1, <3>2 DEF Placed, InModule
  <2> QED BY Zenon, <2>3, <2>4 DEF CustodyInv
<1>3. ASSUME NEW c \in Callers, Zero(c) PROVE CustodyInv'
  <2>1. InHand(c) /\ ~InHand(c)' /\ bitmap' = bitmap /\ held' = held \cup {run[c]}
    BY Zenon, <1>3 DEF Zero, InHand, IInv, TypeOK
  <2>2. \A d \in Callers : InHand(d)' => InHand(d) /\ run'[d] = run[d]
    BY Zenon, <1>3, <2>1 DEF Zero, InHand, IInv, TypeOK
  <2> QED BY Zenon, <1>0, <2>1, <2>2 DEF IInv, CustodyInv
<1>4. ASSUME NEW c \in Callers, Free(c) PROVE CustodyInv'
  <2>1. PICK r \in held : held' = held \ {r} /\ run' = [run EXCEPT ![c] = r]
    BY ZenonT(60), <1>4 DEF Free
  <2>2. bitmap' = bitmap
    BY Zenon, <1>4 DEF Free
  <2>3. \A d \in Callers : InHand(d)' => run'[d] = r \/ (InHand(d) /\ run'[d] = run[d])
    BY Zenon, <1>4, <2>1 DEF Free, InHand, IInv, TypeOK
  <2> QED BY Zenon, <1>0, <2>1, <2>2, <2>3 DEF IInv, CustodyInv
<1>5. ASSUME NEW c \in Callers, Request(c) \/ Lock(c) \/ ScanHit(c) \/ ScanMiss(c)
      PROVE  CustodyInv'
  <2>1. bitmap' = bitmap /\ held' = held
    BY Zenon, <1>5 DEF Request, Lock, ScanHit, ScanMiss
  <2>2. \A d \in Callers : InHand(d)' => InHand(d) /\ run'[d] = run[d]
    BY <1>5 DEF Request, Lock, ScanHit, ScanMiss, InHand, IInv, TypeOK
  <2> QED BY Zenon, <1>0, <2>1, <2>2 DEF IInv, CustodyInv
<1>6. CASE UNCHANGED <<bitmap, held, run, pc>>
  BY Zenon, <1>0, <1>6 DEF IInv, CustodyInv, InHand
<1> QED BY Zenon, <1>1, <1>2, <1>3, <1>4, <1>5, <1>6 DEF Next, Write, vars

\* A run comes from unmarked pages, and whatever somebody has is marked.
LEMMA DistinctStep == IInv /\ [Next]_vars => DistinctInv'
<1> SUFFICES ASSUME IInv, [Next]_vars PROVE DistinctInv'
  BY Zenon
<1>1. ASSUME NEW c \in Callers, Commit(c) PROVE DistinctInv'
  <2>1. ASSUME NEW r, Placed(r) PROVE Disjoint(r, run[c]) /\ Disjoint(run[c], r)
    BY Zenon, <1>1, <2>1 DEF Placed, Disjoint, IInv, RunInv, Commit
  <2>2. held' = held /\ run' = run
    BY Zenon, <1>1 DEF Commit
  <2>3. \A d \in Callers : InHand(d)' => d = c \/ InHand(d)
    BY Zenon, <1>1 DEF Commit, InHand, IInv, TypeOK
  <2> QED BY Zenon, <2>1, <2>2, <2>3 DEF DistinctInv, CustodyInv, IInv, Disjoint
<1>2. ASSUME NEW c \in Callers, Zero(c) PROVE DistinctInv'
  <2>1. InHand(c) /\ ~InHand(c)' /\ held' = held \cup {run[c]}
    BY Zenon, <1>2 DEF Zero, InHand, IInv, TypeOK
  <2>2. \A d \in Callers : InHand(d)' => d # c /\ InHand(d) /\ run'[d] = run[d]
    BY Zenon, <1>2, <2>1 DEF Zero, InHand, IInv, TypeOK
  <2> QED BY SMTT(40), <2>1, <2>2 DEF DistinctInv, IInv, Disjoint
<1>3. ASSUME NEW c \in Callers, Free(c) PROVE DistinctInv'
  <2>1. PICK r \in held : held' = held \ {r} /\ run' = [run EXCEPT ![c] = r]
    BY ZenonT(60), <1>3 DEF Free
  <2>2. ~InHand(c) /\ run'[c] = r
    BY Zenon, <1>3, <2>1 DEF Free, InHand, IInv, TypeOK
  <2>3. \A d \in Callers : InHand(d)' => d = c \/ (InHand(d) /\ run'[d] = run[d])
    BY Zenon, <1>3, <2>1 DEF Free, InHand, IInv, TypeOK
  <2> QED BY <2>1, <2>2, <2>3 DEF DistinctInv, IInv, Disjoint
<1>4. ASSUME NEW c \in Callers,
             Request(c) \/ Lock(c) \/ ScanHit(c) \/ ScanMiss(c) \/ Clear(c)
      PROVE  DistinctInv'
  <2>1. held' = held
    BY Zenon, <1>4 DEF Request, Lock, ScanHit, ScanMiss, Clear
  <2>2. \A d \in Callers : InHand(d)' => InHand(d) /\ run'[d] = run[d]
    BY SMTT(40), <1>4 DEF Request, Lock, ScanHit, ScanMiss, Clear, InHand, IInv, TypeOK
  <2> QED BY Zenon, <2>1, <2>2 DEF IInv, DistinctInv
<1>5. CASE UNCHANGED <<held, run, pc>>
  BY Zenon, <1>5 DEF IInv, DistinctInv, InHand
<1> QED BY Zenon, <1>1, <1>2, <1>3, <1>4, <1>5 DEF Next, Write, vars

-----------------------------------------------------------------------------
\* The inductive invariant holds in every reachable state.
THEOREM Inductive == Spec => []IInv
<1>1. Init => IInv
  <2> SUFFICES ASSUME Init PROVE IInv
    BY Zenon
  <2>1. TypeOK
    BY Zenon, AllPagesNat, RestTypes, ModulesAssumption DEF Init, TypeOK
  <2>2. LockInv
    BY Zenon, CallersAssumption DEF Init, LockInv, Locking
  <2>3. RunInv /\ CustodyInv /\ DistinctInv /\ TargetInv
    BY Zenon DEF Init, RunInv, CustodyInv, DistinctInv, TargetInv, InHand
  <2>4. HintInv
    BY Zenon DEF Init, HintInv
  <2> QED BY Zenon, <2>1, <2>2, <2>3, <2>4 DEF IInv
<1>2. IInv /\ [Next]_vars => IInv'
  BY Zenon, TypeStep, LockStep, RunStep, CustodyStep, DistinctStep, TargetStep, HintStep
     DEF IInv
<1> QED BY <1>1, <1>2, PTL DEF Spec

\* Every variable of the page allocator keeps its type.
THEOREM TypeCorrect == Spec => []TypeOK
<1>1. IInv => TypeOK
  BY Zenon DEF IInv
<1> QED BY <1>1, Inductive, PTL

\* pmm_alloc never gives a page to two owners, whatever the interleaving of
\* its callers, the module list and the mix of requests.
THEOREM HandoutExclusive == Spec => []NoDoubleHandout
<1>1. IInv => NoDoubleHandout
  BY Zenon DEF IInv, DistinctInv, NoDoubleHandout
<1> QED BY <1>1, Inductive, PTL

\* A one-page request misses in a module only when the module is full:
\* last_free is 0 or names a free page, although pmm_free ignores it.
THEOREM HintComplete == Spec => []SinglePageComplete
<1>1. IInv => SinglePageComplete
  <2> SUFFICES ASSUME IInv, NEW c \in Callers, Candidates(mod[c], 1, 1) = {}
               PROVE  bitmap[mod[c]] = 0 .. (Count[mod[c]] - 1)
    BY Zenon DEF SinglePageComplete
  <2> DEFINE m == mod[c]
  <2>1. m \in Modules /\ bitmap[m] \subseteq 0 .. (Count[m] - 1)
    BY Zenon DEF IInv, TypeOK
  <2>2. Base[m] \in Nat /\ Count[m] \in Nat /\ last_free[m] \in Nat
    BY Zenon, <2>1, ModulesAssumption DEF IInv, TypeOK
  <2>3. BitBase(m, 1) = last_free[m]
    BY <2>2 DEF BitBase, AlignUp
  <2>4. \A i \in last_free[m] .. (Count[m] - 1) : i \in bitmap[m]
    BY <2>2, <2>3 DEF Candidates
  <2>5. last_free[m] = 0
    BY <2>1, <2>2, <2>4 DEF IInv, HintInv
  <2> QED BY ZenonT(60), <2>1, <2>2, <2>4, <2>5
<1> QED BY <1>1, Inductive, PTL

\* Clearing a run outside the lock wipes nobody's pages, and the run is
\* zero when its owner gets it.
THEOREM ZeroedExclusive == Spec => ReturnedZeroed
<1>1. IInv /\ [Next]_vars =>
        [/\ \A r \in held' \ held : Pages(r) \cap dirty' = {}
         /\ \A r \in held : Pages(r) \cap dirty \subseteq dirty']_vars
  <2> SUFFICES ASSUME IInv, Next
               PROVE  /\ \A r \in held' \ held : Pages(r) \cap dirty' = {}
                      /\ \A r \in held : Pages(r) \cap dirty \subseteq dirty'
    BY Zenon
  <2>1. ASSUME NEW c \in Callers, Zero(c)
        PROVE  /\ \A r \in held' \ held : Pages(r) \cap dirty' = {}
               /\ \A r \in held : Pages(r) \cap dirty \subseteq dirty'
    BY Zenon, <2>1 DEF Zero, Zeroed, IInv, DistinctInv, InHand, Disjoint
  <2>2. ASSUME held' \subseteq held, dirty \subseteq dirty'
        PROVE  /\ \A r \in held' \ held : Pages(r) \cap dirty' = {}
               /\ \A r \in held : Pages(r) \cap dirty \subseteq dirty'
    BY Zenon, <2>2
  <2> QED BY ZenonT(60), <2>1, <2>2
          DEF Next, Request, Lock, ScanHit, ScanMiss, Commit, Free, Clear, Write
<1>2. [/\ \A r \in held' \ held : Pages(r) \cap dirty' = {}
       /\ \A r \in held : Pages(r) \cap dirty \subseteq dirty']_vars
      => [stray = {} => /\ \A r \in held' \ held : Pages(r) \cap dirty' = {}
                        /\ \A r \in held : Pages(r) \cap dirty \subseteq dirty']_vars
  BY Zenon
<1> QED BY <1>1, <1>2, Inductive, PTL DEF Spec, ReturnedZeroed

-----------------------------------------------------------------------------
\* x is n times a: what it means to be aligned to a.
Times(x, a) == \E n \in Nat : x = a * n

\* Two multiples add up to a multiple.
LEMMA SumTimes ==
  ASSUME NEW a \in Nat \ {0}, NEW x \in Nat, NEW y \in Nat, Times(x, a), Times(y, a)
  PROVE  Times(x + y, a)
<1>1. PICK n \in Nat : x = a * n
  BY Zenon DEF Times
<1>2. PICK m \in Nat : y = a * m
  BY Zenon DEF Times
<1>3. a * n + a * m = a * (n + m) /\ n + m \in Nat
  BY SMTT(30)
<1> QED BY Zenon, <1>1, <1>2, <1>3 DEF Times

\* A multiple of a leaves no remainder.
LEMMA TimesRemainder ==
  ASSUME NEW a \in Nat \ {0}, NEW x \in Nat
  PROVE  Times(x, a) <=> x % a = 0
<1> DEFINE q == x \div a
           r == x % a
<1>1. q \in Nat /\ r \in Nat /\ r < a /\ x = a * q + r
  BY SMTT(30)
<1>2. r = 0 => Times(x, a)
  <2> HIDE DEF q, r
  <2>1. r = 0 => x = a * q
    BY <1>1
  <2> QED BY Zenon, <1>1, <2>1 DEF Times
<1>3. ASSUME Times(x, a) PROVE r = 0
  <2>1. PICK n \in Nat : x = a * n
    BY Zenon, <1>3 DEF Times
  <2> HIDE DEF q, r
  <2>2. a * n = a * q + r /\ q \in Nat /\ r \in Nat /\ r < a
    BY Zenon, <1>1, <2>1
  <2>3. CASE n > q
    <3>1. a * n >= a * (q + 1) /\ a * (q + 1) = a * q + a /\ a * q \in Nat
      BY SMTT(30), <2>2, <2>3
    <3> QED BY <2>2, <3>1
  <2>4. CASE n <= q
    <3>1. a * n <= a * q /\ a * q \in Nat /\ a * n \in Nat
      BY SMTT(30), <2>2, <2>4
    <3> QED BY <2>2, <3>1
  <2> QED BY <2>2, <2>3, <2>4
<1> QED BY Zenon, <1>2, <1>3

\* The address of a candidate is a multiple of the alignment: the scan starts
\* at one and steps by the alignment.
LEMMA CandidateAligned ==
  ASSUME TypeOK, NEW m \in Modules, NEW cnt \in Nat \ {0}, NEW align \in Nat \ {0},
         NEW i \in Candidates(m, cnt, align)
  PROVE  (Base[m] + i) % align = 0
<1> DEFINE x == Base[m] + last_free[m]
           up == AlignUp(x, align)
           bb == BitBase(m, align)
<1>1. Base[m] \in Nat /\ Count[m] \in Nat /\ last_free[m] \in Nat
  BY Zenon, ModulesAssumption DEF TypeOK
<1>2. x \in Nat
  BY <1>1
<1>3. up \in Nat /\ up >= x
  BY Zenon, <1>2, AlignUpAbove
<1>4. Times(up, align)
  <2>1. (x + align - 1) \div align \in Nat
    BY SMTT(30), <1>2
  <2>2. up = align * ((x + align - 1) \div align)
    BY SMTT(30), <2>1 DEF AlignUp
  <2> QED BY Zenon, <2>1, <2>2 DEF Times
<1>5. bb = up - Base[m]
  BY Zenon DEF BitBase
<1> HIDE DEF x, up, bb
<1>6. i \in Int /\ i >= bb /\ (i - bb) % align = 0
  BY <1>1, <1>3, <1>5 DEF Candidates, bb
<1>7. i - bb \in Nat /\ Base[m] + i = up + (i - bb) /\ Base[m] + i \in Nat
  BY <1>1, <1>3, <1>5, <1>6
<1>8. Times(i - bb, align)
  BY Zenon, <1>6, <1>7, TimesRemainder
<1>9. Times(Base[m] + i, align)
  BY Zenon, <1>3, <1>4, <1>7, <1>8, SumTimes
<1> QED BY Zenon, <1>7, <1>9, TimesRemainder

\* What pmm_module_alloc has found keeps its place until pmm_alloc returns it.
LEMMA PlacementStep == IInv /\ Placement /\ [Next]_vars => Placement'
<1> DEFINE Good(d) == /\ InModule(mod[d], run[d])
                      /\ run[d].base % req[d][2] = 0
                      /\ run[d].cnt = req[d][1]
<1> SUFFICES ASSUME IInv, Placement, [Next]_vars,
                    NEW d \in Callers, pc'[d] \in {"commit", "zero"}
             PROVE  Good(d)'
  BY Zenon DEF Placement, InModule
<1>1. ASSUME pc[d] \in {"commit", "zero"}, mod'[d] = mod[d], run'[d] = run[d],
             req'[d] = req[d]
      PROVE  Good(d)'
  BY Zenon, <1>1 DEF Placement, InModule
<1>2. ASSUME NEW c \in Callers, ScanHit(c) PROVE Good(d)'
  <2>1. CASE c # d
    BY Zenon, <1>1, <1>2, <2>1 DEF ScanHit, IInv, TypeOK
  <2>2. CASE c = d
    <3> DEFINE m == mod[c]
    <3>1. PICK i \in Candidates(m, req[c][1], req[c][2]) :
            run' = [run EXCEPT ![c] = [base |-> Base[m] + i, cnt |-> req[c][1]]]
      BY ZenonT(60), <1>2 DEF ScanHit
    <3>2. m \in Modules /\ req[c][1] \in Nat \ {0} /\ req[c][2] \in Nat \ {0}
      BY Zenon DEF IInv, TypeOK
    <3>3. i \in Nat /\ i + req[c][1] <= Count[m] /\ (Base[m] + i) % req[c][2] = 0
      BY Zenon, <3>2, CandidateFits, CandidateAligned DEF IInv
    <3>4. run'[d] = [base |-> Base[m] + i, cnt |-> req[c][1]] /\ mod' = mod /\ req' = req
      BY Zenon, <1>2, <2>2, <3>1 DEF ScanHit, IInv, TypeOK
    <3>5. run'[d].base = Base[m] + i /\ run'[d].cnt = req[c][1]
      BY <3>4
    <3>6. Base[m] \in Nat /\ Count[m] \in Nat
      BY Zenon, <3>2, ModulesAssumption
    <3>7. Base[m] <= Base[m] + i /\ Base[m] + i + req[c][1] <= Base[m] + Count[m]
      BY <3>2, <3>3, <3>6
    <3> QED BY Zenon, <2>2, <3>3, <3>4, <3>5, <3>7 DEF InModule
  <2> QED BY Zenon, <2>1, <2>2
<1>3. ASSUME NEW c \in Callers, Commit(c) PROVE Good(d)'
  BY Zenon, <1>1, <1>3 DEF Commit, IInv, TypeOK
<1>4. ASSUME NEW c \in Callers, Request(c) \/ Lock(c) \/ Zero(c) \/ Free(c) \/ Clear(c)
      PROVE  Good(d)'
  <2>1. /\ pc'[c] \notin {"commit", "zero"}
        /\ c # d => /\ pc'[d] = pc[d] /\ mod'[d] = mod[d]
                    /\ run'[d] = run[d] /\ req'[d] = req[d]
    BY <1>4 DEF Request, Lock, Zero, Free, Clear, IInv, TypeOK
  <2> QED BY Zenon, <1>1, <2>1
<1>5. ASSUME NEW c \in Callers, ScanMiss(c) PROVE Good(d)'
  <2>1. pc' = [pc EXCEPT ![c] = "alloc"] \/ pc' = [pc EXCEPT ![c] = "idle"]
    BY Zenon, <1>5 DEF ScanMiss
  <2>2. c # d /\ pc'[d] = pc[d]
    BY Zenon, <2>1 DEF IInv, TypeOK
  <2>3. mod'[d] = mod[d] /\ run'[d] = run[d] /\ req'[d] = req[d]
    BY Zenon, <1>5, <2>2 DEF ScanMiss, IInv, TypeOK
  <2> QED BY Zenon, <1>1, <2>2, <2>3
<1>6. CASE UNCHANGED <<pc, mod, run, req>>
  BY Zenon, <1>1, <1>6
<1> QED BY Zenon, <1>2, <1>3, <1>4, <1>5, <1>6 DEF Next, Write, vars

\* pmm_alloc returns an aligned run of the requested length inside one
\* module, for any alignment, module base and hint.
THEOREM PlacementRight == Spec => []Placement
<1>1. Init => Placement
  BY Zenon DEF Init, Placement
<1> QED BY <1>1, PlacementStep, Inductive, PTL DEF Spec

\* The clears of pmm_free that miss the bitmap are those of ranges past the
\* root module, whatever the module list and the order of the calls.
THEOREM StraysOnlyLate == Spec => StrayOnlyFromLaterModules
<1>1. IInv /\ [Next]_vars =>
        [stray' # stray =>
           \E c \in Callers : /\ pc[c] = "clear"
                              /\ run[c].base >= Base[1] + Count[1]
                              /\ mod[c] = 1 \/ ~InModule(mod[c], run[c])]_vars
  <2> DEFINE Late(c) == /\ pc[c] = "clear"
                        /\ run[c].base >= Base[1] + Count[1]
                        /\ mod[c] = 1 \/ ~InModule(mod[c], run[c])
  <2> SUFFICES ASSUME IInv, Next, stray' # stray PROVE \E c \in Callers : Late(c)
    BY Zenon
  <2>1. PICK c \in Callers : Clear(c)
    BY ZenonT(60) DEF Next, Request, Lock, ScanHit, ScanMiss, Commit, Zero, Free, Write
  <2> DEFINE m == mod[c]
             r == run[c]
  <2>2. m \in Modules /\ r \in Ranges /\ 1 \in Modules /\ pc[c] = "clear"
    BY Zenon, <2>1, RestTypes DEF Clear, IInv, TypeOK
  <2>3. PICK b \in Bits(m, r) : b >= Count[m]
    BY Zenon, <2>1 DEF Clear
  <2>4. r.base \in Nat /\ r.cnt \in Nat \ {0}
    BY Zenon, <2>2 DEF Ranges
  <2>5. PICK n \in Modules : InModule(n, r)
    BY Zenon, <2>2 DEF IInv, CustodyInv, InHand, Placed
  <2>6. /\ Base[m] \in Nat /\ Count[m] \in Nat /\ Base[n] \in Nat /\ Count[n] \in Nat
        /\ Base[1] \in Nat /\ Count[1] \in Nat
    BY Zenon, <2>2, <2>5, ModulesAssumption
  <2>7. ~InModule(m, r)
    <3>1. PICK p \in Pages(r) : b = p - Base[m]
      BY Zenon, <2>3 DEF Bits
    <3>2. p \in Nat /\ p < r.base + r.cnt
      BY SMTT(40), <2>4, <3>1 DEF Pages
    <3> QED BY <2>3, <2>4, <2>6, <3>1, <3>2 DEF InModule
  <2>8. n # 1
    <3> SUFFICES ASSUME n = 1 PROVE FALSE
      BY Zenon
    <3>1. FreeMatches(1, r)
      BY <2>4, <2>5, <2>6 DEF InModule, FreeMatches
    <3>2. ~(1 < m)
      BY Zenon, <2>2, <3>1 DEF IInv, TargetInv, IsFreeTarget
    <3>3. m = 1
      BY <2>2, <3>2, ModulesAssumption DEF Modules
    <3> QED BY Zenon, <2>5, <2>7, <3>3
  <2>9. r.base >= Base[1] + Count[1]
    <3>1. 1 < n
      BY <2>8, ModulesAssumption DEF Modules
    <3>2. Base[1] + Count[1] <= Base[n] /\ Base[n] <= r.base
      BY Zenon, <2>2, <2>5, <3>1, ModulesAssumption DEF InModule
    <3> QED BY <2>4, <2>6, <3>2
  <2> QED BY Zenon, <2>2, <2>7, <2>9
<1> QED BY <1>1, Inductive, PTL DEF Spec, StrayOnlyFromLaterModules

-----------------------------------------------------------------------------
\* A page of the root module belongs to somebody.
Owned(p) == \/ \E r \in held : p \in Pages(r)
            \/ \E c \in Callers : InHand(c) /\ p \in Pages(run[c])

\* No bit of the root bitmap is set for a page that nobody has.
RootOwned == \A i \in bitmap[1] : Owned(Base[1] + i)

\* A page of module 1 lies in no range of another module.
LEMMA RootApart ==
  ASSUME NEW n \in Modules, n # 1, NEW r \in Ranges, InModule(n, r),
         NEW i \in 0 .. (Count[1] - 1)
  PROVE  Base[1] + i \notin Pages(r)
<1>1. 1 \in Modules /\ 1 < n
  BY ModulesAssumption DEF Modules
<1>2. Base[1] + Count[1] <= Base[n] /\ Base[1] \in Nat /\ Count[1] \in Nat
  BY Zenon, <1>1, ModulesAssumption
<1>3. Base[n] \in Nat /\ Count[n] \in Nat
  BY Zenon, ModulesAssumption
<1> QED BY <1>2, <1>3 DEF InModule, Pages, Ranges

\* The search of pmm_free finds the root module for every range of it.
LEMMA RootTarget ==
  ASSUME IInv, NEW c \in Callers, Clear(c), mod[c] # 1, NEW i \in 0 .. (Count[1] - 1)
  PROVE  Base[1] + i \notin Pages(run[c])
<1>1. mod[c] \in Modules /\ run[c] \in Ranges /\ 1 \in Modules
  BY Zenon, RestTypes DEF IInv, TypeOK
<1>2. 1 < mod[c]
  BY <1>1, ModulesAssumption DEF Modules
<1>3. ~FreeMatches(1, run[c])
  BY Zenon, <1>1, <1>2 DEF Clear, IInv, TargetInv, IsFreeTarget
<1>4. PICK n \in Modules : InModule(n, run[c])
  BY Zenon DEF Clear, IInv, CustodyInv, InHand, Placed
<1>5. n # 1
  BY <1>1, <1>3, <1>4, ModulesAssumption DEF FreeMatches, InModule, Ranges
<1> QED BY Zenon, <1>1, <1>4, <1>5, RootApart

\* Setting and clearing bits of the root bitmap follows ownership.
LEMMA RootStep == IInv /\ RootOwned /\ [Next]_vars => RootOwned'
<1> SUFFICES ASSUME IInv, RootOwned, [Next]_vars, NEW i \in bitmap'[1]
             PROVE  Owned(Base[1] + i)'
  BY Zenon DEF RootOwned
<1>0. 1 \in Modules /\ bitmap[1] \subseteq 0 .. (Count[1] - 1)
  BY Zenon, RestTypes DEF IInv, TypeOK
<1>1. ASSUME NEW c \in Callers, Commit(c) PROVE Owned(Base[1] + i)'
  <2>1. held' = held /\ run' = run /\ InHand(c)'
    BY <1>1 DEF Commit, InHand, IInv, TypeOK
  <2>2. \A d \in Callers : InHand(d) => InHand(d)'
    BY <1>1 DEF Commit, InHand, IInv, TypeOK
  <2>3. CASE i \in bitmap[1]
    BY Zenon, <2>1, <2>2, <2>3 DEF RootOwned, Owned
  <2>4. CASE i \notin bitmap[1]
    <3>1. mod[c] = 1 /\ i \in Bits(1, run[c])
      BY <1>0, <1>1, <2>4 DEF Commit, IInv, TypeOK
    <3>2. Base[1] + i \in Pages(run[c])
      BY <1>0, <3>1, ModulesAssumption DEF Bits, Pages, IInv, TypeOK, Ranges
    <3> QED BY Zenon, <2>1, <3>2 DEF Owned
  <2> QED BY Zenon, <2>3, <2>4
<1>2. ASSUME NEW c \in Callers, Clear(c) PROVE Owned(Base[1] + i)'
  <2>1. i \in bitmap[1] /\ i \in 0 .. (Count[1] - 1)
    BY Zenon, <1>0, <1>2 DEF Clear, IInv, TypeOK
  <2>2. Base[1] + i \notin Pages(run[c])
    <3>1. CASE mod[c] = 1
      <4>1. i \notin Bits(1, run[c])
        BY Zenon, <1>0, <1>2, <3>1 DEF Clear, IInv, TypeOK
      <4> QED BY <1>0, <2>1, <4>1, ModulesAssumption DEF Bits, Pages, IInv, TypeOK, Ranges
    <3>2. CASE mod[c] # 1
      BY Zenon, <1>2, <2>1, <3>2, RootTarget
    <3> QED BY Zenon, <3>1, <3>2
  <2>3. held' = held
    BY Zenon, <1>2 DEF Clear
  <2>4. \A d \in Callers : d # c /\ InHand(d) => InHand(d)' /\ run'[d] = run[d]
    BY Zenon, <1>2 DEF Clear, InHand, IInv, TypeOK
  <2> QED BY Zenon, <2>1, <2>2, <2>3, <2>4 DEF RootOwned, Owned
<1>3. ASSUME NEW c \in Callers, Zero(c) PROVE Owned(Base[1] + i)'
  <2>1. bitmap' = bitmap /\ held' = held \cup {run[c]}
    BY Zenon, <1>3 DEF Zero
  <2>2. \A d \in Callers : d # c /\ InHand(d) => InHand(d)' /\ run'[d] = run[d]
    BY Zenon, <1>3 DEF Zero, InHand, IInv, TypeOK
  <2> QED BY Zenon, <2>1, <2>2 DEF RootOwned, Owned
<1>4. ASSUME NEW c \in Callers, Free(c) PROVE Owned(Base[1] + i)'
  <2>1. PICK r \in held : held' = held \ {r} /\ run' = [run EXCEPT ![c] = r]
    BY ZenonT(60), <1>4 DEF Free
  <2>2. bitmap' = bitmap /\ InHand(c)' /\ run'[c] = r /\ ~InHand(c)
    BY <1>4, <2>1 DEF Free, InHand, IInv, TypeOK
  <2>3. \A d \in Callers : InHand(d) => InHand(d)' /\ run'[d] = run[d]
    BY <1>4, <2>1, <2>2 DEF Free, InHand, IInv, TypeOK
  <2> QED BY Zenon, <2>1, <2>2, <2>3 DEF RootOwned, Owned
<1>5. ASSUME NEW c \in Callers, Request(c) \/ Lock(c) \/ ScanHit(c) \/ ScanMiss(c)
      PROVE  Owned(Base[1] + i)'
  <2>1. bitmap' = bitmap /\ held' = held
    BY Zenon, <1>5 DEF Request, Lock, ScanHit, ScanMiss
  <2>2. \A d \in Callers : InHand(d) => InHand(d)' /\ run'[d] = run[d]
    BY SMTT(40), <1>5 DEF Request, Lock, ScanHit, ScanMiss, InHand, IInv, TypeOK
  <2> QED BY Zenon, <2>1, <2>2 DEF RootOwned, Owned
<1>6. CASE UNCHANGED <<bitmap, held, run, pc>>
  BY Zenon, <1>6 DEF RootOwned, Owned, InHand
<1> QED BY Zenon, <1>1, <1>2, <1>3, <1>4, <1>5, <1>6 DEF Next, Write, vars

\* The root module neither leaks nor forges pages.
THEOREM RootExact == Spec => []RootConserved
<1>1. Init => RootOwned
  BY Zenon, RestTypes DEF Init, RootOwned
<1>2. IInv /\ RootOwned => RootConserved
  <2> SUFFICES ASSUME IInv, RootOwned, NEW i \in 0 .. (Count[1] - 1)
               PROVE  i \in bitmap[1] <=> Owned(Base[1] + i)
    BY Zenon DEF RootConserved, Owned
  <2>1. ASSUME NEW r \in Ranges, Placed(r), Base[1] + i \in Pages(r)
        PROVE  i \in bitmap[1]
    <3>0. 1 \in Modules /\ Base[1] \in Nat /\ Count[1] \in Nat
      BY Zenon, RestTypes, ModulesAssumption
    <3>1. PICK m \in Modules : /\ Base[m] <= Base[1] + i /\ Base[1] + i < Base[m] + Count[m]
                               /\ (Base[1] + i) - Base[m] \in bitmap[m]
      <4>1. Marked(Base[1] + i)
        BY Zenon, <2>1 DEF Placed
      <4> QED BY Zenon, <4>1 DEF Marked
    <3>2. m = 1
      <4>1. 1 < m => Base[1] + Count[1] <= Base[m]
        BY Zenon, <3>0, ModulesAssumption
      <4>2. m = 1 \/ 1 < m
        BY ModulesAssumption DEF Modules
      <4>3. Base[m] \in Nat
        BY Zenon, ModulesAssumption
      <4> QED BY <3>0, <3>1, <4>1, <4>2, <4>3
    <3> QED BY <3>0, <3>1, <3>2
  <2>2. ASSUME NEW r \in held, Base[1] + i \in Pages(r) PROVE i \in bitmap[1]
    BY Zenon, <2>1, <2>2 DEF IInv, CustodyInv, TypeOK
  <2>3. ASSUME NEW c \in Callers, InHand(c), Base[1] + i \in Pages(run[c])
        PROVE  i \in bitmap[1]
    <3>1. run[c] \in Ranges /\ Placed(run[c])
      BY Zenon, <2>3 DEF IInv, CustodyInv, TypeOK
    <3> QED BY Zenon, <2>1, <2>3, <3>1
  <2> QED BY Zenon, <2>2, <2>3 DEF RootOwned, Owned
<1> QED BY <1>1, <1>2, RootStep, Inductive, PTL DEF Spec

-----------------------------------------------------------------------------
\* The refinement mapping: what is in use is what has been committed and not
\* yet handed to pmm_free.
InUse == held \cup {run[c] : c \in {d \in Callers : pc[d] = "zero"}}

\* pmm_alloc and pmm_free implement the abstract allocator: setting the bits
\* of a run takes it, entering pmm_free returns it, nothing else is visible.
THEOREM Refines == Spec => KeepsPromise
<1>1. Init => Promise!Init
  BY Zenon DEF Init, Promise!Init
<1>2. IInv /\ [Next]_vars => [Promise!Next]_InUse
  <2> SUFFICES ASSUME IInv, Next PROVE [Promise!Next]_InUse
    BY Zenon DEF vars, InUse
  <2>1. ASSUME NEW c \in Callers, Commit(c) PROVE Promise!Take
    <3>1. held' = held /\ run' = run /\ run[c] \in Ranges
      BY Zenon, <2>1 DEF Commit, IInv, TypeOK
    <3>2. pc' = [pc EXCEPT ![c] = "zero"] /\ pc[c] = "commit"
      BY ZenonT(60), <2>1 DEF Commit
    <3>3. InUse' = InUse \cup {run[c]}
      BY <3>1, <3>2 DEF InUse, IInv, TypeOK
    <3>4. ASSUME NEW s \in InUse PROVE Pages(run[c]) \cap Pages(s) = {}
      <4>1. Placed(s)
        BY Zenon DEF InUse, IInv, CustodyInv, InHand
      <4> QED BY Zenon, <3>2, <4>1 DEF Placed, IInv, RunInv
    <3>5. run[c] \notin InUse
      <4>1. run[c].base \in Pages(run[c])
        BY <3>1 DEF Pages, Ranges
      <4> QED BY Zenon, <3>4, <4>1
    <3> QED BY Zenon, <3>1, <3>3, <3>4, <3>5
            DEF Promise!Take, Promise!Overlap, Promise!Span, InUse, Pages
  <2>2. ASSUME NEW c \in Callers, Zero(c) PROVE UNCHANGED InUse
    <3>1. /\ held' = held \cup {run[c]} /\ pc[c] = "zero" /\ pc'[c] = "idle"
          /\ \A d \in Callers : d # c => pc'[d] = pc[d] /\ run'[d] = run[d]
      BY Zenon, <2>2 DEF Zero, IInv, TypeOK
    <3> QED BY Zenon, <3>1 DEF InUse
  <2>3. ASSUME NEW c \in Callers, Free(c) PROVE Promise!Return
    <3>1. PICK r \in held : held' = held \ {r} /\ run' = [run EXCEPT ![c] = r]
      BY ZenonT(60), <2>3 DEF Free
    <3>2. /\ pc[c] = "idle" /\ pc'[c] = "free"
          /\ \A d \in Callers : d # c => pc'[d] = pc[d] /\ run'[d] = run[d]
      BY Zenon, <2>3, <3>1 DEF Free, IInv, TypeOK
    <3>3. \A d \in Callers : pc[d] = "zero" => run[d] # r
      <4>1. r.base \in Pages(r)
        BY DEF Pages, IInv, TypeOK, Ranges
      <4> QED BY Zenon, <4>1 DEF IInv, DistinctInv, InHand, Disjoint
    <3>4. InUse' = InUse \ {r} /\ r \in InUse
      BY <3>1, <3>2, <3>3 DEF InUse
    <3> QED BY Zenon, <3>4 DEF Promise!Return, InUse
  <2>4. ASSUME NEW c \in Callers,
               Request(c) \/ Lock(c) \/ ScanHit(c) \/ ScanMiss(c) \/ Clear(c)
        PROVE  UNCHANGED InUse
    <3>1. /\ held' = held /\ pc[c] # "zero" /\ pc'[c] # "zero"
          /\ \A d \in Callers : d # c => pc'[d] = pc[d] /\ run'[d] = run[d]
      BY <2>4 DEF Request, Lock, ScanHit, ScanMiss, Clear, IInv, TypeOK
    <3> QED BY Zenon, <3>1 DEF InUse
  <2>5. CASE Write
    BY Zenon, <2>5 DEF Write, InUse
  <2> QED BY Zenon, <2>1, <2>2, <2>3, <2>4, <2>5 DEF Next, Promise!Next
<1> QED BY <1>1, <1>2, Inductive, PTL DEF Spec, KeepsPromise, Promise!Spec, InUse

-----------------------------------------------------------------------------
(* Every call comes to its end.                                            *)

\* A caller that waits for the lock of a module waits for another caller that
\* is working on that module, and so not waiting itself.
WaitsForWorker ==
  \A c \in Callers :
    pc[c] \in {"alloc", "free"} /\ lock[mod[c]] # NoCaller
      => \E d \in Callers : d # c /\ mod[d] = mod[c] /\ Locking(d)

\* How far a call is with one module.
Stage == [alloc |-> 0, free |-> 0, scan |-> 1, clear |-> 1, commit |-> 2, zero |-> 3]

\* Caller c returns, goes on to a later module, or goes on with its module.
Advances(c) ==
  \/ pc'[c] = "idle"
  \/ mod'[c] > mod[c]
  \/ mod'[c] = mod[c] /\ Stage[pc'[c]] > Stage[pc[c]]

(***************************************************************************)
(* No deadlock, for any number of callers and modules: pmm_alloc and       *)
(* pmm_free hold one lock at a time, and every path gives it back.         *)
(***************************************************************************)
THEOREM NoDeadlock == Spec => []WaitsForWorker
<1>1. IInv => WaitsForWorker
  <2> SUFFICES ASSUME IInv, NEW c \in Callers, pc[c] \in {"alloc", "free"}, lock[mod[c]] # NoCaller
               PROVE  \E d \in Callers : d # c /\ mod[d] = mod[c] /\ Locking(d)
    BY Zenon DEF WaitsForWorker
  <2>1. mod[c] \in Modules /\ lock[mod[c]] \in Callers
    BY Zenon DEF IInv, TypeOK
  <2>2. mod[lock[mod[c]]] = mod[c] /\ Locking(lock[mod[c]])
    BY Zenon, <2>1 DEF IInv, LockInv
  <2>3. ~Locking(c)
    BY Zenon DEF Locking
  <2> QED BY Zenon, <2>1, <2>2, <2>3
<1> QED BY <1>1, Inductive, PTL

(***************************************************************************)
(* No call runs for ever: each of its steps is one of at most three per    *)
(* module, on modules in the order of the list.                            *)
(***************************************************************************)
THEOREM CallsAdvance ==
  Spec => [][\A c \in Callers :
               pc[c] # "idle" => (pc'[c] = pc[c] /\ mod'[c] = mod[c]) \/ Advances(c)]_vars
<1>1. IInv /\ [Next]_vars =>
        [\A c \in Callers :
           pc[c] # "idle" => (pc'[c] = pc[c] /\ mod'[c] = mod[c]) \/ Advances(c)]_vars
  <2> SUFFICES ASSUME IInv, Next, NEW c \in Callers, pc[c] # "idle",
                      ~(pc'[c] = pc[c] /\ mod'[c] = mod[c])
               PROVE  Advances(c)
    BY Zenon
  <2>1. /\ pc = [d \in Callers |-> pc[d]] /\ mod = [d \in Callers |-> mod[d]]
        /\ mod[c] \in Nat
    BY SMTT(40), ModulesAssumption DEF IInv, TypeOK, Modules
  <2>2. ~Write /\ \A d \in Callers : ~Request(d) /\ ~Free(d)
    BY Zenon, <2>1 DEF Write, Request, Free
  <2>3. PICK d \in Callers : Step(d)
    BY Zenon, <2>2 DEF Next, Step
  <2>4. d = c
    BY Zenon, <2>1, <2>3 DEF Step, Lock, ScanHit, ScanMiss, Commit, Zero, Clear
  <2>5. CASE Lock(c) \/ ScanHit(c) \/ Commit(c)
    <3>1. /\ mod'[c] = mod[c]
          /\ \/ pc[c] = "alloc" /\ pc'[c] = "scan"
             \/ pc[c] = "free" /\ pc'[c] = "clear"
             \/ pc[c] = "scan" /\ pc'[c] = "commit"
             \/ pc[c] = "commit" /\ pc'[c] = "zero"
      BY <2>1, <2>5 DEF Lock, ScanHit, Commit
    <3>2. /\ Stage["scan"] > Stage["alloc"] /\ Stage["clear"] > Stage["free"]
          /\ Stage["commit"] > Stage["scan"] /\ Stage["zero"] > Stage["commit"]
      BY DEF Stage
    <3> QED BY Zenon, <3>1, <3>2 DEF Advances
  <2>6. CASE ScanMiss(c)
    BY <2>1, <2>6 DEF ScanMiss, Advances
  <2>7. CASE Zero(c) \/ Clear(c)
    BY Zenon, <2>1, <2>7 DEF Zero, Clear, Advances
  <2> QED BY Zenon, <2>3, <2>4, <2>5, <2>6, <2>7 DEF Step
<1> QED BY <1>1, Inductive, PTL DEF Spec

-----------------------------------------------------------------------------
(* The kernel's half of the address spaces.                                *)

\* The default table after map_page.
Remapped(v, page) == [w \in DOMAIN Default \cup {v} |-> IF w = v THEN page ELSE Default[w]]

WithIdentity == Remapped(Identity, 0)

Exact ==
  /\ map \in Maps
  /\ stage \in {"vmm", "apic", "servers"}
  /\ device \in Nat \ {0}
  /\ chain \in BOOLEAN
  /\ chain => stage = "servers"
  /\ tables \in Seq({Default, WithIdentity})
  /\ stage = "vmm" => tables = <<>>
  /\ stage # "vmm" => Len(tables) >= 1 /\ tables[1] = (IF chain THEN WithIdentity ELSE Default)
  /\ \A t \in 2..Len(tables) : tables[t] = Default

-----------------------------------------------------------------------------
(* Arithmetic of large pages.                                              *)

\* A number lies between its quotient's multiple and the next.
LEMMA Division ==
  ASSUME NEW x \in Nat, NEW y \in Nat \ {0}
  PROVE  /\ x \div y \in Nat
         /\ y * (x \div y) <= x
         /\ x < y * (x \div y) + y
  <1>1. x \div y \in Nat
    OBVIOUS
  <1>2. y * (x \div y) <= x
    BY SMTT(30)
  <1>3. x < y * (x \div y) + y
    BY SMTT(30)
  <1> QED BY <1>1, <1>2, <1>3

\* A multiple is its quotient's multiple.
LEMMA Exactly ==
  ASSUME NEW x \in Nat, NEW y \in Nat \ {0}, x % y = 0
  PROVE  x \div y \in Nat /\ x = y * (x \div y)
  <1>1. x \div y \in Nat
    OBVIOUS
  <1>2. x = y * (x \div y)
    BY SMTT(30)
  <1> QED BY <1>1, <1>2

\* A page below the end of n large pages is in one of them.
LEMMA Below ==
  ASSUME NEW p \in Nat, NEW y \in Nat \ {0}, NEW n \in Nat, p < n * y
  PROVE  p \div y \in 0..(n - 1)
  <1> DEFINE q == p \div y
  <1>1. q \in Nat /\ y * q <= p
    BY Division
  <1> HIDE DEF q
  <1>2. CASE q >= n
    <2>1. y * q >= y * n
      BY <1>1, <1>2
    <2> QED BY <1>1, <2>1
  <1> QED BY <1>1, <1>2 DEF q

-----------------------------------------------------------------------------
(* The default table.                                                      *)

\* It never maps the identity page.
LEMMA NoIdentity == Identity \notin DOMAIN Default
  BY DEF Default, Image, DirectMap, Kernel, High, Identity

\* A large page of the direct map is mapped to itself.
LEMMA DirectEntry ==
  ASSUME NEW n, High(n) \in DirectMap
  PROVE  High(n) \in DOMAIN Default /\ Default[High(n)] = n * Large
  <1>1. High(n) \notin Image
    BY DEF Image, High, Kernel
  <1> QED BY <1>1 DEF Default, High

\* apic_init's map_page changes nothing: the controllers lie in the fixed map.
LEMMA DeviceMapped ==
  ASSUME NEW k \in DOMAIN Devices
  PROVE  Remapped(High(Devices[k] \div Large), Devices[k]) = Default
  <1> DEFINE d == Devices[k]
             n == d \div Large
             v == High(n)
  <1>1. d \in Nat /\ Large \in Nat \ {0} /\ DirectPages \in Nat /\ d % Large = 0
        /\ d < DirectPages * Large
    BY SpaceAssumption
  <1> HIDE DEF d
  <1>2. n \in 0..(DirectPages - 1)
    BY ZenonT(60), <1>1, Below
  <1>3. n * Large = d
    <2>1. n \in Nat /\ d = Large * n
      BY <1>1, Exactly
    <2> HIDE DEF n
    <2>2. Large * n = n * Large
      BY <1>1, <2>1
    <2> QED BY <2>1, <2>2
  <1>4. v \in DirectMap
    BY <1>2 DEF DirectMap, Direct
  <1>5. v \in DOMAIN Default /\ Default[v] = d
    BY <1>3, <1>4, DirectEntry
  <1> HIDE DEF v
  <1>6. Default = [w \in DOMAIN Default |-> Default[w]]
    BY ZenonT(60) DEF Default
  <1>7. [w \in DOMAIN Default \cup {v} |-> IF w = v THEN d ELSE Default[w]] = Default
    BY ZenonT(60), <1>5, <1>6
  <1> QED BY <1>7 DEF v, d, Remapped

-----------------------------------------------------------------------------
(* The invariant.                                                          *)

\* No table is there at first.
LEMMA ExactInit == SpaceInit => Exact
  <1> SUFFICES ASSUME SpaceInit PROVE Exact
    OBVIOUS
  <1>1. tables = <<>> /\ stage = "vmm" /\ map \in Maps /\ device = 1
    BY DEF SpaceInit
  <1>4. ~chain /\ chain \in BOOLEAN
    BY ZenonT(60) DEF SpaceInit
  <1>2. tables \in Seq({Default, WithIdentity}) /\ Len(tables) = 0
    BY <1>1
  <1>3. \A t \in 2..Len(tables) : tables[t] = Default
    BY <1>2
  <1> QED BY <1>1, <1>2, <1>3, <1>4 DEF Exact

\* The default table depends on the memory map only.
LEMMA SameDefault == UNCHANGED map => Default' = Default /\ WithIdentity' = WithIdentity
  BY SMTT(40) DEF Default, WithIdentity, Remapped, Image, DirectMap, Direct, Region, Kernel, High, Identity

\* Every step leaves the tables as the invariant says.
LEMMA ExactStep == Exact /\ [SpaceNext]_spaceVars => Exact'
  <1> SUFFICES ASSUME Exact, [SpaceNext]_spaceVars PROVE Exact'
    OBVIOUS
  <1>0. map' = map
    BY DEF SpaceNext, spaceVars, VmmInit, MapDevice, BootAps, ChainEnd, NewContext
  <1>s. Default' = Default /\ WithIdentity' = WithIdentity
    BY <1>0, SameDefault
  <1>n. Default # WithIdentity
    BY NoIdentity DEF WithIdentity, Remapped
  <1>1. CASE VmmInit
    <2>1. tables' = <<Default>> /\ ~chain
      BY <1>1 DEF VmmInit, Exact
    <2> HIDE DEF Default
    <2> QED BY <1>0, <1>1, <1>s, <2>1 DEF VmmInit, Exact
  <1>2. CASE MapDevice
    <2>1. tables[1] = Default /\ Len(tables) >= 1 /\ ~chain
      BY <1>2 DEF MapDevice, Exact
    <2>2. device \in DOMAIN Devices
      BY <1>2, SpaceAssumption DEF MapDevice, Exact
    <2>3. tables' = [tables EXCEPT ![1] = Default]
      <3>1. tables' = [tables EXCEPT ![1] = Remapped(High(Devices[device] \div Large),
                                                     Devices[device])]
        BY <1>2, <2>1 DEF MapDevice, MapKernel, Remapped
      <3> QED BY ZenonT(60), <2>2, <3>1, DeviceMapped
    <2>4. tables' = tables
      BY <2>1, <2>3 DEF Exact
    <2> QED BY <1>0, <1>2, <1>s, <2>4 DEF MapDevice, Exact
  <1>3. CASE BootAps
    <2>1. tables[1] = Default /\ Len(tables) >= 1 /\ ~chain
      BY <1>3 DEF BootAps, Exact
    <2>2. tables' = [tables EXCEPT ![1] = WithIdentity]
      BY <1>3, <2>1 DEF BootAps, MapKernel, WithIdentity, Remapped
    <2>3. tables' \in Seq({Default, WithIdentity}) /\ Len(tables') = Len(tables)
          /\ tables'[1] = WithIdentity /\ \A t \in 2..Len(tables) : tables'[t] = tables[t]
      <3> HIDE DEF Default, WithIdentity
      <3> QED BY <2>1, <2>2 DEF Exact
    <2> QED BY <1>0, <1>3, <1>s, <2>1, <2>3 DEF BootAps, Exact
  <1>4. CASE ChainEnd
    <2>1. tables[1] = WithIdentity /\ Len(tables) >= 1 /\ stage = "servers"
      BY <1>4 DEF ChainEnd, Exact
    <2>2. [v \in DOMAIN WithIdentity \ {Identity} |-> WithIdentity[v]] = Default
      <3>1. DOMAIN WithIdentity \ {Identity} = DOMAIN Default
        BY NoIdentity DEF WithIdentity, Remapped
      <3>2. \A v \in DOMAIN Default : WithIdentity[v] = Default[v]
        BY NoIdentity DEF WithIdentity, Remapped
      <3>3. Default = [v \in DOMAIN Default |-> Default[v]]
        BY DEF Default
      <3> HIDE DEF Default, WithIdentity
      <3> QED BY <3>1, <3>2, <3>3
    <2>3. tables' = [tables EXCEPT ![1] = Default]
      BY ZenonT(60), <1>4, <2>1, <2>2 DEF ChainEnd
    <2>4. tables' \in Seq({Default, WithIdentity}) /\ Len(tables') = Len(tables)
          /\ tables'[1] = Default /\ \A t \in 2..Len(tables) : tables'[t] = tables[t]
      <3> HIDE DEF Default, WithIdentity
      <3> QED BY <2>1, <2>3 DEF Exact
    <2>5. stage' = "servers" /\ chain' = FALSE /\ device' = device
      BY <1>4, <2>1 DEF ChainEnd
    <2>6. \A t \in 2..Len(tables') : tables'[t] = Default'
      BY <1>s, <2>4 DEF Exact
    <2> HIDE DEF Default, WithIdentity
    <2> QED BY ZenonT(60), <1>0, <1>s, <2>1, <2>4, <2>5, <2>6 DEF Exact
  <1>5. CASE NewContext
    <2>1. tables' = Append(tables, Default) /\ stage = "servers"
      BY <1>5 DEF NewContext
    <2>2. tables' \in Seq({Default, WithIdentity}) /\ Len(tables') = Len(tables) + 1
          /\ tables'[1] = tables[1] /\ \A t \in 2..Len(tables') : tables'[t] = Default
      <3> HIDE DEF Default, WithIdentity
      <3>1. tables \in Seq({Default, WithIdentity}) /\ Len(tables) >= 1
            /\ \A t \in 2..Len(tables) : tables[t] = Default
        BY <2>1 DEF Exact
      <3> QED BY <2>1, <3>1
    <2> QED BY <1>0, <1>5, <1>s, <2>1, <2>2 DEF NewContext, Exact
  <1>6. CASE UNCHANGED spaceVars
    BY <1>6, <1>s DEF Exact, spaceVars
  <1> QED BY <1>1, <1>2, <1>3, <1>4, <1>5, <1>6 DEF SpaceNext

-----------------------------------------------------------------------------
\* Every table has the default one's entries, and no other but the identity page.
LEMMA TableEntries ==
  ASSUME Exact, NEW t \in DOMAIN tables
  PROVE  /\ DOMAIN tables[t] \ {Identity} = DOMAIN Default
         /\ \A v \in DOMAIN Default : v \in DOMAIN tables[t] /\ tables[t][v] = Default[v]
         /\ Identity \in DOMAIN tables[t] => t = 1 /\ chain
  <1>1. tables[t] = Default \/ (t = 1 /\ chain /\ tables[t] = WithIdentity)
    <2>1. t \in 1..Len(tables) /\ Len(tables) \in Nat
      BY DEF Exact
    <2>2. CASE t = 1
      <3>1. stage # "vmm"
        BY <2>1 DEF Exact
      <3> QED BY <2>2, <3>1 DEF Exact
    <2>3. CASE t # 1
      BY <2>1, <2>3 DEF Exact
    <2> QED BY <2>2, <2>3
  <1>2. CASE tables[t] = Default
    BY ZenonT(60), <1>2, NoIdentity
  <1>3. CASE t = 1 /\ chain /\ tables[t] = WithIdentity
    BY ZenonT(60), <1>3, NoIdentity DEF WithIdentity, Remapped
  <1> QED BY <1>1, <1>2, <1>3

\* Memory that the property speaks of is in the default table.
LEMMA Reached ==
  ASSUME Exact, NEW k \in DOMAIN map,
         NEW p \in map[k].base..(map[k].base + map[k].length - 1),
         p < DirectPages * Large \/ map[k].base % Large = 0
  PROVE  High(p \div Large) \in DirectMap
  <1> DEFINE b == map[k].base
             l == map[k].length
             q == p \div Large
             c == b \div Large
  <1>1. b \in Nat /\ l \in Nat /\ Large \in Nat \ {0} /\ DirectPages \in Nat
    BY SpaceAssumption DEF Exact
  <1>2. p \in Nat /\ b <= p /\ p <= b + l - 1
    BY <1>1
  <1>3. CASE p < DirectPages * Large
    BY <1>1, <1>2, <1>3, Below DEF DirectMap, Direct
  <1>4. CASE b % Large = 0
    <2> DEFINE e == (l + Large - 1) \div Large
    <2>1. c \in Nat /\ b = Large * c
      BY ZenonT(60), <1>1, <1>4, Exactly
    <2>2. q \in Nat /\ Large * q <= p /\ p < Large * q + Large
      BY <1>1, <1>2, Division
    <2>3. e \in Nat /\ Large * e >= l
      <3>1. l + Large - 1 \in Nat
        BY <1>1
      <3>2. e \in Nat /\ l + Large - 1 < Large * e + Large
        BY <1>1, <3>1, Division
      <3> HIDE DEF e
      <3> QED BY <1>1, <3>2
    <2> HIDE DEF b, l, q, c, e
    <2>4. c <= q
      <3>1. CASE q <= c - 1
        <4>1. Large * q <= Large * (c - 1)
          BY <1>1, <2>1, <2>2, <3>1
        <4>2. Large * (c - 1) = Large * c - Large
          BY <1>1, <2>1
        <4> QED BY <1>1, <1>2, <2>1, <2>2, <4>1, <4>2
      <3> QED BY <2>1, <2>2, <3>1
    <2>5. q <= c + e - 1
      <3>1. CASE q >= c + e
        <4>1. Large * q >= Large * (c + e)
          BY <1>1, <2>1, <2>2, <2>3, <3>1
        <4>2. Large * (c + e) = Large * c + Large * e
          BY <1>1, <2>1, <2>3
        <4> QED BY <1>1, <1>2, <2>1, <2>2, <2>3, <4>1, <4>2
      <3> QED BY <2>1, <2>2, <2>3, <3>1
    <2>6. q \in c..(c + e - 1)
      BY <2>1, <2>2, <2>3, <2>4, <2>5
    <2>7. q \in Region(map[k])
      BY <2>6 DEF Region, DivRoundup, b, l, c, e
    <2> QED BY ZenonT(60), <2>7 DEF DirectMap, q
  <1> QED BY <1>3, <1>4

(***************************************************************************)
(* Whenever a context is created by vmm_default_table, and whatever        *)
(* apic_init and boot_aps map, every table agrees with kernel_mappings on  *)
(* the kernel's half.                                                      *)
(***************************************************************************)
THEOREM HalvesAgree == SpaceSpec => []KernelHalfAgrees
  <1>1. Exact => KernelHalfAgrees
    <2> SUFFICES ASSUME Exact PROVE KernelHalfAgrees
      OBVIOUS
    <2>1. \A t \in DOMAIN tables : Identity \in DOMAIN tables[t] => t = 1 /\ chain
      BY ZenonT(60), TableEntries
    <2>2. ASSUME NEW t \in 2..Len(tables)
          PROVE  /\ {v \in DOMAIN tables[t] : v # Identity} = {v \in DOMAIN tables[1] : v # Identity}
                 /\ \A v \in {w \in DOMAIN tables[t] : w # Identity} : tables[t][v] = tables[1][v]
      <3>1. t \in DOMAIN tables /\ 1 \in DOMAIN tables
        BY DEF Exact
      <3>2. /\ DOMAIN tables[t] \ {Identity} = DOMAIN Default
            /\ \A v \in DOMAIN Default : tables[t][v] = Default[v]
        BY ZenonT(60), <3>1, TableEntries
      <3>3. /\ DOMAIN tables[1] \ {Identity} = DOMAIN Default
            /\ \A v \in DOMAIN Default : tables[1][v] = Default[v]
        BY ZenonT(60), <3>1, TableEntries
      <3> HIDE DEF Default
      <3> QED BY <3>2, <3>3
    <2> QED BY <2>1, <2>2 DEF KernelHalfAgrees
  <1> QED BY <1>1, ExactInit, ExactStep, PTL DEF SpaceSpec

(***************************************************************************)
(* For every memory map, the memory that pmm_alloc hands out below the end *)
(* of the fixed map, and that of regions aligned to large pages above it,  *)
(* is mapped at HIGH_VMA in every table.                                   *)
(***************************************************************************)
THEOREM MemoryMapped == SpaceSpec => []MemoryReachable
  <1>1. Exact => MemoryReachable
    <2> SUFFICES ASSUME Exact, NEW t \in DOMAIN tables, NEW k \in DOMAIN map,
                        NEW p \in map[k].base..(map[k].base + map[k].length - 1),
                        p < DirectPages * Large \/ map[k].base % Large = 0
                 PROVE  /\ High(p \div Large) \in DOMAIN tables[t]
                        /\ tables[t][High(p \div Large)] = (p \div Large) * Large
      BY DEF MemoryReachable
    <2>1. High(p \div Large) \in DirectMap
      BY Reached
    <2>2. High(p \div Large) \in DOMAIN Default
          /\ Default[High(p \div Large)] = (p \div Large) * Large
      BY <2>1, DirectEntry
    <2> QED BY ZenonT(60), <2>2, TableEntries
  <1> QED BY <1>1, ExactInit, ExactStep, PTL DEF SpaceSpec
=============================================================================
