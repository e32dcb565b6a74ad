------------------------------- MODULE Paging -------------------------------
(***************************************************************************)
(* The page tables of kernel/arch/x86/paging.c: map_page, unmap_page and   *)
(* page_entry for four and for five levels.  Each runs under the table's   *)
(* lock and is one step.  A table is a frame of entries; a page is the     *)
(* sequence of its indices, v[1] in the lowest table.  Flags are reduced   *)
(* to present, large (PS) and writable.                                    *)
(*                                                                         *)
(* pmm_alloc is external here: it hands out the lowest free frame, zeroed  *)
(* (PhysicalMemory shows that this is safe).                               *)
(***************************************************************************)
EXTENDS Integers, FiniteSets

CONSTANTS
  Idx,       \* indices into a table
  Vpages,    \* pages, of four indices and of five
  MaxFrame,  \* frames are 0 .. MaxFrame; frame 0 is the top table
  Given,     \* frames that callers map: memory they own, or devices
  Free,      \* Free[n]: frames pmm_alloc has for tables of n levels
  Large      \* those that callers map as the first of a large page

Frames == 0 .. MaxFrame

Root == 0

ASSUME PagingAssumption ==
  /\ MaxFrame \in Nat /\ Large \subseteq Given
  /\ Vpages \subseteq [1 .. 4 -> Idx] \cup [1 .. 5 -> Idx]
  /\ Given \subseteq Frames \ {Root}
  /\ Free \in [{4, 5} -> SUBSET (Frames \ (Given \cup {Root}))]
  /\ \A f \in Large : {f + i : i \in Idx} \subseteq Given

VARIABLES
  levels,  \* of the page tables
  mem,     \* mem[t][i]: entry i of table t
  free,    \* frames pmm_alloc may return
  stray    \* frames written as if they were tables

vars == <<levels, mem, free, stray>>

Entry(p, ps, rw, f) == [p |-> p, ps |-> ps, rw |-> rw, f |-> f]

NoEntry == Entry(FALSE, FALSE, FALSE, 0)

\* x86_paging_init asks the processor whether it has five levels.
Init ==
  /\ levels \in {4, 5}
  /\ mem = [t \in Frames |-> [i \in Idx |-> NoEntry]]
  /\ free = Free[levels]
  /\ stray = {}

\* The pages that are mapped and unmapped.
Pages == Vpages \cap [1 .. levels -> Idx]

NoTable == -1

Follow(t, i) == IF t # NoTable /\ mem[t][i].p THEN mem[t][i].f ELSE NoTable

\* The tables of the hardware's walk, level by level.
WalkTables(v) ==
  LET t[l \in 1 .. levels] ==
        IF l = levels THEN Root
        ELSE IF l = 1 /\ t[2] # NoTable /\ mem[t[2]][v[2]].ps THEN NoTable
        ELSE Follow(t[l + 1], v[l + 1])
  IN  t

\* Bounds: there is memory for the tables that v lacks, and mapping stops at
\* the first stray write, after which any entry may be anything.
Bounded(v) ==
  /\ Cardinality(free) >= Cardinality({l \in 1 .. levels : WalkTables(v)[l] = NoTable})
  /\ stray = {}

\* Mutant: intermediate entries take the write permission of the first page.
TableWritableFirst(rw) == rw

\* The write permission of an entry that points to a new table: four levels
\* add it, five levels copy the flags of the page being mapped.
TableWritable(rw) == rw \/ levels = 4

\* One level down in map_page, with a new table where there is none.
Descend(at, l, v, rw) ==
  LET e == at.mem[at.t][v[l]]
      new == CHOOSE n \in at.free : \A k \in at.free : n <= k
  IN  IF e.p THEN [at EXCEPT !.t = e.f]
      ELSE [t |-> new,
            free |-> at.free \ {new},
            mem |-> [at.mem EXCEPT ![at.t][v[l]] = Entry(TRUE, FALSE, TableWritable(rw), new)]]

\* The table of large-page entries that map_page reaches for v.
Reach(v, rw) ==
  LET at[l \in 2 .. levels] ==
        IF l = levels THEN [t |-> Root, mem |-> mem, free |-> free]
        ELSE Descend(at[l + 1], l + 1, v, rw)
  IN  at[2]

\* Mutant: the flag that marks a large page is masked out.
MapLargeMasked(v, f, rw) ==
  /\ Bounded(v)
  /\ LET at == Reach(v, rw)
     IN  /\ mem' = [at.mem EXCEPT ![at.t][v[2]] = Entry(TRUE, FALSE, rw, f)]
         /\ free' = at.free
         /\ UNCHANGED <<levels, stray>>

\* map_page with X86_FLAGS_PS.
MapLarge(v, f, rw) ==
  /\ Bounded(v)
  /\ LET at == Reach(v, rw)
     IN  /\ mem' = [at.mem EXCEPT ![at.t][v[2]] = Entry(TRUE, TRUE, rw, f)]
         /\ free' = at.free
         /\ UNCHANGED <<levels, stray>>

\* map_page without it.  A large page in the way is present, so its frame is
\* taken for a table and written to.
MapSmall(v, f, rw) ==
  /\ Bounded(v)
  /\ LET at == Descend(Reach(v, rw), 2, v, rw)
     IN  /\ mem' = [at.mem EXCEPT ![at.t][v[1]] = Entry(TRUE, FALSE, rw, f)]
         /\ free' = at.free
         /\ stray' = stray \cup ({at.t} \cap Given)
         /\ UNCHANGED levels

(***************************************************************************)
(* unmap_page and page_entry give up at the first entry that is absent.    *)
(* Five-level unmap_page indexes the top table with the index of the level *)
(* below.                                                                  *)
(***************************************************************************)
UnmapIndex(v, l) == IF l = 5 THEN v[4] ELSE v[l]

UnmapTable(v) ==
  LET t[l \in 2 .. levels] ==
        IF l = levels THEN Root ELSE Follow(t[l + 1], UnmapIndex(v, l + 1))
  IN  t[2]

\* Mutant: the lowest table is given back, although other pages use it.
UnmapFreesTable(v) ==
  LET low == Follow(UnmapTable(v), v[2])
  IN  /\ low # NoTable
      /\ mem' = [mem EXCEPT ![low][v[1]].p = FALSE]
      /\ free' = free \cup {low}
      /\ UNCHANGED <<levels, stray>>

Unmap(v) ==
  LET t == UnmapTable(v)
      low == Follow(t, v[2])
  IN  /\ mem' = IF t = NoTable THEN mem
                ELSE IF mem[t][v[2]].ps THEN [mem EXCEPT ![t][v[2]].p = FALSE]
                ELSE IF low = NoTable THEN mem
                ELSE [mem EXCEPT ![low][v[1]].p = FALSE]
      /\ UNCHANGED <<levels, free, stray>>

Next ==
  \E v \in Pages :
    \/ \E rw \in BOOLEAN :
         \/ \E f \in Given \ Large : MapSmall(v, f, rw)
         \/ \E f \in Large : MapLarge(v, f, rw)
    \/ Unmap(v)

Spec == Init /\ [][Next]_vars

-----------------------------------------------------------------------------
(***************************************************************************)
(* What the hardware translates a page to.                                 *)
(***************************************************************************)
Absent == [frame |-> NoTable, rw |-> FALSE]

Translate(v) ==
  LET t == WalkTables(v)
      low == Follow(t[2], v[2])
      rw == \A l \in 2 .. levels : mem[t[l]][v[l]].rw
  IN  IF low = NoTable THEN Absent
      ELSE IF mem[t[2]][v[2]].ps THEN [frame |-> low + v[1], rw |-> rw]
      ELSE IF ~mem[low][v[1]].p THEN Absent
      ELSE [frame |-> mem[low][v[1]].f, rw |-> rw /\ mem[low][v[1]].rw]

\* The pages of the large page that v is in: they differ in the lowest index.
Block(v) ==
  {w \in Vpages : DOMAIN w = DOMAIN v /\ \A l \in DOMAIN v \ {1} : w[l] = v[l]}

Offset(v) == v[1]

Space ==
  INSTANCE AddressSpace WITH
    Frames <- Given,
    trans <- [v \in Vpages |-> IF v \in Pages THEN Translate(v) ELSE Absent]

-----------------------------------------------------------------------------
TypeOK ==
  /\ levels \in {4, 5}
  /\ mem \in [Frames -> [Idx -> [p : BOOLEAN, ps : BOOLEAN, rw : BOOLEAN, f : Frames]]]
  /\ free \subseteq Frames \ (Given \cup {Root})
  /\ stray \subseteq Frames

(***************************************************************************)
(* Four-level tables implement an address space as long as no frame has    *)
(* been written by mistake: after map_page the page translates to the      *)
(* frame and the permission asked for, after unmap_page to nothing, and no *)
(* other page is affected, although pages share tables and the permissions *)
(* in them, and a large page may replace a whole table.  Five-level tables *)
(* do not (UnmapIndex, TableWritable).                                     *)
(***************************************************************************)
IsAddressSpace ==
  [][levels = 4 /\ stray' = {} =>
       \A v \in Pages :
         /\ Unmap(v) => Space!Unmap(v)
         /\ \A rw \in BOOLEAN :
              /\ \A f \in Given \ Large : MapSmall(v, f, rw) => Space!Map(v, f, rw)
              /\ \A f \in Large : MapLarge(v, f, rw) => Space!MapLarge(v, f, rw)]_vars

(***************************************************************************)
(* Tables are private: two pages share the table of a level only when they *)
(* agree on the indices above it, and no frame of a table is free or is    *)
(* one that callers map.                                                   *)
(***************************************************************************)
TablesPrivate ==
  stray = {} =>
    LET walks == [v \in Pages |-> WalkTables(v)]
    IN  \A v \in Pages : \A l \in 1 .. (levels - 1) :
          walks[v][l] # NoTable =>
            /\ walks[v][l] \notin free \cup Given \cup {Root}
            /\ \A w \in Pages : \A k \in 1 .. (levels - 1) :
                 walks[v][l] = walks[w][k] =>
                   l = k /\ \A m \in (l + 1) .. levels : v[m] = w[m]

(***************************************************************************)
(* map_page writes to a frame that is not a table only when a small page   *)
(* is mapped inside a large one that is present, which it does not test.   *)
(***************************************************************************)
StrayOnlyUnderLarge ==
  [][stray' # stray =>
       \E v \in Pages :
         LET t == WalkTables(v)[2]
         IN  /\ t # NoTable
             /\ mem[t][v[2]].p /\ mem[t][v[2]].ps
             /\ stray' = stray \cup {mem[t][v[2]].f}]_vars
=============================================================================
