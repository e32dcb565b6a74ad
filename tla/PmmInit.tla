------------------------------ MODULE PmmInit -------------------------------
(***************************************************************************)
(* pmm_init of kernel/core/physical.c: from the boot loader's memory map   *)
(* to the allocator's modules.  Three loops over the map: the first sums   *)
(* up the metadata and cuts off low memory, the second reserves room for   *)
(* the metadata in the first region that is large enough, the third builds *)
(* a module per usable region.  Addresses and sizes are in bytes.          *)
(***************************************************************************)
EXTENDS Integers, Sequences

CONSTANTS
  Page,      \* PAGE_SIZE
  Low,       \* memory below this address is not used (0x100000)
  ModSize,   \* sizeof(struct pmm_module)
  Maps       \* memory maps: sequences of [base, length, usable]

\* The boot protocol's maps are sorted and not empty, their usable regions page aligned and
\* disjoint from every other region.
ASSUME MapsAssumption ==
  /\ {Page, Low, ModSize} \subseteq Nat \ {0}
  /\ Low % Page = 0
  /\ Maps \subseteq Seq([base : Nat, length : Nat, usable : BOOLEAN]) \ {<<>>}
  /\ \A map \in Maps :
       /\ \A i \in DOMAIN map : map[i].usable => /\ map[i].base % Page = 0
                                                 /\ map[i].length % Page = 0
       /\ \A i, j \in DOMAIN map : i < j => map[i].base + map[i].length <= map[j].base

VARIABLES
  given,        \* the map as the boot loader left it
  mmap,         \* the map as pmm_init modifies it
  phase,        \* which loop is running
  i,            \* its index
  buffer_size,  \* metadata bytes summed up by the first loop
  start,        \* where the reserved buffer begins
  meta_buffer,  \* the next free metadata byte
  modules       \* the module list: map entry, place of struct and bitmap

setupVars == <<given, mmap, phase, i, buffer_size, start, meta_buffer, modules>>

DivRoundup(x, y) == (x + y - 1) \div y

AlignUp(x, a) == DivRoundup(x, a) * a

\* Bytes of the bitmap for a region.
BitmapSize(length) == DivRoundup(DivRoundup(length, Page), 8)

SetupInit ==
  /\ given \in Maps
  /\ mmap = given
  /\ phase = "size"
  /\ i = 1
  /\ buffer_size = 0
  /\ start = 0
  /\ meta_buffer = 0
  /\ modules = <<>>

\* The loop index moves on; after the last entry the next loop begins.
Advance(next) ==
  IF i < Len(mmap) THEN i' = i + 1 /\ phase' = phase ELSE i' = 1 /\ phase' = next

\* What the first loop makes of a region that begins below the limit.  The
\* length is reduced by the distance from the new base, which is zero.
CutLow(e) ==
  IF e.base >= Low THEN e
  ELSE IF Low - e.base > e.length THEN [e EXCEPT !.length = 0]
  ELSE [e EXCEPT !.base = Low, !.length = @ - (Low - Low)]

\* Mutant: the bitmap is left out of the sum.
SizeStructsOnly ==
  /\ phase = "size"
  /\ buffer_size' = buffer_size + (IF mmap[i].usable THEN ModSize * 2 ELSE 0)
  /\ mmap' = [mmap EXCEPT ![i] = CutLow(@)]
  /\ Advance("reserve")
  /\ UNCHANGED <<given, start, meta_buffer, modules>>

\* First loop.
Size ==
  /\ phase = "size"
  /\ buffer_size' = buffer_size +
       (IF mmap[i].usable THEN ModSize * 2 + BitmapSize(mmap[i].length) ELSE 0)
  /\ mmap' = [mmap EXCEPT ![i] = CutLow(@)]
  /\ Advance("reserve")
  /\ UNCHANGED <<given, start, meta_buffer, modules>>

Fits(e) == e.usable /\ e.length >= buffer_size

\* Mutant: the base is not rounded up to a page.
CarvedUnaligned(e) ==
  [e EXCEPT !.base = @ + buffer_size,
            !.length = ((@ - buffer_size) \div Page) * Page]

\* A region without the buffer at its start, in whole pages.
Carved(e) ==
  [e EXCEPT !.base = AlignUp(@ + buffer_size, Page),
            !.length = ((@ - buffer_size) \div Page) * Page]

\* Second loop: the buffer goes to the first region it fits in.
Reserve ==
  /\ phase = "reserve"
  /\ Fits(mmap[i])
  /\ start' = mmap[i].base
  /\ meta_buffer' = mmap[i].base
  /\ mmap' = [mmap EXCEPT ![i] = Carved(@)]
  /\ i' = 1
  /\ phase' = "build"
  /\ UNCHANGED <<given, buffer_size, modules>>

\* Second loop: try the next region.  Without any, pmm_init has no buffer.
ReserveSkip ==
  /\ phase = "reserve"
  /\ ~Fits(mmap[i])
  /\ Advance("unbacked")
  /\ UNCHANGED <<given, mmap, buffer_size, start, meta_buffer, modules>>

\* Third loop: append a module for a usable region that is not empty.
Build ==
  /\ phase = "build"
  /\ IF mmap[i].usable /\ mmap[i].length # 0
     THEN LET at == AlignUp(meta_buffer, ModSize)
              bits == BitmapSize(mmap[i].length)
          IN  /\ modules' = Append(modules, [entry |-> i, at |-> at,
                              bitmap |-> at + ModSize * 2, size |-> bits])
              /\ meta_buffer' = at + ModSize * 2 + bits
     ELSE UNCHANGED <<modules, meta_buffer>>
  /\ Advance("done")
  /\ UNCHANGED <<given, mmap, buffer_size, start>>

SetupNext == Size \/ Reserve \/ ReserveSkip \/ Build

SetupSpec == SetupInit /\ [][SetupNext]_setupVars

-----------------------------------------------------------------------------
SetupTypeOK ==
  /\ given \in Maps
  /\ mmap \in Seq([base : Nat, length : Nat, usable : BOOLEAN])
  /\ phase \in {"size", "reserve", "build", "done", "unbacked"}
  /\ i \in DOMAIN mmap
  /\ {buffer_size, start, meta_buffer} \subseteq Nat
  /\ modules \in Seq([entry : Nat, at : Nat, bitmap : Nat, size : Nat])

\* First byte of a module's memory, and the byte after it.
From(k) == mmap[modules[k].entry].base
To(k) == From(k) + mmap[modules[k].entry].length

\* A module's region as the boot loader gave it, and whether the limit cuts it.
Origin(k) == given[modules[k].entry]
Straddles(k) == Origin(k).base < Low

(***************************************************************************)
(* What pmm_alloc relies on (ModulesAssumption of PhysicalMemory): the     *)
(* modules are in whole pages, not empty, sorted and disjoint, and consist *)
(* of memory of their usable regions above the limit ("create bitmap       *)
(* modules for all usable regions"), although base and length are adjusted *)
(* in two loops.  The exception is a region that straddles the limit: its  *)
(* length is not reduced (CutLow), so its module ends beyond the region,   *)
(* by as much as the region has below the limit, perhaps in the next one.  *)
(***************************************************************************)
FeedsAllocator ==
  phase = "done" =>
    \A k \in DOMAIN modules :
      LET bottom == IF Straddles(k) THEN Low ELSE Origin(k).base
      IN  /\ From(k) < To(k) /\ From(k) % Page = 0 /\ To(k) % Page = 0
          /\ Origin(k).usable /\ bottom <= From(k) /\ To(k) <= bottom + Origin(k).length
          /\ \A l \in DOMAIN modules : k < l => \/ To(k) <= From(l)
                                               \/ Straddles(k)

(***************************************************************************)
(* The layout exceeds the computed size by no more than the padding in     *)
(* front of each struct, and no two pieces of metadata overlap.            *)
(***************************************************************************)
OverrunIsPadding ==
  /\ phase \in {"build", "done"} =>
       meta_buffer <= start + buffer_size + Len(modules) * (ModSize - 1)
  /\ \A k \in DOMAIN modules : modules[k].at + ModSize <= modules[k].bitmap
  /\ \A k, l \in DOMAIN modules :
       k < l => modules[k].bitmap + modules[k].size <= modules[l].at
=============================================================================
