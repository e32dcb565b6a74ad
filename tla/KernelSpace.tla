----------------------------- MODULE KernelSpace ----------------------------
(***************************************************************************)
(* The kernel's half of every address space: vmm_default_table of          *)
(* kernel/core/virtual.c, and the callers that change kernel_mappings      *)
(* while contexts are created.  The kernel runs on the page table of the   *)
(* context it interrupts, so the tables have to agree.  Physical memory is *)
(* counted in small pages; what map_page does below one entry is in        *)
(* Paging.                                                                 *)
(***************************************************************************)
EXTENDS Integers, Sequences

CONSTANTS
  Large,        \* small pages per large page (512)
  DirectPages,  \* large pages that are always mapped (0x800)
  KernelPages,  \* small pages mapped for the kernel's image (0x6400)
  Contexts,     \* how many contexts are created at most
  Devices,      \* interrupt controllers, by physical page
  Maps          \* memory maps: sequences of [base, length, usable]

\* The controllers' addresses have 32 bits and are aligned to large pages.
ASSUME SpaceAssumption ==
  /\ {Large, DirectPages, KernelPages, Contexts} \subseteq Nat \ {0}
  /\ Devices \in Seq(Nat)
  /\ \A k \in DOMAIN Devices : Devices[k] % Large = 0 /\ Devices[k] < DirectPages * Large
  /\ \A m \in Maps : \A k \in DOMAIN m : m[k].base \in Nat /\ m[k].length \in Nat

VARIABLES
  map,      \* the boot loader's memory map
  stage,    \* where the boot core is
  device,   \* the next controller to map
  chain,    \* whether the other cores still need the identity page
  tables    \* page tables in order of creation; the first is kernel_mappings

spaceVars == <<map, stage, device, chain, tables>>

DivRoundup(x, y) == (x + y - 1) \div y

Kernel(n) == <<"kernel", n>>   \* page n of the image
High(n) == <<"high", n>>       \* large page n at HIGH_VMA
Identity == <<"low", 0>>       \* the large page at address 0

\* Mutant: the loop ends one page early.
DirectShort == 0..(DirectPages - 2)

\* Large pages of the fixed direct map.
Direct == 0..(DirectPages - 1)

\* Mutant: a region's pages are rounded down.
RegionWhole(r) ==
  (r.base \div Large)..(r.base \div Large + (r.length \div Large) - 1)

\* Large pages mapped for a region of the memory map: as many as its length
\* needs, from the one its base lies in.
Region(r) ==
  (r.base \div Large)..(r.base \div Large + DivRoundup(r.length, Large) - 1)

\* The pages that vmm_default_table maps: the image, the fixed direct map and
\* the regions.
Image == {Kernel(n) : n \in 0..(KernelPages - 1)}

DirectMap == {High(n) : n \in Direct \cup UNION {Region(map[k]) : k \in DOMAIN map}}

\* vmm_default_table.
Default ==
  [v \in Image \cup DirectMap |-> IF v \in Image THEN v[2] ELSE v[2] * Large]

\* map_page on kernel_mappings.
MapKernel(v, page) ==
  tables' = [tables EXCEPT ![1] = [w \in DOMAIN @ \cup {v} |-> IF w = v THEN page ELSE @[w]]]

SpaceInit ==
  /\ map \in Maps
  /\ stage = "vmm"
  /\ device = 1
  /\ chain = FALSE
  /\ tables = <<>>

VmmInit ==
  /\ stage = "vmm"
  /\ tables' = <<Default>>
  /\ stage' = "apic"
  /\ UNCHANGED <<map, device, chain>>

\* apic_init maps each controller, in kernel_mappings only.
MapDevice ==
  /\ stage = "apic"
  /\ device <= Len(Devices)
  /\ MapKernel(High(Devices[device] \div Large), Devices[device])
  /\ device' = device + 1
  /\ UNCHANGED <<map, stage, chain>>

\* boot_aps maps the page with the trampoline at its physical address.
BootAps ==
  /\ stage = "apic"
  /\ device > Len(Devices)
  /\ MapKernel(Identity, 0)
  /\ chain' = TRUE
  /\ stage' = "servers"
  /\ UNCHANGED <<map, device>>

\* The core that ends the chain unmaps it, while servers are launched or not.
ChainEnd ==
  /\ chain
  /\ tables' = [tables EXCEPT ![1] = [v \in DOMAIN @ \ {Identity} |-> @[v]]]
  /\ chain' = FALSE
  /\ UNCHANGED <<map, stage, device>>

\* create_blank_context of a server that is launched.
NewContext ==
  /\ stage = "servers"
  /\ Len(tables) <= Contexts
  /\ tables' = Append(tables, Default)
  /\ UNCHANGED <<map, stage, device, chain>>

SpaceNext == VmmInit \/ MapDevice \/ BootAps \/ ChainEnd \/ NewContext

SpaceSpec == SpaceInit /\ [][SpaceNext]_spaceVars

-----------------------------------------------------------------------------
Vpages == {"kernel", "high", "low"} \X Nat

SpaceTypeOK ==
  /\ stage \in {"vmm", "apic", "servers"}
  /\ device \in 1..(Len(Devices) + 1)
  /\ chain \in BOOLEAN
  /\ Len(tables) <= Contexts + 1
  /\ \A t \in DOMAIN tables : \A v \in DOMAIN tables[t] : v \in Vpages /\ tables[t][v] \in Nat

\* Safety of vmm_default_table: an interrupt or system call that runs on a
\* server's table sees the kernel's image, all memory and the interrupt
\* controllers where kernel_mappings has them.  Only the identity page differs:
\* no server ever sees it, even if its table is made while the cores start, and
\* it is gone from kernel_mappings once chain_aps has ended.
KernelHalfAgrees ==
  /\ \A t \in 2..Len(tables) :
       LET half(x) == {v \in DOMAIN tables[x] : v # Identity}
       IN  /\ half(t) = half(1)
           /\ \A v \in half(t) : tables[t][v] = tables[1][v]
  /\ \A t \in DOMAIN tables : Identity \in DOMAIN tables[t] => t = 1 /\ chain

\* Safety of the direct map: pmm_alloc clears a page through HIGH_VMA, so every
\* usable page below the end of the fixed map, and above it every page of a
\* region that begins with a large page, is mapped in every table.
MemoryReachable ==
  \A t \in DOMAIN tables : \A k \in DOMAIN map :
    map[k].usable =>
      \A p \in map[k].base..(map[k].base + map[k].length - 1) :
        p < DirectPages * Large \/ map[k].base % Large = 0 =>
          /\ High(p \div Large) \in DOMAIN tables[t]
          /\ tables[t][High(p \div Large)] = (p \div Large) * Large
=============================================================================
