----------------------------- MODULE ServerImage ----------------------------
(***************************************************************************)
(* launch_server of kernel/core/server.c with the loader it calls,         *)
(* kernel/core/elf.c: from an executable in memory to an address space, a  *)
(* stack and an entry point.  A frame is a function from offsets to bytes; *)
(* a byte is its offset in the file, a byte of the argument, or zero.      *)
(* Headers and table entries have one byte each.                           *)
(***************************************************************************)
EXTENDS Integers, Sequences

CONSTANTS
  Page,           \* PAGE_SIZE
  StackLocation,  \* SERVER_DEFAULT_STACK_LOCATION
  StackSize,      \* SERVER_DEFAULT_STACK_SIZE
  StackAlign,     \* 16, the alignment of the first stack pointer
  ArgLengths,     \* possible values of arg_length; 0 for no argument
  Files           \* executables

sp == StackLocation + StackSize

SectionHeader == [bss : BOOLEAN, addr : Nat, offset : Nat, size : Nat, flags : Nat]

ProgramHeader == [load : BOOLEAN, vaddr : Nat, offset : Nat, filesz : Nat, flags : Nat]

\* ELF_PF_W and ELF_PF_X.
Writable(flags) == (flags \div 2) % 2 = 1
Executable(flags) == (flags \div 4) % 2 = 1

\* n bytes at a and m bytes at b are apart.
Apart(a, n, b, m) == a + n <= b \/ b + m <= a

(***************************************************************************)
(* How the linker.ld of every server lays out an executable: .text, .data, *)
(* .bss and .rodata begin on a page each, one behind the other, from       *)
(* 0x401000 on, which is behind the page above the stack.  There is one    *)
(* .bss, and it is writable.                                               *)
(***************************************************************************)
LaidOut(f) ==
  LET load == {k \in DOMAIN f.phdrs : f.phdrs[k].load}
      bss == {k \in DOMAIN f.shdrs : f.shdrs[k].bss}
      full == {k \in bss : f.shdrs[k].size # 0}
  IN  /\ \A k \in load : f.phdrs[k].vaddr % Page = 0 /\ f.phdrs[k].vaddr >= sp + Page
      /\ \A k, l \in load : k # l => Apart(f.phdrs[k].vaddr, f.phdrs[k].filesz,
                                           f.phdrs[l].vaddr, f.phdrs[l].filesz)
      /\ \A k \in bss : f.shdrs[k].addr % Page = 0
      /\ \A k \in full : /\ f.shdrs[k].addr >= sp + Page
                         /\ Writable(f.shdrs[k].flags)
                         /\ \A l \in full : k = l
                         /\ \A l \in load : Apart(f.shdrs[k].addr, f.shdrs[k].size,
                                                  f.phdrs[l].vaddr, f.phdrs[l].filesz)

\* The stack is made of pages above the null page, and an argument fits in the
\* part of it that is mapped.
ASSUME ImageAssumption ==
  /\ {Page, StackLocation, StackSize, StackAlign} \subseteq Nat \ {0}
  /\ StackLocation % Page = 0 /\ StackSize % Page = 0 /\ Page % StackAlign = 0
  /\ ArgLengths \subseteq 0..(StackSize - Page)
  /\ \A f \in Files :
       /\ f.length \in Nat /\ f.entry \in Nat
       /\ f.shdrs \in Seq(SectionHeader) /\ f.phdrs \in Seq(ProgramHeader)
       /\ LaidOut(f)

VARIABLES
  file,    \* the executable: length, signature, section and program headers
  arg,     \* arg_length
  pc,      \* where launch_server is
  i, j,    \* the loop indices of elf64_file_load
  mem,     \* the frames pmm_alloc has given out, zeroed by it
  first,   \* the first frame of the segment being loaded
  space,   \* the page table: page -> [frame, w, x]
  regs     \* rip, rdi and rsp of the new context

vars == <<file, arg, pc, i, j, mem, first, space, regs>>

Zero == -1
ArgByte(k) == -2 - k

\* f where it is defined, g elsewhere.
Over(f, g) == [x \in DOMAIN f \cup DOMAIN g |-> IF x \in DOMAIN f THEN f[x] ELSE g[x]]

Blank == [o \in 0..(Page - 1) |-> Zero]

DivRoundup(x, y) == (x + y - 1) \div y

\* elf64_read: how many of cnt bytes at an offset are in the file.
Read(offset, cnt) ==
  IF file.length < offset THEN 0
  ELSE IF file.length < offset + cnt THEN file.length - offset ELSE cnt

\* elf64_file_init succeeds: the header, both tables and the names are in the
\* file, and elf64_validate accepts the header.
InitSucceeds ==
  /\ Read(0, 1) = 1
  /\ Read(file.shoff, Len(file.shdrs)) = Len(file.shdrs)
  /\ file.valid
  /\ Read(file.phoff, Len(file.phdrs)) = Len(file.phdrs)
  /\ LET strtab == file.shdrs[file.shstrndx]
     IN  Read(strtab.offset, strtab.size) = strtab.size

Init ==
  /\ file \in Files
  /\ arg \in ArgLengths
  /\ pc = "init"
  /\ i = 1
  /\ j = 0
  /\ mem = <<>>
  /\ first = 0
  /\ space = <<>>
  /\ regs = [rip |-> 0, rdi |-> 0, rsp |-> 0]

\* elf64_file_init returns -1, and so does launch_server.
FileInitFails ==
  /\ pc = "init"
  /\ ~InitSucceeds
  /\ pc' = "failed"
  /\ UNCHANGED <<file, arg, i, j, mem, first, space, regs>>

\* elf64_file_init and elf64_file_aux, which finds the entry point.
FileInit ==
  /\ pc = "init"
  /\ InitSucceeds
  /\ pc' = "bss"
  /\ regs' = [regs EXCEPT !.rip = file.entry]
  /\ UNCHANGED <<file, arg, i, j, mem, first, space>>

\* Pages for size bytes at addr.
PageCnt(addr, size) ==
  LET misalignment == addr % Page
  IN  DivRoundup(misalignment + size, Page) +
        IF misalignment + size > DivRoundup(size, Page) * Page THEN 1 ELSE 0

\* Memory with cnt more frames.
Allocated(cnt) == mem \o [k \in 1..cnt |-> Blank]

\* A new frame for each of cnt pages from addr on; map_page replaces what was
\* mapped there.
MapFresh(addr, cnt, flags) ==
  /\ mem' = Allocated(cnt)
  /\ space' = Over([p \in (addr \div Page)..(addr \div Page + cnt - 1) |->
                      [frame |-> Len(mem) + 1 + p - addr \div Page,
                       w |-> Writable(flags), x |-> Executable(flags)]], space)

\* The first section called .bss that has pages.
Bss ==
  {k \in DOMAIN file.shdrs :
     LET HasPages(l) == file.shdrs[l].bss /\ PageCnt(file.shdrs[l].addr, file.shdrs[l].size) # 0
     IN  HasPages(k) /\ \A l \in 1..(k - 1) : ~HasPages(l)}

\* elf64_load_section.  Section flags are tested with the segment masks: a
\* section in memory (SHF_ALLOC = 2) is writable.
LoadBss ==
  /\ pc = "bss"
  /\ pc' = "segment"
  /\ IF Bss = {} THEN UNCHANGED <<mem, space>>
     ELSE \E k \in Bss : LET s == file.shdrs[k] IN
            MapFresh(s.addr, PageCnt(s.addr, s.size), s.flags)
  /\ UNCHANGED <<file, arg, i, j, first, regs>>

Pages(k) == PageCnt(file.phdrs[k].vaddr, file.phdrs[k].filesz)

\* A header that is not PT_LOAD, or a segment without pages.
SkipSegment ==
  /\ pc = "segment"
  /\ i <= Len(file.phdrs)
  /\ ~file.phdrs[i].load \/ Pages(i) = 0
  /\ i' = i + 1
  /\ UNCHANGED <<file, arg, pc, j, mem, first, space, regs>>

\* The first inner loop of elf64_file_load.
MapSegment ==
  /\ pc = "segment"
  /\ i <= Len(file.phdrs)
  /\ file.phdrs[i].load /\ Pages(i) # 0
  /\ MapFresh(file.phdrs[i].vaddr, Pages(i), file.phdrs[i].flags)
  /\ first' = Len(mem) + 1
  /\ j' = 0
  /\ pc' = "copy"
  /\ UNCHANGED <<file, arg, i, regs>>

\* Mutant: a segment that ends with its page counts as unfinished.
IsLastInclusive == Page + j * Page >= file.phdrs[i].filesz

\* The last page takes the size modulo the bytes before it.
IsLast == Page + j * Page > file.phdrs[i].filesz

\* That is a division by zero on the first page, whose exception stops the core.
DivideByZero ==
  /\ pc = "copy"
  /\ IsLast /\ j = 0
  /\ pc' = "halted"
  /\ UNCHANGED <<file, arg, i, j, mem, first, space, regs>>

\* Mutant: the last page is filled from the file whatever the size.
CntFull == Page

\* Bytes to copy to page j.
Cnt == IF IsLast THEN file.phdrs[i].filesz % (j * Page) ELSE Page

\* The second inner loop of elf64_file_load.
CopyPage ==
  /\ pc = "copy"
  /\ ~(IsLast /\ j = 0)
  /\ LET misalignment == IF j = 0 THEN file.phdrs[i].vaddr % Page ELSE 0
         offset == file.phdrs[i].offset + j * Page
         read == Read(offset, Cnt - misalignment)
     IN  mem' = [mem EXCEPT ![first + j] =
                   Over([o \in misalignment..(misalignment + read - 1) |->
                           offset + o - misalignment], @)]
  /\ IF j + 1 < Pages(i)
     THEN j' = j + 1 /\ UNCHANGED <<i, pc>>
     ELSE i' = i + 1 /\ pc' = "segment" /\ UNCHANGED j
  /\ UNCHANGED <<file, arg, first, space, regs>>

\* The frame mapped k pages below sp; base is the first frame of the stack.
StackFrame(base, k) == base + StackSize \div Page - k

ArgStart == sp - arg

\* The rest of launch_server.  The page above sp is mapped and the lowest page
\* of the stack is not; the argument is written through the frames.
MakeStack ==
  /\ pc = "segment"
  /\ i > Len(file.phdrs)
  /\ LET base == Len(mem) + 1
         blank == Allocated(sp \div Page)
         top == StackSize \div Page
     IN  /\ space' = Over([p \in (sp \div Page - top + 1)..(sp \div Page) |->
                             [frame |-> StackFrame(base, sp \div Page - p),
                              w |-> TRUE, x |-> TRUE]], space)
         /\ mem' = [f \in DOMAIN blank |->
                      [o \in 0..(Page - 1) |->
                         LET k == (f - base) * Page + o - (StackSize - arg)
                         IN  IF f >= base /\ k \in 0..(arg - 1)
                             THEN ArgByte(k) ELSE blank[f][o]]]
  /\ regs' = [regs EXCEPT !.rdi = IF arg = 0 THEN @ ELSE ArgStart,
                          !.rsp = (ArgStart \div StackAlign) * StackAlign]
  /\ pc' = "done"
  /\ UNCHANGED <<file, arg, i, j, first>>

Next ==
  \/ FileInitFails \/ FileInit \/ LoadBss \/ SkipSegment \/ MapSegment
  \/ DivideByZero \/ CopyPage \/ MakeStack

Spec == Init /\ [][Next]_vars

\* Nothing takes the core away: the boot core runs this code with interrupts
\* disabled.
FairSpec == Spec /\ WF_vars(Next)

-----------------------------------------------------------------------------
TypeOK ==
  /\ arg \in ArgLengths
  /\ pc \in {"init", "bss", "segment", "copy", "done", "failed", "halted"}
  /\ i \in 1..(Len(file.phdrs) + 1)
  /\ j \in Nat
  /\ mem \in Seq([0..(Page - 1) -> Int])
  /\ first \in 0..Len(mem)
  /\ \A p \in DOMAIN space : space[p].frame \in DOMAIN mem
  /\ regs \in [rip : Nat, rdi : Nat, rsp : Nat]

Mapped(a) == a \div Page \in DOMAIN space
At(a) == mem[space[a \div Page].frame][a % Page]

Loads == {k \in DOMAIN file.phdrs : file.phdrs[k].load}
From(k) == file.phdrs[k].vaddr
To(k) == file.phdrs[k].vaddr + file.phdrs[k].filesz

\* The segments: a byte of a page is the byte of the file that belongs there,
\* or zero behind the segment and behind the end of the file, and the page has
\* the segment's rights.
SegmentsExact ==
  \A k \in Loads :
    \A a \in From(k)..(DivRoundup(To(k), Page) * Page - 1) :
      /\ Mapped(a)
      /\ At(a) = LET o == file.phdrs[k].offset + a - From(k)
                 IN  IF a < To(k) /\ o < file.length THEN o ELSE Zero
      /\ space[a \div Page].w = Writable(file.phdrs[k].flags)
      /\ space[a \div Page].x = Executable(file.phdrs[k].flags)

\* .bss: mapped, zero and writable.
BssZero ==
  \A k \in DOMAIN file.shdrs : file.shdrs[k].bss =>
    \A a \in file.shdrs[k].addr..(file.shdrs[k].addr + file.shdrs[k].size - 1) :
      Mapped(a) /\ At(a) = Zero /\ space[a \div Page].w

\* The stack: the argument is where rdi points, and the stack pointer is
\* aligned, below the argument, with mapped memory down to the last but one
\* page of the stack.
StackReady ==
  /\ arg # 0 => \A k \in 0..(arg - 1) : Mapped(regs.rdi + k) /\ At(regs.rdi + k) = ArgByte(k)
  /\ regs.rsp % StackAlign = 0
  /\ arg # 0 => regs.rsp <= regs.rdi
  /\ \A a \in (StackLocation + Page)..(regs.rsp - 1) : Mapped(a) /\ At(a) = Zero

\* Safety of launch_server and elf64_file_load: a server that was loaded starts
\* on exactly what its executable describes, although .bss is mapped before the
\* segments, the last page of a segment is filled in part, and the stack is
\* mapped downwards and filled upwards.
ImageExact == pc = "done" => SegmentsExact /\ BssZero /\ StackReady

\* Liveness: launch_server returns, unless a segment is shorter than a page.
\* Then elf64_file_load divides by zero (kernel/core/elf.c:138).
Returns ==
  (\A k \in Loads : file.phdrs[k].filesz = 0 \/ file.phdrs[k].filesz >= Page)
    ~> pc \in {"done", "failed"}
=============================================================================
