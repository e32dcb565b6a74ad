------------------------- MODULE ServerImageProofs --------------------------
(***************************************************************************)
(* For every executable that is laid out as the linker script of the       *)
(* servers does, and every size of page and stack: a server that was       *)
(* loaded starts on exactly what its executable describes.                 *)
(*                                                                         *)
(* A page table entry refers to a frame, so each write must be shown to    *)
(* disturb no page that is complete.  New frames are behind all earlier    *)
(* ones, and new pages apart from all earlier ones: the regions begin on   *)
(* pages and their bytes are apart, and so are then their pages.           *)
(***************************************************************************)
EXTENDS ServerImage, TLAPS

-----------------------------------------------------------------------------
(* The inductive invariant.                                                *)

Frame == [0..(Page - 1) -> Int]

\* The pages of size bytes at addr.
PagesAt(addr, size) == (addr \div Page)..(addr \div Page + PageCnt(addr, size) - 1)

SegmentPages(k) == PagesAt(file.phdrs[k].vaddr, file.phdrs[k].filesz)

\* What page p must hold, as a page of segment k.
Content(k, p) ==
  [o \in 0..(Page - 1) |->
     LET n == (p - file.phdrs[k].vaddr \div Page) * Page + o
     IN  IF n < file.phdrs[k].filesz /\ file.phdrs[k].offset + n < file.length
         THEN file.phdrs[k].offset + n ELSE Zero]

\* Page p is mapped with the rights of segment k.
Allowed(k, p) ==
  /\ p \in DOMAIN space
  /\ space[p].w = Writable(file.phdrs[k].flags)
  /\ space[p].x = Executable(file.phdrs[k].flags)

\* Segment k is in memory.
Loaded(k) ==
  \A p \in SegmentPages(k) : Allowed(k, p) /\ mem[space[p].frame] = Content(k, p)

\* The sections called .bss that have bytes.
FullBss == {k \in DOMAIN file.shdrs : file.shdrs[k].bss /\ file.shdrs[k].size # 0}

BssPages(k) == PagesAt(file.shdrs[k].addr, file.shdrs[k].size)

BssMapped ==
  \A k \in FullBss : \A p \in BssPages(k) :
    p \in DOMAIN space /\ space[p].w /\ mem[space[p].frame] = Blank

\* Segment i is mapped, to the frames from first on, and its first j pages are
\* filled.  Everything else is in frames before these.
Copying ==
  /\ i \in Loads /\ j < Pages(i) /\ first # 0 /\ first + Pages(i) <= Len(mem) + 1
  /\ \A p \in SegmentPages(i) :
       LET q == p - file.phdrs[i].vaddr \div Page
       IN  /\ Allowed(i, p) /\ space[p].frame = first + q
           /\ mem[first + q] = IF q < j THEN Content(i, p) ELSE Blank
  /\ \A p \in DOMAIN space \ SegmentPages(i) : space[p].frame < first

\* The pages of the stack that are mapped, and what they hold.
StackPages == (StackLocation \div Page + 1)..(sp \div Page)

StackContent(p) ==
  [o \in 0..(Page - 1) |->
     LET k == p * Page + o - ArgStart
     IN  IF k \in 0..(arg - 1) THEN ArgByte(k) ELSE Zero]

StackMade ==
  /\ \A p \in StackPages : p \in DOMAIN space /\ mem[space[p].frame] = StackContent(p)
  /\ arg # 0 => regs.rdi = ArgStart
  /\ regs.rsp = (ArgStart \div StackAlign) * StackAlign

\* A segment that makes elf64_file_load divide by zero.
Short(k) == file.phdrs[k].filesz # 0 /\ file.phdrs[k].filesz < Page

ImageInv ==
  /\ file \in Files /\ TypeOK
  /\ pc \in {"init", "bss"} => i = 1
  /\ pc \in {"segment", "copy", "done"} =>
       BssMapped /\ \A k \in Loads : k < i => Loaded(k)
  /\ pc = "copy" => Copying
  /\ pc = "done" => StackMade /\ i > Len(file.phdrs)
  /\ pc = "halted" => \E k \in Loads : Short(k)

-----------------------------------------------------------------------------
(* Arithmetic of pages.                                                    *)

LEMMA PageNat == Page \in Nat \ {0}
  BY ImageAssumption

LEMMA Quotient ==
  ASSUME NEW x \in Nat, NEW y \in Nat \ {0}
  PROVE  /\ x \div y \in Nat /\ x % y \in 0 .. y - 1
         /\ x = y * (x \div y) + (x % y)
  <1>1. x \div y \in Nat
    OBVIOUS
  <1>2. x % y \in 0 .. y - 1
    OBVIOUS
  <1>3. x = y * (x \div y) + (x % y)
    BY SMTT(30)
  <1> QED BY <1>1, <1>2, <1>3

\* Multiplication is monotone.
LEMMA Less ==
  ASSUME NEW n \in Nat \ {0}, NEW x \in Int, NEW y \in Int, n * x < n * y
  PROVE  x < y
  <1> SUFFICES ASSUME y <= x PROVE FALSE
    OBVIOUS
  <1>1. n * (x - y) >= 0
    OBVIOUS
  <1>2. n * (x - y) = n * x - n * y
    OBVIOUS
  <1> QED BY <1>1, <1>2

\* A quotient and a remainder are determined.
LEMMA Unique ==
  ASSUME NEW y \in Nat \ {0}, NEW x \in Nat, NEW q \in Nat, NEW r \in 0 .. y - 1,
         x = y * q + r
  PROVE  x \div y = q /\ x % y = r
  <1> DEFINE p == x \div y
             s == x % y
  <1>1. p \in Nat /\ s \in 0 .. y - 1 /\ x = y * p + s
    BY Zenon, Quotient
  <1> HIDE DEF p, s
  <1>2. y * p < y * (q + 1)
    <2>1. y * (q + 1) = y * q + y
      OBVIOUS
    <2>2. y * p \in Int /\ y * q \in Int
      BY <1>1
    <2> QED BY <1>1, <2>1, <2>2
  <1>3. y * q < y * (p + 1)
    <2>1. y * (p + 1) = y * p + y
      BY <1>1
    <2>2. y * p \in Int /\ y * q \in Int
      BY <1>1
    <2> QED BY <1>1, <2>1, <2>2
  <1>4. p < q + 1 /\ q < p + 1
    BY <1>1, <1>2, <1>3, Less
  <1>5. p = q
    BY <1>1, <1>4
  <1>6. s = r
    BY <1>1, <1>5
  <1> QED BY <1>5, <1>6 DEF p, s

\* The count of pages for bytes that begin with a page.
LEMMA Count ==
  ASSUME NEW a \in Nat, a % Page = 0, NEW n \in Nat
  PROVE  /\ PageCnt(a, n) \in Nat
         /\ n <= Page * PageCnt(a, n)
         /\ Page * PageCnt(a, n) < n + Page
  <1> DEFINE c == (n + Page - 1) \div Page
             r == (n + Page - 1) % Page
  <1>1. c \in Nat /\ r \in 0 .. Page - 1 /\ n + Page - 1 = Page * c + r
    <2>1. n + Page - 1 \in Nat
      BY PageNat
    <2> QED BY Zenon, <2>1, PageNat, Quotient
  <1>2. DivRoundup(n, Page) = c
    BY DEF DivRoundup
  <1> HIDE DEF c, r
  <1>3. Page * c \in Nat /\ c * Page = Page * c
    BY <1>1, PageNat
  <1>4. n <= Page * c /\ Page * c < n + Page
    BY <1>1, <1>3, PageNat
  <1>5. 0 + n = n
    OBVIOUS
  <1>6. PageCnt(a, n) = c + 0
    BY <1>2, <1>3, <1>4, <1>5 DEF PageCnt
  <1> QED BY <1>1, <1>4, <1>6

\* An address on a page.
LEMMA Aligned ==
  ASSUME NEW a \in Nat, a % Page = 0
  PROVE  a \div Page \in Nat /\ a = Page * (a \div Page)
  <1> DEFINE q == a \div Page
  <1>1. q \in Nat /\ a = Page * q + 0
    BY PageNat, Quotient
  <1> HIDE DEF q
  <1>2. Page * q \in Nat
    BY <1>1, PageNat
  <1>3. a = Page * q
    BY <1>1, <1>2
  <1> QED BY <1>1, <1>3 DEF q

\* What begins behind some bytes, with a page, is behind their pages.
LEMMA Behind ==
  ASSUME NEW a \in Nat, a % Page = 0, NEW n \in Nat, NEW b \in Nat, b % Page = 0,
         a + n <= b
  PROVE  a \div Page + PageCnt(a, n) <= b \div Page
  <1> DEFINE p == a \div Page
             q == b \div Page
             c == PageCnt(a, n)
  <1>1. p \in Nat /\ a = Page * p /\ q \in Nat /\ b = Page * q
    BY Aligned
  <1>2. c \in Nat /\ Page * c < n + Page
    BY Count
  <1> HIDE DEF p, q, c
  <1>3. /\ Page * p \in Nat /\ Page * q \in Nat /\ Page * c \in Nat
        /\ Page * (p + c) = Page * p + Page * c /\ Page * (q + 1) = Page * q + Page
    BY <1>1, <1>2, PageNat
  <1>4. Page * (p + c) < Page * (q + 1)
    BY <1>1, <1>2, <1>3, PageNat
  <1>5. p + c < q + 1
    BY <1>1, <1>2, <1>4, PageNat, Less
  <1> QED BY <1>1, <1>2, <1>5 DEF p, q, c

\* Bytes that are apart are on different pages.
LEMMA ApartPages ==
  ASSUME NEW a \in Nat, a % Page = 0, NEW n \in Nat, NEW b \in Nat, b % Page = 0,
         NEW m \in Nat, Apart(a, n, b, m)
  PROVE  PagesAt(a, n) \cap PagesAt(b, m) = {}
  <1>1. /\ a \div Page \in Nat /\ b \div Page \in Nat
        /\ PageCnt(a, n) \in Nat /\ PageCnt(b, m) \in Nat
    BY Aligned, Count
  <1>2. CASE a + n <= b
    <2>1. a \div Page + PageCnt(a, n) <= b \div Page
      BY <1>2, Behind
    <2> QED BY <1>1, <2>1 DEF PagesAt
  <1>3. CASE b + m <= a
    <2>1. b \div Page + PageCnt(b, m) <= a \div Page
      BY <1>3, Behind
    <2> QED BY <1>1, <2>1 DEF PagesAt
  <1> QED BY <1>2, <1>3 DEF Apart

\* The page of an address among the pages of n bytes at a, and its place there.
LEMMA InPages ==
  ASSUME NEW a \in Nat, a % Page = 0, NEW n \in Nat, NEW x \in Nat, a <= x,
         x < a + Page * PageCnt(a, n)
  PROVE  /\ x \div Page \in PagesAt(a, n) /\ x % Page \in 0 .. Page - 1
         /\ x - a = (x \div Page - a \div Page) * Page + (x % Page)
  <1> DEFINE p == a \div Page
             c == PageCnt(a, n)
             q == x \div Page
             r == x % Page
  <1>1. p \in Nat /\ a = Page * p /\ c \in Nat
    BY Aligned, Count
  <1>2. q \in Nat /\ r \in 0 .. Page - 1 /\ x = Page * q + r
    BY Zenon, PageNat, Quotient
  <1> HIDE DEF p, q, c, r
  <1>3. /\ Page * p \in Nat /\ Page * q \in Nat /\ Page * c \in Nat
        /\ Page * (p + c) = Page * p + Page * c /\ Page * (q + 1) = Page * q + Page
        /\ (q - p) * Page = Page * q - Page * p
    BY <1>1, <1>2, PageNat
  <1>4. x < a + Page * c
    BY DEF c
  <1>5. p < q + 1
    <2>1. Page * p < Page * (q + 1)
      BY <1>1, <1>2, <1>3, PageNat
    <2> QED BY <1>1, <1>2, <2>1, PageNat, Less
  <1>6. q < p + c
    <2>1. Page * q < Page * (p + c)
      BY <1>1, <1>2, <1>3, <1>4, PageNat
    <2> QED BY <1>1, <1>2, <2>1, PageNat, Less
  <1>7. q \in p .. p + c - 1
    BY <1>1, <1>2, <1>5, <1>6
  <1>8. x - a = (q - p) * Page + r
    BY <1>1, <1>2, <1>3
  <1> QED BY <1>2, <1>7, <1>8 DEF p, q, c, r, PagesAt

-----------------------------------------------------------------------------
(* Executables, as they are laid out.                                      *)

LEMMA Headers ==
  ASSUME file \in Files
  PROVE  /\ file.length \in Nat /\ file.entry \in Nat /\ LaidOut(file)
         /\ Len(file.phdrs) \in Nat /\ DOMAIN file.phdrs = 1 .. Len(file.phdrs)
         /\ \A k \in DOMAIN file.phdrs : file.phdrs[k] \in ProgramHeader
         /\ \A k \in DOMAIN file.shdrs : k \in Nat /\ file.shdrs[k] \in SectionHeader
  <1>1. /\ file.length \in Nat /\ file.entry \in Nat /\ LaidOut(file)
        /\ file.shdrs \in Seq(SectionHeader) /\ file.phdrs \in Seq(ProgramHeader)
    BY ImageAssumption
  <1>2. /\ Len(file.phdrs) \in Nat /\ DOMAIN file.phdrs = 1 .. Len(file.phdrs)
        /\ \A k \in DOMAIN file.phdrs : file.phdrs[k] \in ProgramHeader
    BY <1>1
  <1>3. \A k \in DOMAIN file.shdrs : k \in Nat /\ file.shdrs[k] \in SectionHeader
    BY <1>1
  <1> QED BY <1>1, <1>2, <1>3

LEMMA SegmentHeader ==
  ASSUME file \in Files, NEW k \in Loads
  PROVE  /\ file.phdrs[k].vaddr \in Nat /\ file.phdrs[k].filesz \in Nat
         /\ file.phdrs[k].offset \in Nat /\ file.phdrs[k].vaddr % Page = 0
         /\ file.phdrs[k].vaddr >= sp + Page
         /\ k \in DOMAIN file.phdrs /\ k \in 1 .. Len(file.phdrs)
  <1>1. k \in DOMAIN file.phdrs /\ file.phdrs[k].load
    BY DEF Loads
  <1>2. file.phdrs[k] \in ProgramHeader /\ LaidOut(file) /\ k \in 1 .. Len(file.phdrs)
    BY <1>1, Headers
  <1>3. file.phdrs[k].vaddr % Page = 0 /\ file.phdrs[k].vaddr >= sp + Page
    BY <1>1, <1>2 DEF LaidOut
  <1> QED BY <1>1, <1>2, <1>3 DEF ProgramHeader

LEMMA BssHeader ==
  ASSUME file \in Files, NEW k \in FullBss
  PROVE  /\ file.shdrs[k].addr \in Nat /\ file.shdrs[k].size \in Nat
         /\ file.shdrs[k].addr % Page = 0 /\ file.shdrs[k].addr >= sp + Page
         /\ file.shdrs[k].size # 0 /\ Writable(file.shdrs[k].flags)
         /\ k \in DOMAIN file.shdrs
         /\ \A l \in FullBss : k = l
  <1>1. k \in DOMAIN file.shdrs /\ file.shdrs[k].bss /\ file.shdrs[k].size # 0
    BY DEF FullBss
  <1>2. file.shdrs[k] \in SectionHeader /\ LaidOut(file)
    BY <1>1, Headers
  <1>3. /\ file.shdrs[k].addr % Page = 0 /\ file.shdrs[k].addr >= sp + Page
        /\ Writable(file.shdrs[k].flags) /\ \A l \in FullBss : k = l
    BY <1>1, <1>2 DEF LaidOut, FullBss
  <1> QED BY <1>1, <1>2, <1>3 DEF SectionHeader

\* No two segments are on the same page, and none is on a page of .bss.
LEMMA SegmentsApart ==
  ASSUME file \in Files, NEW k \in Loads, NEW l \in Loads, k # l
  PROVE  SegmentPages(k) \cap SegmentPages(l) = {}
  <1>1. Apart(file.phdrs[k].vaddr, file.phdrs[k].filesz,
              file.phdrs[l].vaddr, file.phdrs[l].filesz)
    BY Headers DEF LaidOut, Loads
  <1> QED BY <1>1, SegmentHeader, ApartPages DEF SegmentPages

LEMMA BssApart ==
  ASSUME file \in Files, NEW k \in FullBss, NEW l \in Loads
  PROVE  BssPages(k) \cap SegmentPages(l) = {}
  <1>1. Apart(file.shdrs[k].addr, file.shdrs[k].size,
              file.phdrs[l].vaddr, file.phdrs[l].filesz)
    BY Headers DEF LaidOut, Loads, FullBss
  <1> QED BY <1>1, SegmentHeader, BssHeader, ApartPages DEF SegmentPages, BssPages

-----------------------------------------------------------------------------
(* Memory.                                                                 *)

LEMMA BlankFrame == Blank \in Frame
  BY DEF Blank, Frame, Zero

LEMMA ContentFrame ==
  ASSUME file \in Files, NEW k \in Loads, NEW p \in Nat
  PROVE  Content(k, p) \in Frame
  <1> DEFINE start == file.phdrs[k].offset
             q == p - file.phdrs[k].vaddr \div Page
             byte(o) == IF q * Page + o < file.phdrs[k].filesz /\ start + (q * Page + o) < file.length
                        THEN start + (q * Page + o) ELSE Zero
  <1>1. start \in Nat /\ file.phdrs[k].vaddr \div Page \in Nat
    BY Zenon, SegmentHeader, Aligned
  <1>2. q \in Int
    BY <1>1
  <1>3. Content(k, p) = [o \in 0 .. (Page - 1) |-> byte(o)]
    BY DEF Content
  <1> HIDE DEF start, q
  <1>4. q * Page \in Int
    BY <1>2, PageNat
  <1>5. ASSUME NEW o \in 0 .. (Page - 1) PROVE byte(o) \in Int
    <2>1. o \in Int
      OBVIOUS
    <2> QED BY <1>1, <1>4, <2>1 DEF Zero
  <1> HIDE DEF byte
  <1> QED BY <1>3, <1>5 DEF Frame

LEMMA Fresh ==
  ASSUME mem \in Seq(Frame), NEW cnt \in Nat
  PROVE  /\ Allocated(cnt) \in Seq(Frame)
         /\ Len(Allocated(cnt)) = Len(mem) + cnt
         /\ \A f \in 1 .. Len(mem) : Allocated(cnt)[f] = mem[f]
         /\ \A f \in Len(mem) + 1 .. Len(mem) + cnt : Allocated(cnt)[f] = Blank
  <1> DEFINE new == [k \in 1 .. cnt |-> Blank]
  <1>1. new \in Seq(Frame) /\ Len(new) = cnt
    BY BlankFrame
  <1>2. \A k \in 1 .. cnt : new[k] = Blank
    OBVIOUS
  <1>3. Allocated(cnt) = mem \o new
    BY DEF Allocated
  <1> HIDE DEF new
  <1>4. mem \o new \in Seq(Frame) /\ Len(mem \o new) = Len(mem) + cnt
    BY <1>1
  <1>5. \A f \in 1 .. Len(mem) : (mem \o new)[f] = mem[f]
    BY <1>1
  <1>6. ASSUME NEW f \in Len(mem) + 1 .. Len(mem) + cnt PROVE (mem \o new)[f] = Blank
    <2>1. (mem \o new)[f] = new[f - Len(mem)] /\ f - Len(mem) \in 1 .. cnt
      BY <1>1
    <2> QED BY <1>2, <2>1
  <1> QED BY <1>3, <1>4, <1>5, <1>6

\* Page p stays as it is.
Keeps(p) ==
  p \in DOMAIN space =>
    /\ p \in DOMAIN space' /\ space'[p] = space[p]
    /\ mem'[space[p].frame] = mem[space[p].frame]

LEMMA LoadedKept ==
  ASSUME NEW k, Loaded(k), UNCHANGED file, \A p \in SegmentPages(k) : Keeps(p)
  PROVE  Loaded(k)'
  <1>1. SegmentPages(k)' = SegmentPages(k)
    BY DEF SegmentPages, PagesAt
  <1> SUFFICES ASSUME NEW p \in SegmentPages(k)
               PROVE  Allowed(k, p)' /\ mem'[space'[p].frame] = Content(k, p)'
    BY <1>1 DEF Loaded
  <1>2. Allowed(k, p) /\ mem[space[p].frame] = Content(k, p) /\ Keeps(p)
    BY DEF Loaded
  <1>3. Content(k, p)' = Content(k, p)
    BY DEF Content
  <1> QED BY <1>2, <1>3 DEF Keeps, Allowed

LEMMA BssKept ==
  ASSUME BssMapped, UNCHANGED file, \A k \in FullBss : \A p \in BssPages(k) : Keeps(p)
  PROVE  BssMapped'
  <1>1. FullBss' = FullBss /\ \A k : BssPages(k)' = BssPages(k)
    BY DEF FullBss, BssPages, PagesAt
  <1> QED BY <1>1 DEF BssMapped, Keeps

\* New frames for n bytes at a: everything else stays as it is, in the frames
\* before.
MappedFresh(a, n, flags) ==
  /\ mem' \in Seq(Frame) /\ Len(mem') = Len(mem) + PageCnt(a, n)
  /\ \A p \in DOMAIN space' : space'[p].frame \in DOMAIN mem'
  /\ \A p : p \notin PagesAt(a, n) => Keeps(p)
  /\ \A p \in PagesAt(a, n) :
       /\ p \in DOMAIN space' /\ space'[p].frame = Len(mem) + 1 + p - a \div Page
       /\ space'[p].w = Writable(flags) /\ space'[p].x = Executable(flags)
       /\ mem'[space'[p].frame] = Blank
  /\ \A p \in DOMAIN space' \ PagesAt(a, n) : space'[p].frame < Len(mem) + 1

\* MapFresh does that.
LEMMA FreshPages ==
  ASSUME mem \in Seq(Frame), \A p \in DOMAIN space : space[p].frame \in DOMAIN mem,
         NEW a \in Nat, a % Page = 0, NEW n \in Nat, NEW flags,
         MapFresh(a, PageCnt(a, n), flags)
  PROVE  MappedFresh(a, n, flags)
  <1> DEFINE c == PageCnt(a, n)
             f == [p \in PagesAt(a, n) |->
                     [frame |-> Len(mem) + 1 + p - a \div Page,
                      w |-> Writable(flags), x |-> Executable(flags)]]
  <1>1. c \in Nat /\ a \div Page \in Nat /\ Len(mem) \in Nat /\ DOMAIN mem = 1 .. Len(mem)
    BY Count, Aligned
  <1>2. mem' = Allocated(c) /\ space' = Over(f, space)
    BY DEF MapFresh, PagesAt
  <1>3. /\ mem' \in Seq(Frame) /\ Len(mem') = Len(mem) + c
        /\ \A g \in 1 .. Len(mem) : mem'[g] = mem[g]
        /\ \A g \in Len(mem) + 1 .. Len(mem) + c : mem'[g] = Blank
    BY Zenon, <1>1, <1>2, Fresh
  <1>4. DOMAIN mem' = 1 .. Len(mem) + c
    BY <1>3
  <1>5. DOMAIN f = PagesAt(a, n)
    OBVIOUS
  <1>6. ASSUME NEW p \in PagesAt(a, n)
        PROVE  /\ p \in DOMAIN space' /\ space'[p].frame = Len(mem) + 1 + p - a \div Page
               /\ space'[p].w = Writable(flags) /\ space'[p].x = Executable(flags)
               /\ space'[p].frame \in Len(mem) + 1 .. Len(mem) + c
    <2>1. p \in DOMAIN space' /\ space'[p] = f[p]
      BY <1>2, <1>5 DEF Over
    <2>2. p \in (a \div Page) .. (a \div Page + c - 1)
      BY DEF PagesAt
    <2> QED BY <1>1, <2>1, <2>2
  <1>7. ASSUME NEW p, p \notin PagesAt(a, n)
        PROVE  /\ p \in DOMAIN space' <=> p \in DOMAIN space
               /\ p \in DOMAIN space => space'[p] = space[p]
    BY <1>2, <1>5, <1>7 DEF Over
  <1>8. \A p : p \notin PagesAt(a, n) => Keeps(p)
    BY <1>1, <1>3, <1>7 DEF Keeps
  <1>9. \A p \in DOMAIN space' \ PagesAt(a, n) : space'[p].frame \in 1 .. Len(mem)
    BY <1>1, <1>7
  <1>10. \A p \in DOMAIN space' : space'[p].frame \in DOMAIN mem'
    <2> SUFFICES ASSUME NEW p \in DOMAIN space' PROVE space'[p].frame \in 1 .. Len(mem) + c
      BY <1>4
    <2>1. CASE p \in PagesAt(a, n)
      <3>1. space'[p].frame \in Len(mem) + 1 .. Len(mem) + c
        BY <1>6, <2>1
      <3> QED BY <1>1, <3>1
    <2>2. CASE p \notin PagesAt(a, n)
      <3>1. space'[p].frame \in 1 .. Len(mem)
        BY <1>9, <2>2
      <3> QED BY <1>1, <3>1
    <2> QED BY <2>1, <2>2
  <1>11. \A p \in DOMAIN space' \ PagesAt(a, n) : space'[p].frame < Len(mem) + 1
    BY <1>1, <1>9
  <1>12. \A p \in PagesAt(a, n) : mem'[space'[p].frame] = Blank
    BY <1>3, <1>6
  <1> HIDE DEF f
  <1> QED BY <1>3, <1>6, <1>8, <1>10, <1>11, <1>12 DEF MappedFresh

-----------------------------------------------------------------------------
(* The steps.                                                              *)

LEMMA ImageInitInv == Init => ImageInv
  <1> SUFFICES ASSUME Init PROVE ImageInv
    OBVIOUS
  <1>1. file \in Files /\ Len(file.phdrs) \in Nat
    BY Headers DEF Init
  <1>2. TypeOK
    BY <1>1 DEF Init, TypeOK
  <1> QED BY <1>1, <1>2 DEF Init, ImageInv

\* Steps that leave memory and page table alone.
LEMMA SameMemory ==
  ASSUME ImageInv, UNCHANGED <<file, mem, space>>
  PROVE  /\ BssMapped' <=> BssMapped
         /\ \A k : Loaded(k)' <=> Loaded(k)
         /\ Loads' = Loads
         /\ \A k : Short(k)' <=> Short(k)
  BY DEF BssMapped, FullBss, BssPages, PagesAt, Loaded, SegmentPages, Allowed, Content, Loads,
         Short

LEMMA FileInitInv ==
  ASSUME ImageInv, FileInitFails \/ FileInit
  PROVE  ImageInv'
  <1>1. file.entry \in Nat
    BY Headers DEF ImageInv
  <1>2. TypeOK'
    BY <1>1 DEF ImageInv, TypeOK, FileInitFails, FileInit
  <1> QED BY <1>2 DEF ImageInv, FileInitFails, FileInit

LEMMA SkipInv ==
  ASSUME ImageInv, SkipSegment
  PROVE  ImageInv'
  <1>1. file \in Files /\ i \in 1 .. Len(file.phdrs) /\ Len(file.phdrs) \in Nat
    BY Headers DEF ImageInv, TypeOK, SkipSegment
  <1>2. TypeOK'
    BY <1>1 DEF ImageInv, TypeOK, SkipSegment
  <1>3. ASSUME i \in Loads PROVE Loaded(i)
    <2>1. Pages(i) = 0
      BY <1>3 DEF SkipSegment, Loads
    <2>2. file.phdrs[i].vaddr \div Page \in Nat
      BY <1>1, <1>3, SegmentHeader, Aligned
    <2>3. SegmentPages(i) = {}
      BY <2>1, <2>2 DEF SegmentPages, PagesAt, Pages
    <2> QED BY <2>3 DEF Loaded
  <1>4. BssMapped' /\ Loads' = Loads /\ \A k : Loaded(k)' <=> Loaded(k)
    BY SameMemory DEF SkipSegment, ImageInv
  <1>5. ASSUME NEW k \in Loads, k < i + 1 PROVE Loaded(k)
    <2>1. k < i \/ k = i
      BY <1>1, <1>5, SegmentHeader
    <2> QED BY <1>3, <2>1 DEF ImageInv, SkipSegment
  <1> QED BY <1>2, <1>4, <1>5 DEF ImageInv, SkipSegment

\* elf64_load_section finds the .bss that has bytes.
LEMMA BssFound ==
  ASSUME file \in Files
  PROVE  Bss = FullBss
  <1> DEFINE cnt(k) == PageCnt(file.shdrs[k].addr, file.shdrs[k].size)
  <1>1. ASSUME NEW k \in DOMAIN file.shdrs, file.shdrs[k].bss
        PROVE  cnt(k) # 0 <=> file.shdrs[k].size # 0
    <2>1. /\ file.shdrs[k].addr \in Nat /\ file.shdrs[k].size \in Nat
          /\ file.shdrs[k].addr % Page = 0
      BY <1>1, Headers DEF SectionHeader, LaidOut
    <2>2. /\ cnt(k) \in Nat /\ file.shdrs[k].size <= Page * cnt(k)
          /\ Page * cnt(k) < file.shdrs[k].size + Page
      BY <2>1, Count
    <2> HIDE DEF cnt
    <2>3. CASE cnt(k) = 0
      <3>1. Page * cnt(k) = 0
        BY <2>3, PageNat
      <3> QED BY <2>1, <2>2, <2>3, <3>1
    <2>4. CASE cnt(k) # 0
      <3>1. Page * cnt(k) >= Page
        BY <2>2, <2>4, PageNat
      <3>2. Page * cnt(k) \in Nat
        BY <2>2, PageNat
      <3> QED BY <2>1, <2>2, <2>4, <3>1, <3>2, PageNat
    <2> QED BY <2>3, <2>4
  <1>2. Bss = {k \in DOMAIN file.shdrs :
                 /\ file.shdrs[k].bss /\ cnt(k) # 0
                 /\ \A l \in 1 .. k - 1 : ~(file.shdrs[l].bss /\ cnt(l) # 0)}
    BY DEF Bss
  <1> HIDE DEF cnt
  <1>3. ASSUME NEW k \in FullBss PROVE k \in Bss
    <2>1. k \in DOMAIN file.shdrs /\ file.shdrs[k].bss /\ file.shdrs[k].size # 0
      BY DEF FullBss
    <2>2. ASSUME NEW l \in 1 .. k - 1, file.shdrs[l].bss, cnt(l) # 0 PROVE FALSE
      <3>1. l \in DOMAIN file.shdrs /\ l # k
        BY <2>1, ImageAssumption
      <3>2. l \in FullBss
        BY <1>1, <2>2, <3>1 DEF FullBss
      <3> QED BY <3>1, <3>2, BssHeader
    <2> QED BY <1>1, <1>2, <2>1, <2>2
  <1>4. Bss \subseteq FullBss
    BY <1>1, <1>2 DEF FullBss
  <1> QED BY <1>3, <1>4

LEMMA LoadBssInv ==
  ASSUME ImageInv, LoadBss
  PROVE  ImageInv'
  <1>1. /\ file \in Files /\ TypeOK /\ mem \in Seq(Frame)
        /\ UNCHANGED <<file, arg, i, j, first, regs>>
        /\ \A p \in DOMAIN space : space[p].frame \in DOMAIN mem
        /\ pc' = "segment" /\ pc = "bss"
    BY DEF ImageInv, TypeOK, LoadBss, Frame
  <1>2. FullBss' = FullBss /\ \A k : BssPages(k)' = BssPages(k)
    BY <1>1 DEF FullBss, BssPages, PagesAt
  <1>3. /\ mem' \in Seq(Frame) /\ Len(mem') >= Len(mem)
        /\ \A p \in DOMAIN space' : space'[p].frame \in DOMAIN mem'
        /\ BssMapped'
    <2>1. CASE Bss = {}
      <3>1. UNCHANGED <<mem, space>>
        BY <2>1 DEF LoadBss
      <3>2. FullBss = {}
        BY <1>1, <2>1, BssFound
      <3> QED BY <1>1, <1>2, <3>1, <3>2 DEF BssMapped
    <2>2. CASE Bss # {}
      <3>1. PICK k \in Bss : MapFresh(file.shdrs[k].addr,
                                      PageCnt(file.shdrs[k].addr, file.shdrs[k].size),
                                      file.shdrs[k].flags)
        BY <2>2 DEF LoadBss
      <3>2. k \in FullBss
        BY <1>1, BssFound
      <3>3. /\ file.shdrs[k].addr \in Nat /\ file.shdrs[k].size \in Nat
            /\ file.shdrs[k].addr % Page = 0 /\ Writable(file.shdrs[k].flags)
            /\ \A l \in FullBss : k = l
        BY <1>1, <3>2, BssHeader
      <3>4. /\ mem' \in Seq(Frame)
            /\ Len(mem') = Len(mem) + PageCnt(file.shdrs[k].addr, file.shdrs[k].size)
            /\ \A p \in DOMAIN space' : space'[p].frame \in DOMAIN mem'
            /\ \A p \in BssPages(k) : /\ p \in DOMAIN space'
                                      /\ space'[p].w = Writable(file.shdrs[k].flags)
                                      /\ mem'[space'[p].frame] = Blank
        <4>1. MappedFresh(file.shdrs[k].addr, file.shdrs[k].size, file.shdrs[k].flags)
          BY Zenon, <1>1, <3>1, <3>3, FreshPages
        <4> QED BY Zenon, <4>1 DEF MappedFresh, BssPages
      <3>5. Len(mem') >= Len(mem)
        <4>1. PageCnt(file.shdrs[k].addr, file.shdrs[k].size) \in Nat
          BY Zenon, <3>3, Count
        <4>2. Len(mem) \in Nat
          BY <1>1
        <4> QED BY <3>4, <4>1, <4>2
      <3>6. Blank' = Blank
        BY DEF Blank, Zero
      <3>7. BssMapped'
        BY Zenon, <1>2, <3>2, <3>3, <3>4, <3>6 DEF BssMapped
      <3> QED BY <3>4, <3>5, <3>7
    <2> QED BY <2>1, <2>2
  <1>4. TypeOK'
    BY <1>1, <1>3 DEF TypeOK, Frame
  <1>5. Loads' = Loads /\ \A k \in Loads : ~(k < i')
    <2>1. i' = 1 /\ Loads' = Loads
      BY <1>1 DEF ImageInv, Loads
    <2>2. \A k \in Loads : k \in 1 .. Len(file.phdrs)
      BY <1>1, SegmentHeader
    <2> QED BY <1>1, <2>1, <2>2, Headers
  <1> QED BY <1>1, <1>3, <1>4, <1>5 DEF ImageInv

LEMMA MapSegmentInv ==
  ASSUME ImageInv, MapSegment
  PROVE  ImageInv'
  <1>1. /\ file \in Files /\ TypeOK /\ mem \in Seq(Frame)
        /\ UNCHANGED <<file, arg, i, regs>>
        /\ \A p \in DOMAIN space : space[p].frame \in DOMAIN mem
        /\ pc' = "copy" /\ pc = "segment" /\ j' = 0 /\ first' = Len(mem) + 1
        /\ BssMapped /\ \A k \in Loads : k < i => Loaded(k)
    BY DEF ImageInv, TypeOK, MapSegment, Frame
  <1>2. i \in Loads /\ Pages(i) # 0 /\ i \in Nat
    BY <1>1, Headers DEF MapSegment, Loads, TypeOK
  <1> DEFINE a == file.phdrs[i].vaddr
             n == file.phdrs[i].filesz
             flags == file.phdrs[i].flags
  <1>3. a \in Nat /\ a % Page = 0 /\ n \in Nat
    BY Zenon, <1>1, <1>2, SegmentHeader
  <1>4. Pages(i) = PageCnt(a, n) /\ SegmentPages(i) = PagesAt(a, n)
    BY DEF Pages, SegmentPages
  <1>5. MapFresh(a, PageCnt(a, n), flags)
    BY <1>4 DEF MapSegment
  <1>6. MappedFresh(a, n, flags)
    BY Zenon, <1>1, <1>3, <1>5, FreshPages
  <1>7. PageCnt(a, n) \in Nat /\ a \div Page \in Nat
    BY Zenon, <1>3, Count, Aligned
  <1>8. Len(mem) \in Nat
    BY <1>1
  <1>9. /\ mem' \in Seq(Frame) /\ Len(mem') = Len(mem) + Pages(i)
        /\ \A p \in DOMAIN space' : space'[p].frame \in DOMAIN mem'
        /\ \A p : p \notin SegmentPages(i) => Keeps(p)
        /\ \A p \in SegmentPages(i) :
             /\ p \in DOMAIN space' /\ space'[p].frame = Len(mem) + 1 + p - a \div Page
             /\ space'[p].w = Writable(flags) /\ space'[p].x = Executable(flags)
             /\ mem'[space'[p].frame] = Blank
        /\ \A p \in DOMAIN space' \ SegmentPages(i) : space'[p].frame < Len(mem) + 1
    BY Zenon, <1>4, <1>6 DEF MappedFresh
  <1>10. Loads' = Loads /\ SegmentPages(i)' = SegmentPages(i) /\ Pages(i)' = Pages(i)
         /\ Blank' = Blank
    BY <1>1 DEF Loads, SegmentPages, PagesAt, Pages, Blank, Zero
  <1>11. TypeOK'
    <2>1. first' \in 0 .. Len(mem')
      <3>1. PICK x, l : x = Pages(i) /\ l = Len(mem)
        BY Zenon
      <3>2. x \in Nat /\ x # 0 /\ l \in Nat /\ first' = l + 1 /\ Len(mem') = l + x
        BY Zenon, <1>1, <1>2, <1>4, <1>7, <1>8, <1>9, <3>1
      <3> QED BY <3>2
    <2> QED BY <1>1, <1>9, <2>1 DEF TypeOK, Frame
  <1>12. BssMapped'
    <2>1. ASSUME NEW k \in FullBss, NEW p \in BssPages(k) PROVE Keeps(p)
      BY Zenon, <1>1, <1>2, <1>9, BssApart
    <2> QED BY Zenon, <1>1, <2>1, BssKept
  <1>13. ASSUME NEW k \in Loads, k < i PROVE Loaded(k)'
    <2>1. k # i
      BY <1>2, <1>13
    <2>2. \A p \in SegmentPages(k) : Keeps(p)
      BY Zenon, <1>1, <1>2, <1>9, <2>1, SegmentsApart
    <2> QED BY Zenon, <1>1, <1>13, <2>2, LoadedKept
  <1>14. Copying'
    <2>1. /\ i' \in Loads' /\ j' < Pages(i)' /\ first' # 0
          /\ first' + Pages(i)' <= Len(mem') + 1
      <3>1. PICK x, l : x = Pages(i) /\ l = Len(mem)
        BY Zenon
      <3>2. /\ x \in Nat /\ x # 0 /\ l \in Nat /\ j' = 0 /\ Pages(i)' = x
            /\ first' = l + 1 /\ Len(mem') = l + x
        BY Zenon, <1>1, <1>2, <1>4, <1>7, <1>8, <1>9, <1>10, <3>1
      <3>3. j' < x /\ first' # 0 /\ first' + x <= Len(mem') + 1
        BY <3>2
      <3> QED BY Zenon, <1>1, <1>2, <1>10, <3>2, <3>3
    <2>2. ASSUME NEW p \in SegmentPages(i)
          PROVE  /\ Allowed(i, p)' /\ space'[p].frame = first' + (p - a \div Page)
                 /\ mem'[first' + (p - a \div Page)] = Blank
                 /\ ~(p - a \div Page < j')
      <3>1. p \in Nat /\ p - a \div Page \in Nat
        BY <1>4, <1>7 DEF PagesAt
      <3>2. Allowed(i, p)'
        BY <1>1, <1>9 DEF Allowed
      <3>3. space'[p].frame = first' + (p - a \div Page)
        BY <1>1, <1>7, <1>8, <1>9, <3>1
      <3>4. mem'[first' + (p - a \div Page)] = Blank
        BY <1>9, <3>3
      <3> QED BY SMTT(40), <1>1, <3>1, <3>2, <3>3, <3>4
    <2>3. (file.phdrs[i].vaddr \div Page)' = a \div Page
      BY <1>1
    <2>4. \A p \in DOMAIN space' \ SegmentPages(i) : space'[p].frame < first'
      BY <1>1, <1>9
    <2> HIDE DEF a, n, flags
    <2> QED BY <1>1, <1>10, <2>1, <2>2, <2>3, <2>4 DEF Copying
  <1> QED BY <1>1, <1>10, <1>11, <1>12, <1>13, <1>14 DEF ImageInv

\* How much of a segment is left at page j.
LEMMA Left ==
  ASSUME ImageInv, pc = "copy"
  PROVE  /\ file.phdrs[i].filesz \in Nat /\ j * Page \in Nat
         /\ j * Page < file.phdrs[i].filesz
  <1> DEFINE n == file.phdrs[i].filesz
             c == Pages(i)
  <1>1. file \in Files /\ Copying /\ j \in Nat /\ i \in Loads /\ j < c
    BY DEF ImageInv, TypeOK, Copying
  <1>2. file.phdrs[i].vaddr \in Nat /\ file.phdrs[i].vaddr % Page = 0 /\ n \in Nat
    BY Zenon, <1>1, SegmentHeader
  <1>3. c \in Nat /\ Page * c < n + Page
    BY Zenon, <1>2, Count DEF Pages
  <1> HIDE DEF n, c
  <1>4. Page * (j + 1) <= Page * c
    <2> SUFFICES ASSUME Page * c < Page * (j + 1) PROVE FALSE
      BY <1>1, <1>3, PageNat
    <2>1. c < j + 1
      BY <1>1, <1>3, PageNat, Less
    <2> QED BY <1>1, <1>3, <2>1
  <1>5. Page * (j + 1) = j * Page + Page /\ j * Page \in Nat /\ Page * c \in Nat
    BY <1>1, <1>3, PageNat
  <1> QED BY <1>2, <1>3, <1>4, <1>5, PageNat DEF n

LEMMA DivideInv ==
  ASSUME ImageInv, DivideByZero
  PROVE  ImageInv'
  <1>1. /\ file \in Files /\ i \in Loads /\ IsLast /\ j = 0 /\ pc = "copy"
        /\ pc' = "halted" /\ UNCHANGED <<file, arg, i, j, mem, first, space, regs>>
    BY DEF ImageInv, Copying, DivideByZero
  <1>2. file.phdrs[i].filesz \in Nat /\ 0 * Page < file.phdrs[i].filesz
    BY <1>1, Left
  <1>3. Page + 0 * Page > file.phdrs[i].filesz
    BY <1>1 DEF IsLast
  <1>4. 0 * Page = 0
    BY PageNat
  <1>5. Short(i)
    BY SMTT(40), <1>2, <1>3, <1>4, PageNat DEF Short
  <1>6. TypeOK'
    BY <1>1 DEF ImageInv, TypeOK
  <1>7. Loads' = Loads /\ \A k : Short(k)' <=> Short(k)
    BY <1>1, SameMemory
  <1> QED BY <1>1, <1>5, <1>6, <1>7 DEF ImageInv

\* The bytes to copy to page j, although the last page takes them modulo the
\* bytes before it.
LEMMA CntIs ==
  ASSUME ImageInv, pc = "copy", ~(IsLast /\ j = 0)
  PROVE  Cnt = IF file.phdrs[i].filesz < Page + j * Page
               THEN file.phdrs[i].filesz - j * Page ELSE Page
  <1> DEFINE n == file.phdrs[i].filesz
             b == j * Page
  <1>1. n \in Nat /\ b \in Nat /\ b < n /\ j \in Nat
    BY Left DEF ImageInv, TypeOK
  <1>2. IsLast <=> n < Page + b
    BY <1>1, PageNat DEF IsLast
  <1>3. ASSUME n < Page + b PROVE n % b = n - b
    <2>1. j # 0
      BY <1>2, <1>3
    <2>2. b >= Page
      BY <1>1, <2>1, PageNat
    <2> HIDE DEF n, b
    <2>3. n = b * 1 + (n - b) /\ n - b \in 0 .. b - 1 /\ b \in Nat \ {0}
      BY <1>1, <1>3, <2>2, PageNat
    <2> QED BY <1>1, <2>3, Unique
  <1> QED BY <1>2, <1>3 DEF Cnt

\* What CopyPage does to page j.
LEMMA Copied ==
  ASSUME ImageInv, CopyPage
  PROVE  mem' = [mem EXCEPT ![first + j] = Content(i, file.phdrs[i].vaddr \div Page + j)]
  <1> DEFINE n == file.phdrs[i].filesz
             b == j * Page
             start == file.phdrs[i].offset
             v == file.phdrs[i].vaddr \div Page
             offset == start + b
             read == Read(offset, Cnt)
             page == Content(i, v + j)
  <1>1. /\ file \in Files /\ i \in Loads /\ pc = "copy" /\ ~(IsLast /\ j = 0) /\ j \in Nat
        /\ Copying
    BY DEF ImageInv, TypeOK, Copying, CopyPage
  <1>2. /\ start \in Nat /\ file.length \in Nat /\ file.phdrs[i].vaddr \in Nat
        /\ file.phdrs[i].vaddr % Page = 0
    BY Zenon, <1>1, SegmentHeader, Headers
  <1>3. v \in Nat /\ PageCnt(file.phdrs[i].vaddr, n) \in Nat
    <2>1. n \in Nat
      BY Zenon, <1>1, SegmentHeader
    <2> QED BY Zenon, <1>2, <2>1, Aligned, Count
  <1>4. n \in Nat /\ b \in Nat /\ b < n
    BY <1>1, Left
  <1>5. Cnt = IF n < Page + b THEN n - b ELSE Page
    BY <1>1, CntIs
  <1>6. mem[first + j] = Blank
    <2>1. v + j \in SegmentPages(i) /\ (v + j) - v = j /\ ~(j < j)
      <3>1. PICK u, x : u = v /\ x = Pages(i)
        BY Zenon
      <3>2. u \in Nat /\ x \in Nat /\ j < x /\ SegmentPages(i) = u .. (u + x - 1)
        BY Zenon, <1>1, <1>3, <3>1 DEF Copying, SegmentPages, PagesAt, Pages
      <3>3. u + j \in u .. (u + x - 1) /\ (u + j) - u = j /\ ~(j < j)
        BY <1>1, <3>2
      <3> QED BY Zenon, <3>1, <3>2, <3>3
    <2> HIDE DEF v
    <2>2. mem[first + ((v + j) - v)] = IF (v + j) - v < j THEN Content(i, v + j) ELSE Blank
      BY <1>1, <2>1 DEF Copying, v
    <2> QED BY <2>1, <2>2
  <1>7. mem' = [mem EXCEPT ![first + j] =
                  Over([o \in 0 .. (0 + read - 1) |-> offset + o - 0], mem[first + j])]
    <2>1. (IF j = 0 THEN file.phdrs[i].vaddr % Page ELSE 0) = 0
      BY <1>2
    <2>2. Cnt - 0 = Cnt
      BY <1>4, <1>5, PageNat
    <2> QED BY Zenon, <2>1, <2>2 DEF CopyPage
  <1>8. Cnt \in Nat /\ Cnt <= Page
    BY <1>4, <1>5, PageNat
  <1>9. read = IF file.length < offset THEN 0
               ELSE IF file.length < offset + Cnt THEN file.length - offset ELSE Cnt
    BY DEF Read
  <1> HIDE DEF n, b, v, start
  <1>10. offset \in Nat /\ read \in Nat /\ read <= Page
    <2>1. offset \in Nat
      BY <1>2, <1>4
    <2> HIDE DEF offset, read
    <2> QED BY <1>2, <1>8, <1>9, <2>1, PageNat
  <1>11. Over([o \in 0 .. (0 + read - 1) |-> offset + o - 0], Blank) = page
    <2>1. page = [o \in 0 .. (Page - 1) |->
                    LET m == ((v + j) - v) * Page + o
                    IN  IF m < n /\ start + m < file.length THEN start + m ELSE Zero]
      BY DEF Content, n, start, v
    <2>2. (v + j) - v = j
      BY <1>1, <1>3
    <2>3. page = [o \in 0 .. (Page - 1) |->
                    IF b + o < n /\ start + (b + o) < file.length THEN start + (b + o) ELSE Zero]
      BY Zenon, <2>1, <2>2 DEF b
    <2>4. DOMAIN Blank = 0 .. (Page - 1) /\ \A o \in 0 .. (Page - 1) : Blank[o] = Zero
      BY DEF Blank
    <2> HIDE DEF page, read, offset
    <2>5. 0 .. (0 + read - 1) \cup 0 .. (Page - 1) = 0 .. (Page - 1)
      BY <1>10, PageNat
    <2>6. Over([o \in 0 .. (0 + read - 1) |-> offset + o - 0], Blank) =
            [o \in 0 .. (Page - 1) |->
               IF o \in 0 .. (0 + read - 1) THEN offset + o - 0 ELSE Zero]
      BY <2>4, <2>5 DEF Over
    <2>7. ASSUME NEW o \in 0 .. (Page - 1)
          PROVE  (IF o \in 0 .. (0 + read - 1) THEN offset + o - 0 ELSE Zero) =
                 IF b + o < n /\ start + (b + o) < file.length THEN start + (b + o) ELSE Zero
      <3>1. o \in Nat /\ o < Page
        BY PageNat
      <3>2. o \in 0 .. (0 + read - 1) <=> o < read
        BY <1>10, <3>1
      <3>3. o < read <=> b + o < n /\ start + (b + o) < file.length
        BY <1>2, <1>4, <1>5, <1>8, <1>9, <1>10, <3>1, PageNat DEF offset
      <3>4. offset + o - 0 = start + (b + o)
        BY <1>2, <1>4, <3>1 DEF offset
      <3> QED BY <3>2, <3>3, <3>4
    <2> QED BY Zenon, <2>3, <2>6, <2>7
  <1> HIDE DEF page
  <1>12. mem' = [mem EXCEPT ![first + j] = page]
    BY Zenon, <1>6, <1>7, <1>11
  <1> QED BY <1>12 DEF page, v

LEMMA CopyInv ==
  ASSUME ImageInv, CopyPage
  PROVE  ImageInv'
  <1>0. PICK s : s = i
    OBVIOUS
  <1> DEFINE a == file.phdrs[i].vaddr
             v == file.phdrs[i].vaddr \div Page
  <1>1. /\ file \in Files /\ TypeOK /\ mem \in Seq(Frame) /\ j \in Nat /\ first \in Nat
        /\ UNCHANGED <<file, arg, first, space, regs>>
        /\ \A p \in DOMAIN space : space[p].frame \in DOMAIN mem
        /\ pc = "copy" /\ Copying /\ i \in Loads
        /\ BssMapped /\ \A k \in Loads : k < i => Loaded(k)
    <2>1. pc = "copy" /\ UNCHANGED <<file, arg, first, space, regs>>
      BY Zenon DEF CopyPage
    <2>2. /\ file \in Files /\ TypeOK /\ Copying /\ BssMapped
          /\ \A k \in Loads : k < i => Loaded(k)
      BY Zenon, <2>1 DEF ImageInv
    <2>3. /\ mem \in Seq(Frame) /\ j \in Nat /\ first \in 0 .. Len(mem)
          /\ \A p \in DOMAIN space : space[p].frame \in DOMAIN mem
      BY Zenon, <2>2 DEF TypeOK, Frame
    <2>4. first \in Nat
      BY <2>3
    <2>5. i \in Loads
      BY Zenon, <2>2 DEF Copying
    <2> QED BY Zenon, <2>1, <2>2, <2>3, <2>4, <2>5
  <1>2. a \in Nat /\ a % Page = 0 /\ i \in 1 .. Len(file.phdrs) /\ Len(file.phdrs) \in Nat
    BY Zenon, <1>1, SegmentHeader, Headers
  <1>3. v \in Nat /\ Pages(i) \in Nat
    <2>1. file.phdrs[i].filesz \in Nat
      BY Zenon, <1>1, SegmentHeader
    <2> QED BY Zenon, <1>2, <2>1, Aligned, Count DEF Pages
  <1>4. j < Pages(i) /\ first + j \in 1 .. Len(mem) /\ first # 0 /\ first + Pages(i) <= Len(mem) + 1
    <2>1. j < Pages(i) /\ first # 0 /\ first + Pages(i) <= Len(mem) + 1
      BY Zenon, <1>1 DEF Copying
    <2>2. Len(mem) \in Nat
      BY <1>1
    <2>3. PICK n, l : n = Pages(i) /\ l = Len(mem)
      BY Zenon
    <2>4. first + j \in 1 .. l
      <3>1. n \in Nat /\ l \in Nat /\ j < n /\ first # 0 /\ first + n <= l + 1
        BY Zenon, <1>3, <2>1, <2>2, <2>3
      <3> QED BY <1>1, <3>1
    <2> QED BY Zenon, <2>1, <2>3, <2>4
  <1>5. SegmentPages(i) = v .. (v + Pages(i) - 1)
    BY DEF SegmentPages, PagesAt, Pages
  <1>6. mem' = [mem EXCEPT ![first + j] = Content(i, v + j)]
    BY Copied
  <1>7. Content(i, v + j) \in Frame
    <2>1. v + j \in Nat
      BY <1>1, <1>3
    <2> QED BY Zenon, <1>1, <2>1, ContentFrame
  <1> HIDE DEF a, v
  <1>8. mem' \in Seq(Frame) /\ Len(mem') = Len(mem) /\ DOMAIN mem' = DOMAIN mem
        /\ mem'[first + j] = Content(i, v + j)
        /\ \A f \in 1 .. Len(mem) : f # first + j => mem'[f] = mem[f]
    <2>1. PICK f : f = first + j
      OBVIOUS
    <2>2. PICK c : c = Content(i, v + j)
      OBVIOUS
    <2>3. f \in 1 .. Len(mem) /\ c \in Frame /\ mem' = [mem EXCEPT ![f] = c]
      BY <1>4, <1>6, <1>7, <2>1, <2>2
    <2>4. mem' \in Seq(Frame) /\ Len(mem') = Len(mem) /\ DOMAIN mem' = DOMAIN mem
      BY <1>1, <2>3
    <2>5. mem'[f] = c /\ \A g \in 1 .. Len(mem) : g # f => mem'[g] = mem[g]
      BY <1>1, <2>3
    <2> QED BY <2>1, <2>2, <2>4, <2>5
  <1>9. \A p : p \notin SegmentPages(i) => Keeps(p)
    <2> SUFFICES ASSUME NEW p \in DOMAIN space, p \notin SegmentPages(i)
                 PROVE  mem'[space[p].frame] = mem[space[p].frame]
      BY <1>1 DEF Keeps
    <2>1. space[p].frame < first /\ space[p].frame \in 1 .. Len(mem)
      <3>1. p \in DOMAIN space \ SegmentPages(i)
        BY Zenon
      <3>2. space[p].frame < first
        BY Zenon, <1>1, <3>1 DEF Copying
      <3>3. space[p].frame \in DOMAIN mem
        BY Zenon, <1>1
      <3>4. DOMAIN mem = 1 .. Len(mem)
        BY <1>1
      <3> QED BY Zenon, <3>2, <3>3, <3>4
    <2> QED BY <1>1, <1>8, <2>1
  <1>10. BssMapped'
    <2>1. ASSUME NEW k \in FullBss, NEW p \in BssPages(k) PROVE Keeps(p)
      BY Zenon, <1>1, <1>9, BssApart
    <2> QED BY Zenon, <1>1, <2>1, BssKept
  <1>11. ASSUME NEW k \in Loads, k < i PROVE Loaded(k)'
    <2>1. k # i
      BY <1>2, <1>11
    <2>2. \A p \in SegmentPages(k) : Keeps(p)
      BY Zenon, <1>1, <1>9, <2>1, SegmentsApart
    <2> QED BY Zenon, <1>1, <1>11, <2>2, LoadedKept
  <1>12. ASSUME NEW p \in SegmentPages(i)
         PROVE  /\ p \in Nat /\ p - v \in 0 .. Pages(i) - 1
                /\ Allowed(s, p)' /\ space'[p].frame = first + (p - v)
                /\ mem'[first + (p - v)] = IF p - v < j + 1 THEN Content(i, p) ELSE Blank
    <2>1. /\ Allowed(i, p) /\ space[p].frame = first + (p - v)
          /\ mem[first + (p - v)] = IF p - v < j THEN Content(i, p) ELSE Blank
      BY <1>1 DEF Copying, v
    <2>2. p \in Nat /\ p - v \in 0 .. Pages(i) - 1
      BY <1>3, <1>5
    <2>3. Allowed(s, p)'
      BY <1>0, <1>1, <2>1 DEF Allowed
    <2>4. CASE p - v = j
      <3>1. p = v + j
        BY <1>1, <1>3, <2>2, <2>4
      <3> QED BY <1>1, <1>8, <2>1, <2>2, <2>3, <2>4, <3>1
    <2>5. CASE p - v # j
      <3>1. first + (p - v) # first + j /\ first + (p - v) \in 1 .. Len(mem)
        <4>1. PICK q, n, l : q = p - v /\ n = Pages(i) /\ l = Len(mem)
          BY Zenon
        <4>2. /\ q \in 0 .. n - 1 /\ n \in Nat /\ first + n <= l + 1 /\ first # 0 /\ q # j
              /\ first \in Nat /\ j \in Nat
          BY Zenon, <1>1, <1>3, <1>4, <2>2, <2>5, <4>1
        <4>3. l \in Nat
          BY <1>1, <4>1
        <4>4. first + q # first + j /\ first + q \in 1 .. l
          BY <4>2, <4>3
        <4> QED BY Zenon, <4>1, <4>4
      <3>2. mem'[first + (p - v)] = mem[first + (p - v)]
        BY Zenon, <1>8, <3>1
      <3>3. p - v < j + 1 <=> p - v < j
        BY <1>1, <2>2, <2>5
      <3> QED BY <1>1, <2>1, <2>2, <2>3, <3>2, <3>3
    <2> QED BY <2>4, <2>5
  <1>13. /\ Loads' = Loads
         /\ \A k, p : Content(k, p)' = Content(k, p)
         /\ \A k : SegmentPages(k)' = SegmentPages(k) /\ Pages(k)' = Pages(k)
         /\ Blank' = Blank
    <2>1. file' = file
      BY Zenon, <1>1
    <2>2. Loads' = Loads
      BY <2>1 DEF Loads
    <2>3. ASSUME NEW k, NEW p PROVE Content(k, p)' = Content(k, p)
      BY <2>1 DEF Content
    <2>4. ASSUME NEW k PROVE SegmentPages(k)' = SegmentPages(k)
      BY <2>1 DEF SegmentPages
    <2>5. ASSUME NEW k PROVE Pages(k)' = Pages(k)
      BY <2>1 DEF Pages
    <2>6. Blank' = Blank
      BY DEF Blank, Zero
    <2> QED BY Zenon, <2>2, <2>3, <2>4, <2>5, <2>6
  <1>14. CASE j + 1 < Pages(i)
    <2>1. j' = j + 1 /\ i' = i /\ pc' = "copy"
      BY <1>1, <1>14 DEF CopyPage
    <2>2. TypeOK'
      BY <1>1, <1>8, <2>1 DEF TypeOK, Frame
    <2>3. Copying'
      <3>1. (file.phdrs[i].vaddr \div Page)' = v
        BY <1>1, <2>1 DEF v
      <3> QED BY ZenonT(40), <1>0, <1>1, <1>4, <1>8, <1>12, <1>13, <1>14, <2>1, <3>1 DEF Copying
    <2> QED BY <1>1, <1>10, <1>11, <1>13, <2>1, <2>2, <2>3 DEF ImageInv
  <1>15. CASE ~(j + 1 < Pages(i))
    <2>1. j' = j /\ i' = i + 1 /\ pc' = "segment"
      BY ZenonT(40), <1>1, <1>15 DEF CopyPage
    <2>2. TypeOK'
      <3>1. i' \in 1 .. (Len(file.phdrs) + 1)
        <4>1. PICK n : n = Len(file.phdrs)
          BY Zenon
        <4>2. n \in Nat /\ i \in 1 .. n
          BY Zenon, <1>2, <4>1
        <4>3. i + 1 \in 1 .. (n + 1)
          BY <4>2
        <4> QED BY Zenon, <2>1, <4>1, <4>3
      <3> QED BY ZenonT(40), <1>1, <1>8, <2>1, <3>1 DEF TypeOK, Frame
    <2>3. Loaded(s)'
      <3> SUFFICES ASSUME NEW p \in SegmentPages(s)
                   PROVE  Allowed(s, p)' /\ mem'[space'[p].frame] = Content(s, p)
        BY Zenon, <1>13 DEF Loaded
      <3>1. p - v < j + 1
        BY SMTT(40), <1>0, <1>1, <1>3, <1>4, <1>12, <1>15
      <3> QED BY <1>0, <1>12, <3>1
    <2>4. ASSUME NEW k \in Loads, k < i + 1 PROVE Loaded(k)'
      <3>1. k < i \/ k = s
        BY <1>0, <1>1, <1>2, <2>4, SegmentHeader
      <3> QED BY Zenon, <1>11, <2>3, <3>1
    <2> QED BY Zenon, <1>1, <1>10, <1>13, <2>1, <2>2, <2>4 DEF ImageInv
  <1> QED BY <1>14, <1>15

-----------------------------------------------------------------------------
(* The stack.                                                              *)

\* The stack in pages.
LEMMA StackIs ==
  /\ StackLocation \div Page \in Nat \ {0} /\ StackSize \div Page \in Nat \ {0}
  /\ sp \div Page = StackLocation \div Page + StackSize \div Page
  /\ StackLocation = Page * (StackLocation \div Page)
  /\ StackSize = Page * (StackSize \div Page)
  /\ sp % Page = 0 /\ sp \in Nat /\ StackLocation \in Nat /\ StackSize \in Nat
  <1> DEFINE l == StackLocation \div Page
             t == StackSize \div Page
  <1>1. /\ StackLocation \in Nat /\ StackLocation % Page = 0 /\ StackLocation # 0
        /\ StackSize \in Nat /\ StackSize % Page = 0 /\ StackSize # 0
    BY ImageAssumption
  <1>2. l \in Nat /\ StackLocation = Page * l /\ t \in Nat /\ StackSize = Page * t
    BY Zenon, <1>1, Aligned
  <1> HIDE DEF l, t
  <1>3. l # 0 /\ t # 0
    <2>1. Page * 0 = 0
      BY PageNat
    <2> QED BY <1>1, <1>2, <2>1
  <1>4. sp \in Nat /\ sp = Page * (l + t) + 0 /\ l + t \in Nat /\ 0 \in 0 .. Page - 1
    BY <1>1, <1>2, PageNat DEF sp
  <1>5. sp \div Page = l + t /\ sp % Page = 0
    BY <1>4, PageNat, Unique
  <1> QED BY <1>1, <1>2, <1>3, <1>4, <1>5 DEF l, t

\* Segments and .bss are behind the stack.
LEMMA BehindStack ==
  ASSUME NEW a \in Nat, a % Page = 0, a >= sp + Page, NEW n \in Nat
  PROVE  PagesAt(a, n) \cap StackPages = {}
  <1> DEFINE q == a \div Page
             t == sp \div Page
  <1>1. q \in Nat /\ a = Page * q
    BY Zenon, Aligned
  <1>2. sp \in Nat /\ sp % Page = 0
    BY StackIs
  <1>3. t \in Nat /\ sp = Page * t
    BY Zenon, <1>2, Aligned
  <1>4. PageCnt(a, n) \in Nat /\ StackLocation \div Page \in Nat
    BY Zenon, Count, StackIs
  <1> HIDE DEF q, t
  <1>5. Page * t < Page * q
    BY <1>1, <1>2, <1>3, PageNat
  <1>6. t < q
    BY <1>1, <1>3, <1>5, PageNat, Less
  <1> QED BY <1>1, <1>3, <1>4, <1>6 DEF PagesAt, StackPages, q, t

LEMMA MakeStackInv ==
  ASSUME ImageInv, MakeStack
  PROVE  ImageInv'
  <1> DEFINE l == StackLocation \div Page
             t == StackSize \div Page
             base == Len(mem) + 1
             blank == Allocated(sp \div Page)
             f == [p \in StackPages |-> [frame |-> StackFrame(base, sp \div Page - p),
                                         w |-> TRUE, x |-> TRUE]]
             byte(g, o) == LET k == (g - base) * Page + o - (StackSize - arg)
                           IN  IF g >= base /\ k \in 0 .. (arg - 1)
                               THEN ArgByte(k) ELSE blank[g][o]
  <1>1. /\ file \in Files /\ TypeOK /\ mem \in Seq(Frame) /\ Len(mem) \in Nat
        /\ DOMAIN mem = 1 .. Len(mem) /\ UNCHANGED <<file, arg, i, j, first>>
        /\ \A p \in DOMAIN space : space[p].frame \in DOMAIN mem
        /\ pc = "segment" /\ pc' = "done" /\ i > Len(file.phdrs)
        /\ BssMapped /\ \A k \in Loads : k < i => Loaded(k)
    BY DEF ImageInv, TypeOK, MakeStack, Frame
  <1>2. /\ l \in Nat \ {0} /\ t \in Nat \ {0} /\ sp \div Page = l + t
        /\ StackLocation = Page * l /\ StackSize = Page * t
        /\ sp \in Nat /\ StackLocation \in Nat /\ StackSize \in Nat
    BY StackIs
  <1>3. arg \in Nat /\ arg <= StackSize /\ arg' = arg
    BY <1>1, <1>2, ImageAssumption, PageNat DEF TypeOK
  <1>4. StackPages = (l + 1) .. (l + t) /\ StackPages = (sp \div Page - t + 1) .. (sp \div Page)
    BY <1>2 DEF StackPages
  <1>5. space' = Over(f, space)
    BY Zenon, <1>4 DEF MakeStack
  <1>6. mem' = [g \in DOMAIN blank |-> [o \in 0 .. (Page - 1) |-> byte(g, o)]]
    BY DEF MakeStack
  <1>7. /\ blank \in Seq(Frame) /\ Len(blank) = Len(mem) + (l + t)
        /\ \A g \in 1 .. Len(mem) : blank[g] = mem[g]
        /\ \A g \in Len(mem) + 1 .. Len(mem) + (l + t) : blank[g] = Blank
    <2>1. l + t \in Nat
      BY <1>2
    <2> QED BY Zenon, <1>1, <1>2, <2>1, Fresh
  <1> HIDE DEF blank, l, t
  <1>8. DOMAIN blank = 1 .. Len(mem) + (l + t)
    BY <1>7
  <1>9. ASSUME NEW g \in DOMAIN blank, NEW o \in 0 .. (Page - 1)
        PROVE  byte(g, o) \in Int
    <2>1. blank[g] \in Frame
      BY <1>7
    <2>2. blank[g][o] \in Int
      BY <2>1 DEF Frame
    <2>3. \A k \in 0 .. (arg - 1) : ArgByte(k) \in Int
      BY <1>3 DEF ArgByte
    <2> QED BY <2>2, <2>3
  <1>10. mem' \in Seq(Frame) /\ Len(mem') = Len(mem) + (l + t) /\ DOMAIN mem' = DOMAIN blank
    <2>1. l + t \in Nat /\ Len(mem) + (l + t) \in Nat
      BY <1>1, <1>2
    <2>2. \A g \in DOMAIN blank : [o \in 0 .. (Page - 1) |-> byte(g, o)] \in Frame
      BY <1>9 DEF Frame
    <2> DEFINE n == Len(mem) + (l + t)
               page(g) == [o \in 0 .. (Page - 1) |-> byte(g, o)]
    <2>3. n \in Nat /\ mem' = [g \in 1 .. n |-> page(g)] /\ \A g \in 1 .. n : page(g) \in Frame
      BY Zenon, <1>6, <1>8, <2>1, <2>2
    <2> HIDE DEF n, page
    <2>4. mem' \in Seq(Frame) /\ Len(mem') = n /\ DOMAIN mem' = 1 .. n
      BY <2>3
    <2> QED BY <1>8, <2>4 DEF n
  <1>11. ASSUME NEW g \in 1 .. Len(mem) PROVE mem'[g] = mem[g]
    <2>1. g \in DOMAIN blank /\ ~(g >= base) /\ blank[g] = mem[g]
      BY <1>1, <1>2, <1>7, <1>8
    <2>2. mem[g] \in Frame
      BY <1>1
    <2>3. \A o \in 0 .. (Page - 1) : byte(g, o) = mem[g][o]
      BY <2>1
    <2>4. mem'[g] = [o \in 0 .. (Page - 1) |-> byte(g, o)]
      BY <1>6, <2>1
    <2> HIDE DEF byte
    <2> QED BY Zenon, <2>2, <2>3, <2>4 DEF Frame
  <1>12. ASSUME NEW p \in StackPages
         PROVE  /\ p \in DOMAIN space' /\ space'[p].frame = base + (p - l)
                /\ base + (p - l) \in DOMAIN blank
                /\ mem'[base + (p - l)] = StackContent(p)
    <2>1. p \in Nat /\ p - l \in 1 .. t
      BY <1>2, <1>4
    <2>2. p \in DOMAIN space' /\ space'[p] = f[p]
      BY <1>5 DEF Over
    <2>3. StackFrame(base, sp \div Page - p) = base + (p - l)
      BY SMTT(40), <1>1, <1>2, <2>1 DEF StackFrame, t
    <2>4. base + (p - l) \in Len(mem) + 1 .. Len(mem) + (l + t)
      BY <1>1, <1>2, <2>1
    <2>5. base + (p - l) \in DOMAIN blank /\ blank[base + (p - l)] = Blank
      BY <1>1, <1>7, <1>8, <2>4
    <2>6. ASSUME NEW o \in 0 .. (Page - 1)
          PROVE  byte(base + (p - l), o) =
                   LET k == p * Page + o - ArgStart
                   IN  IF k \in 0 .. (arg - 1) THEN ArgByte(k) ELSE Zero
      <3>1. (base + (p - l)) - base = p - l /\ base + (p - l) >= base
        BY <1>1, <1>2, <2>1
      <3>2. (p - l) * Page = p * Page - Page * l /\ p * Page \in Int /\ Page * l \in Int
        BY <1>2, <2>1, PageNat
      <3>3. (p - l) * Page + o - (StackSize - arg) = p * Page + o - ArgStart
        BY <1>2, <1>3, <3>2, PageNat DEF ArgStart, sp
      <3>4. blank[base + (p - l)][o] = Zero
        BY <2>5 DEF Blank
      <3>5. ((base + (p - l)) - base) * Page + o - (StackSize - arg) = p * Page + o - ArgStart
        BY <3>1, <3>3
      <3> HIDE DEF base
      <3> QED BY <3>1, <3>4, <3>5
    <2>7. mem'[base + (p - l)] = [o \in 0 .. (Page - 1) |-> byte(base + (p - l), o)]
      BY <1>6, <2>5
    <2>8. mem'[base + (p - l)] = StackContent(p)
      BY <2>6, <2>7 DEF StackContent
    <2>9. space'[p].frame = base + (p - l)
      BY SMTT(40), <2>2, <2>3
    <2> HIDE DEF f, base
    <2> QED BY <2>2, <2>5, <2>8, <2>9
  <1> HIDE DEF byte
  <1>13. ASSUME NEW p, p \notin StackPages
         PROVE  /\ p \in DOMAIN space' <=> p \in DOMAIN space
                /\ p \in DOMAIN space => space'[p] = space[p]
    BY <1>5, <1>13 DEF Over
  <1> HIDE DEF f
  <1>14. \A p : p \notin StackPages => Keeps(p)
    BY <1>1, <1>11, <1>13 DEF Keeps
  <1>15. \A p \in DOMAIN space' : space'[p].frame \in DOMAIN mem'
    <2> SUFFICES ASSUME NEW p \in DOMAIN space' PROVE space'[p].frame \in DOMAIN blank
      BY <1>10
    <2>1. CASE p \in StackPages
      BY Zenon, <1>12, <2>1
    <2>2. CASE p \notin StackPages
      <3>1. space'[p].frame \in 1 .. Len(mem)
        BY <1>1, <1>13, <2>2
      <3> QED BY SMTT(40), <1>1, <1>2, <1>8, <3>1
    <2> QED BY <2>1, <2>2
  <1>16. BssMapped'
    <2>1. ASSUME NEW k \in FullBss, NEW p \in BssPages(k) PROVE Keeps(p)
      <3>1. BssPages(k) \cap StackPages = {}
        BY Zenon, <1>1, BssHeader, BehindStack DEF BssPages
      <3> QED BY <1>14, <3>1
    <2> QED BY Zenon, <1>1, <2>1, BssKept
  <1>17. ASSUME NEW k \in Loads PROVE Loaded(k)'
    <2>1. k < i
      BY SMTT(40), <1>1, SegmentHeader, Headers DEF TypeOK
    <2>2. SegmentPages(k) \cap StackPages = {}
      BY Zenon, <1>1, SegmentHeader, BehindStack DEF SegmentPages
    <2>3. \A p \in SegmentPages(k) : Keeps(p)
      BY <1>14, <2>2
    <2> QED BY Zenon, <1>1, <2>1, <2>3, LoadedKept
  <1>18. ArgStart \in Nat /\ ArgStart' = ArgStart
    BY <1>2, <1>3 DEF ArgStart, sp
  <1>19. /\ regs' \in [rip : Nat, rdi : Nat, rsp : Nat]
         /\ arg # 0 => regs'.rdi = ArgStart
         /\ regs'.rsp = (ArgStart \div StackAlign) * StackAlign
    <2>1. regs' = [regs EXCEPT !.rdi = IF arg = 0 THEN @ ELSE ArgStart,
                                     !.rsp = (ArgStart \div StackAlign) * StackAlign]
      BY DEF MakeStack
    <2>2. StackAlign \in Nat \ {0}
      BY ImageAssumption
    <2>3. ArgStart \div StackAlign \in Nat
      BY <1>18, <2>2, Quotient
    <2>4. (ArgStart \div StackAlign) * StackAlign \in Nat
      BY <2>2, <2>3
    <2>5. regs \in [rip : Nat, rdi : Nat, rsp : Nat]
      BY <1>1 DEF TypeOK
    <2> QED BY Zenon, <1>18, <2>1, <2>4, <2>5
  <1>20. StackMade'
    <2>1. StackPages' = StackPages /\ \A p : StackContent(p)' = StackContent(p)
      BY <1>1, <1>18 DEF StackPages, StackContent, ArgByte, Zero
    <2>2. \A p \in StackPages : p \in DOMAIN space' /\ mem'[space'[p].frame] = StackContent(p)
      BY Zenon, <1>12
    <2> QED BY Zenon, <1>3, <1>18, <1>19, <2>1, <2>2 DEF StackMade
  <1>21. TypeOK'
    <2>1. first' \in 0 .. Len(mem')
      BY SMTT(40), <1>1, <1>2, <1>10 DEF TypeOK
    <2> QED BY <1>1, <1>10, <1>15, <1>19, <2>1 DEF TypeOK, Frame
  <1>22. Loads' = Loads
    BY <1>1 DEF Loads
  <1> QED BY <1>1, <1>16, <1>17, <1>20, <1>21, <1>22 DEF ImageInv

LEMMA ImageStep == ImageInv /\ [Next]_vars => ImageInv'
  <1> SUFFICES ASSUME ImageInv, [Next]_vars PROVE ImageInv'
    OBVIOUS
  <1>1. CASE UNCHANGED vars
    <2>1. /\ UNCHANGED <<file, mem, space>> /\ UNCHANGED <<arg, pc, i, j, first, regs>>
      BY <1>1 DEF vars
    <2>2. /\ BssMapped' <=> BssMapped
          /\ \A k : (Loaded(k)' <=> Loaded(k)) /\ (Short(k)' <=> Short(k))
          /\ Loads' = Loads
      BY <2>1, SameMemory
    <2>3. (Copying' <=> Copying) /\ (StackMade' <=> StackMade)
      <3>1. /\ Loads' = Loads /\ Blank' = Blank
            /\ \A k : Pages(k)' = Pages(k) /\ SegmentPages(k)' = SegmentPages(k)
        BY <2>1 DEF Loads, Blank, Pages, SegmentPages, PagesAt
      <3>2. \A k, p : Content(k, p)' = Content(k, p) /\ (Allowed(k, p)' <=> Allowed(k, p))
        BY <2>1 DEF Content, Allowed
      <3>3. Copying' <=> Copying
        BY <2>1, <3>1, <3>2 DEF Copying
      <3>4. ArgStart' = ArgStart
        BY Zenon, <2>1 DEF ArgStart
      <3>5. StackPages' = StackPages /\ \A p : StackContent(p)' = StackContent(p)
        BY <2>1, <3>4 DEF StackPages, StackContent
      <3>6. StackMade' <=> StackMade
        BY <2>1, <3>4, <3>5 DEF StackMade
      <3> QED BY Zenon, <3>3, <3>6
    <2>4. TypeOK'
      BY ZenonT(40), <2>1 DEF ImageInv, TypeOK
    <2> QED BY <2>1, <2>2, <2>3, <2>4 DEF ImageInv
  <1> QED BY <1>1, FileInitInv, LoadBssInv, SkipInv, MapSegmentInv, DivideInv, CopyInv,
             MakeStackInv DEF Next

LEMMA ImageInvHolds == Spec => []ImageInv
  BY ImageInitInv, ImageStep, PTL DEF Spec

-----------------------------------------------------------------------------
(* What a server that was loaded finds.                                    *)

\* Bytes and their pages.
LEMMA SegmentByte ==
  ASSUME ImageInv, pc = "done", NEW k \in Loads,
         NEW a \in From(k) .. (DivRoundup(To(k), Page) * Page - 1)
  PROVE  /\ Mapped(a)
         /\ At(a) = LET o == file.phdrs[k].offset + a - From(k)
                    IN  IF a < To(k) /\ o < file.length THEN o ELSE Zero
         /\ space[a \div Page].w = Writable(file.phdrs[k].flags)
         /\ space[a \div Page].x = Executable(file.phdrs[k].flags)
  <1> DEFINE v == file.phdrs[k].vaddr
             n == file.phdrs[k].filesz
             start == file.phdrs[k].offset
             c == PageCnt(v, n)
             p == a \div Page
             r == a % Page
  <1>1. file \in Files /\ Loaded(k)
    <2>1. k < i
      <3>1. file \in Files /\ i > Len(file.phdrs) /\ i \in 1 .. (Len(file.phdrs) + 1)
        BY Zenon DEF ImageInv, TypeOK
      <3>2. k \in 1 .. Len(file.phdrs) /\ Len(file.phdrs) \in Nat
        BY Zenon, <3>1, SegmentHeader, Headers
      <3> QED BY <3>1, <3>2
    <2> QED BY <2>1 DEF ImageInv
  <1>2. v \in Nat /\ v % Page = 0 /\ n \in Nat /\ start \in Nat /\ file.length \in Nat
    BY Zenon, <1>1, SegmentHeader, Headers
  <1>3. c \in Nat /\ v \div Page \in Nat /\ v = Page * (v \div Page)
        /\ n <= Page * c /\ Page * c < n + Page
    BY Zenon, <1>2, Count, Aligned
  <1>4. DivRoundup(v + n, Page) * Page = v + Page * c
    <2> DEFINE q == v \div Page
               d == Page * c - n
    <2> HIDE DEF c, v, n, q
    <2>1. d \in 0 .. Page - 1 /\ Page * c \in Nat /\ Page * q \in Nat
      BY <1>2, <1>3, PageNat DEF q
    <2>2. Page * (q + c) = Page * q + Page * c
      BY <1>3, PageNat DEF q
    <2>3. (v + n) + Page - 1 = Page * (q + c) + (Page - 1 - d)
      BY <1>2, <1>3, <2>1, <2>2, PageNat DEF q
    <2>4. (v + n) + Page - 1 \in Nat /\ q + c \in Nat /\ Page - 1 - d \in 0 .. Page - 1
      BY <1>2, <1>3, <2>1, PageNat DEF q
    <2>5. ((v + n) + Page - 1) \div Page = q + c
      BY <2>3, <2>4, PageNat, Unique
    <2>6. DivRoundup(v + n, Page) = q + c
      BY <2>5 DEF DivRoundup
    <2>7. (q + c) * Page = Page * (q + c)
      BY <2>4, PageNat
    <2> QED BY <1>3, <2>2, <2>6, <2>7 DEF q
  <1>5. a \in Nat /\ v <= a /\ a < v + Page * c
    <2>1. Page * c \in Nat
      BY SMTT(40), <1>3, PageNat
    <2>2. a \in v .. (v + Page * c) - 1
      BY <1>4 DEF From, To
    <2> HIDE DEF c, v
    <2> QED BY <1>2, <2>1, <2>2
  <1>6. /\ p \in SegmentPages(k) /\ r \in 0 .. Page - 1
        /\ a - v = (p - v \div Page) * Page + r
    BY Zenon, <1>2, <1>5, InPages DEF SegmentPages
  <1>7. Allowed(k, p) /\ mem[space[p].frame] = Content(k, p)
    BY Zenon, <1>1, <1>6 DEF Loaded
  <1>8. Content(k, p)[r] = LET m == (p - v \div Page) * Page + r
                           IN  IF m < n /\ start + m < file.length THEN start + m ELSE Zero
    BY ZenonT(40), <1>6 DEF Content
  <1>9. Content(k, p)[r] = IF a - v < n /\ start + (a - v) < file.length
                           THEN start + (a - v) ELSE Zero
    BY Zenon, <1>6, <1>8
  <1>10. At(a) = Content(k, p)[r]
    BY Zenon, <1>7 DEF At
  <1>11. At(a) = IF a < v + n /\ start + a - v < file.length THEN start + a - v ELSE Zero
    <2> HIDE DEF v, n, start, p, r
    <2> QED BY <1>2, <1>5, <1>9, <1>10
  <1> QED BY Zenon, <1>7, <1>11 DEF Allowed, Mapped, From, To

LEMMA BssByte ==
  ASSUME ImageInv, pc = "done", NEW k \in DOMAIN file.shdrs, file.shdrs[k].bss,
         NEW a \in file.shdrs[k].addr .. (file.shdrs[k].addr + file.shdrs[k].size - 1)
  PROVE  Mapped(a) /\ At(a) = Zero /\ space[a \div Page].w
  <1> DEFINE v == file.shdrs[k].addr
             n == file.shdrs[k].size
             c == PageCnt(v, n)
  <1>1. file \in Files /\ BssMapped /\ v \in Nat /\ n \in Nat
    BY ZenonT(40), Headers DEF ImageInv, SectionHeader
  <1>2. a \in Nat /\ v <= a /\ a < v + n /\ n # 0
    <2> HIDE DEF v, n
    <2>1. a \in v .. (v + n - 1)
      BY DEF v, n
    <2> QED BY <1>1, <2>1
  <1>3. k \in FullBss
    BY <1>2 DEF FullBss
  <1>4. v % Page = 0
    BY Zenon, <1>1, <1>3, BssHeader
  <1>5. c \in Nat /\ n <= Page * c
    BY Zenon, <1>1, <1>4, Count
  <1>6. a < v + Page * c
    <2> HIDE DEF v, n, c
    <2>1. Page * c \in Nat
      BY <1>5, PageNat
    <2> QED BY <1>1, <1>2, <1>5, <2>1
  <1>7. a \div Page \in BssPages(k) /\ a % Page \in 0 .. Page - 1
    BY Zenon, <1>1, <1>2, <1>4, <1>6, InPages DEF BssPages
  <1>8. /\ a \div Page \in DOMAIN space /\ space[a \div Page].w
        /\ mem[space[a \div Page].frame] = Blank
    BY Zenon, <1>1, <1>3, <1>7 DEF BssMapped
  <1>9. Blank[a % Page] = Zero
    BY <1>7 DEF Blank
  <1> QED BY Zenon, <1>8, <1>9 DEF Mapped, At

LEMMA StackOf == StackAlign \in Nat \ {0} /\ ArgLengths \subseteq 0..(StackSize - Page)
  BY ImageAssumption

LEMMA StackByte ==
  ASSUME ImageInv, pc = "done", NEW a \in Nat, StackLocation + Page <= a, a < sp
  PROVE  /\ Mapped(a)
         /\ At(a) = IF a - ArgStart \in 0 .. (arg - 1) THEN ArgByte(a - ArgStart) ELSE Zero
  <1> DEFINE p == a \div Page
             r == a % Page
             l == StackLocation \div Page
             t == sp \div Page
  <1>1. p \in Nat /\ r \in 0 .. Page - 1 /\ a = Page * p + r
    BY ZenonT(40), PageNat, Quotient
  <1>2. l \in Nat /\ StackLocation = Page * l /\ sp % Page = 0 /\ sp \in Nat
    BY StackIs
  <1>3. t \in Nat /\ sp = Page * t
    BY Zenon, <1>2, Aligned
  <1>4. StackMade /\ StackPages = (l + 1) .. t
    BY DEF ImageInv, StackPages
  <1> HIDE DEF p, r, l, t
  <1>5. /\ Page * p \in Nat /\ Page * (p + 1) = Page * p + Page /\ p * Page = Page * p
        /\ Page * (l + 1) = Page * l + Page /\ Page * l \in Nat /\ Page * t \in Nat
    BY <1>1, <1>2, <1>3, PageNat
  <1>6. l + 1 < p + 1
    <2>1. Page * (l + 1) < Page * (p + 1)
      BY <1>1, <1>2, <1>5, PageNat
    <2> QED BY <1>1, <1>2, <2>1, PageNat, Less
  <1>7. p < t
    <2>1. Page * p < Page * t
      BY <1>1, <1>2, <1>3, <1>5, PageNat
    <2> QED BY <1>1, <1>3, <2>1, PageNat, Less
  <1>8. p \in StackPages
    BY <1>1, <1>2, <1>3, <1>4, <1>6, <1>7
  <1>9. p \in DOMAIN space /\ mem[space[p].frame] = StackContent(p)
    BY Zenon, <1>4, <1>8 DEF StackMade
  <1>10. p * Page + r = a
    BY <1>1, <1>5
  <1>11. PICK k : k = p * Page + r - ArgStart
    OBVIOUS
  <1>12. /\ k = a - ArgStart
         /\ StackContent(p)[r] = IF k \in 0 .. (arg - 1) THEN ArgByte(k) ELSE Zero
    <2>1. k = a - ArgStart
      <3>1. ArgStart \in Int
        BY <1>2, StackOf DEF ArgStart, ImageInv, TypeOK
      <3> QED BY <1>1, <1>5, <1>10, <1>11, <3>1
    <2>2. StackContent(p)[r] =
            IF p * Page + r - ArgStart \in 0 .. (arg - 1)
            THEN ArgByte(p * Page + r - ArgStart) ELSE Zero
      BY <1>1 DEF StackContent
    <2> HIDE DEF r, p
    <2>3. StackContent(p)[r] = IF k \in 0 .. (arg - 1) THEN ArgByte(k) ELSE Zero
      BY Zenon, <1>11, <2>2
    <2> QED BY <2>1, <2>3
  <1>13. p \in DOMAIN space /\ mem[space[p].frame][r] = StackContent(p)[r]
    BY Zenon, <1>9
  <1> QED BY Zenon, <1>12, <1>13 DEF Mapped, At, p, r

LEMMA StackGood == ASSUME ImageInv, pc = "done" PROVE StackReady
  <1>1. /\ arg \in Nat /\ arg <= StackSize - Page /\ sp \in Nat /\ StackLocation \in Nat
        /\ StackSize \in Nat /\ StackMade /\ StackAlign \in Nat \ {0}
    <2>1. /\ sp \in Nat /\ StackLocation \in Nat /\ StackSize \in Nat
          /\ StackMade /\ StackAlign \in Nat \ {0} /\ arg \in 0..(StackSize - Page)
      BY Zenon, StackIs, StackOf DEF ImageInv, TypeOK
    <2> QED BY <2>1, PageNat
  <1>2. /\ ArgStart \in Nat /\ ArgStart = sp - arg /\ sp = StackLocation + StackSize
        /\ StackLocation + Page <= ArgStart
    BY <1>1, PageNat DEF ArgStart, sp
  <1> DEFINE q == ArgStart \div StackAlign
  <1>3. /\ arg # 0 => regs.rdi = ArgStart
        /\ regs.rsp = q * StackAlign
    BY <1>1 DEF StackMade
  <1>4. q \in Nat /\ StackAlign * q <= ArgStart
    <2>1. q \in Nat /\ ArgStart % StackAlign \in 0 .. StackAlign - 1
          /\ ArgStart = StackAlign * q + (ArgStart % StackAlign)
      BY Zenon, <1>1, <1>2, Quotient
    <2> DEFINE r == ArgStart % StackAlign
    <2> HIDE DEF q, r
    <2>2. StackAlign * q \in Nat
      BY <1>1, <2>1
    <2>3. r \in 0 .. StackAlign - 1 /\ ArgStart = StackAlign * q + r
      BY Zenon, <2>1 DEF r
    <2> QED BY <1>1, <2>1, <2>2, <2>3
  <1> HIDE DEF q
  <1>5. regs.rsp \in Nat /\ regs.rsp <= ArgStart /\ regs.rsp = StackAlign * q + 0
    BY <1>1, <1>2, <1>3, <1>4
  <1>6. regs.rsp % StackAlign = 0
    <2>1. 0 \in 0 .. StackAlign - 1
      BY <1>1
    <2> QED BY Zenon, <1>1, <1>4, <1>5, <2>1, Unique
  <1>7. ASSUME arg # 0, NEW k \in 0 .. (arg - 1)
        PROVE  Mapped(regs.rdi + k) /\ At(regs.rdi + k) = ArgByte(k)
    <2>1. PICK a : a = regs.rdi + k
      OBVIOUS
    <2>2. /\ a \in Nat /\ StackLocation + Page <= a /\ a < sp
          /\ a - ArgStart = k
      BY <1>1, <1>2, <1>3, <1>7, <2>1, PageNat
    <2>3. /\ Mapped(a)
          /\ At(a) = IF a - ArgStart \in 0 .. (arg - 1) THEN ArgByte(a - ArgStart) ELSE Zero
      BY Zenon, <2>2, StackByte
    <2> QED BY Zenon, <2>1, <2>2, <2>3
  <1>8. ASSUME NEW a \in (StackLocation + Page) .. (regs.rsp - 1)
        PROVE  Mapped(a) /\ At(a) = Zero
    <2>1. /\ a \in Nat /\ StackLocation + Page <= a /\ a < sp
          /\ ~(a - ArgStart \in 0 .. (arg - 1))
      BY <1>1, <1>2, <1>5, PageNat
    <2> QED BY Zenon, <2>1, StackByte
  <1> QED BY <1>3, <1>5, <1>6, <1>7, <1>8 DEF StackReady

\* A server that was loaded starts on exactly what its executable describes:
\* the bytes of its segments with their rights, a zeroed .bss, its argument and
\* an aligned stack (launch_server, elf64_file_load), whatever the sizes of its
\* segments and of pages.
THEOREM ImageRight == Spec => []ImageExact
  <1>1. ImageInv => ImageExact
    <2> SUFFICES ASSUME ImageInv, pc = "done"
                 PROVE  SegmentsExact /\ BssZero /\ StackReady
      BY DEF ImageExact
    <2>1. SegmentsExact
      BY Zenon, SegmentByte DEF SegmentsExact
    <2>2. BssZero
      BY Zenon, BssByte DEF BssZero
    <2> QED BY <2>1, <2>2, StackGood
  <1> QED BY <1>1, ImageInvHolds, PTL

\* elf64_file_load divides by zero only for a segment that is not empty and
\* shorter than a page (kernel/core/elf.c:138).
THEOREM HaltsOnShort ==
  Spec => [](pc = "halted" => \E k \in Loads : file.phdrs[k].filesz \in 1 .. Page - 1)
  <1>1. ImageInv => (pc = "halted" => \E k \in Loads : file.phdrs[k].filesz \in 1 .. Page - 1)
    <2> SUFFICES ASSUME ImageInv, NEW k \in Loads, Short(k)
                 PROVE  file.phdrs[k].filesz \in 1 .. Page - 1
      BY DEF ImageInv
    <2> QED BY SegmentHeader, PageNat DEF Short, ImageInv
  <1> QED BY <1>1, ImageInvHolds, PTL

-----------------------------------------------------------------------------
(* The launch comes to its end.                                            *)

Stage == [init |-> 0, bss |-> 1, segment |-> 2, copy |-> 2, done |-> 3, failed |-> 3, halted |-> 3]

\* launch_server goes on to its next part, or in the loop over the program
\* headers to the next header, to copying a segment, or to its next page.
Advances ==
  \/ Stage[pc'] > Stage[pc]
  \/ Stage[pc'] = Stage[pc] /\ i' > i
  \/ i' = i /\ pc = "segment" /\ pc' = "copy"
  \/ i' = i /\ pc = "copy" /\ pc' = "copy" /\ j' > j

\* The indices stay within the headers, and within the pages of a segment.
Bounded ==
  /\ i \in 1 .. Len(file.phdrs) + 1
  /\ pc = "copy" => i <= Len(file.phdrs) /\ j \in 0 .. Pages(i) - 1

(***************************************************************************)
(* launch_server runs for ever on no executable: every step advances, and  *)
(* as the indices are bounded it can only do so finitely often.            *)
(***************************************************************************)
THEOREM LaunchAdvances == Spec => [][Advances]_vars /\ []Bounded
<1>1. ImageInv => Bounded
  <2> SUFFICES ASSUME ImageInv PROVE Bounded
    OBVIOUS
  <2>1. i \in 1 .. Len(file.phdrs) + 1 /\ j \in Nat
    BY Zenon DEF ImageInv, TypeOK
  <2>2. ASSUME pc = "copy" PROVE i \in DOMAIN file.phdrs /\ Pages(i) \in Nat /\ j < Pages(i)
    <3>1. i \in Loads /\ j < Pages(i)
      BY Zenon, <2>2, Left DEF ImageInv, Copying
    <3>2. i \in DOMAIN file.phdrs
      BY Zenon, <3>1 DEF Loads
    <3>3. file.phdrs[i].vaddr \in Nat /\ file.phdrs[i].filesz \in Nat /\ file.phdrs[i].vaddr % Page = 0
      BY Zenon, <3>1, SegmentHeader DEF ImageInv
    <3> QED BY Zenon, <3>1, <3>2, <3>3, Aligned, Count DEF Pages
  <2>3. DOMAIN file.phdrs = 1 .. Len(file.phdrs) /\ Len(file.phdrs) \in Nat
    BY Headers DEF ImageInv
  <2> QED BY <2>1, <2>2, <2>3 DEF Bounded
<1>2. ImageInv /\ [Next]_vars => [Advances]_vars
  <2> SUFFICES ASSUME ImageInv, Next PROVE Advances
    BY Zenon
  <2>1. i \in Int /\ j \in Int
    BY SMTT(40) DEF ImageInv, TypeOK
  <2>2. CASE FileInitFails \/ FileInit \/ LoadBss \/ DivideByZero \/ MakeStack
    BY <2>2 DEF FileInitFails, FileInit, LoadBss, DivideByZero, MakeStack, Advances, Stage
  <2>3. CASE SkipSegment
    BY <2>1, <2>3 DEF SkipSegment, Advances
  <2>4. CASE MapSegment
    BY Zenon, <2>4 DEF MapSegment, Advances
  <2>5. CASE CopyPage
    <3>1. /\ pc = "copy"
          /\ \/ j' = j + 1 /\ i' = i /\ pc' = "copy"
             \/ i' = i + 1 /\ pc' = "segment"
      BY Zenon, <2>5 DEF CopyPage
    <3> QED BY SMTT(40), <2>1, <3>1 DEF Advances, Stage
  <2> QED BY Zenon, <2>2, <2>3, <2>4, <2>5 DEF Next
<1> QED BY <1>1, <1>2, ImageInvHolds, PTL DEF Spec
=============================================================================
