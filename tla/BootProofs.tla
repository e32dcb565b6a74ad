----------------------------- MODULE BootProofs -----------------------------
(***************************************************************************)
(* Boot, for every memory map and any number of cores.                     *)
(*                                                                         *)
(* What pmm_init hands to the allocator is what the allocator assumes.     *)
(* Both loops that adjust a region keep it sound: a module made of it lies *)
(* in whole pages, within the region from its bottom on.  That is argued   *)
(* in pages, since the base is rounded up and the length down.             *)
(*                                                                         *)
(* The boot chain has one runner at a time: a core that fills in the       *)
(* parameter block, or the core it has just woken.  The runner's place     *)
(* fixes the count and which cores are still off; a tick can only take the *)
(* runner away.                                                            *)
(***************************************************************************)
EXTENDS PmmInit, SmpBoot, TLAPS

-----------------------------------------------------------------------------
(* pmm_init.                                                               *)

Multiple(x) == \E n \in Nat : x = Page * n

\* The first byte of a region that may be used.
Bottom(g) == IF g.base < Low THEN Low ELSE g.base

\* A region e that may become a module, made from the region g.
Sound(e, g) ==
  /\ e.base \in Nat /\ e.length \in Nat /\ e.usable \in BOOLEAN
  /\ e.usable = g.usable
  /\ e.usable /\ e.length # 0 =>
       /\ Multiple(e.base) /\ Multiple(e.length)
       /\ Bottom(g) <= e.base
       /\ e.base + e.length <= Bottom(g) + g.length

Entry == [base : Nat, length : Nat, usable : BOOLEAN]

Module == [entry : Nat, at : Nat, bitmap : Nat, size : Nat]

\* The inductive invariant.
Fed ==
  /\ given \in Maps
  /\ mmap \in Seq(Entry) /\ Len(mmap) = Len(given)
  /\ buffer_size \in Nat /\ meta_buffer \in Nat
  /\ i \in 1 .. Len(given)
  /\ \A j \in DOMAIN given :
       IF phase = "size" /\ j >= i THEN mmap[j] = given[j] ELSE Sound(mmap[j], given[j])
  /\ modules \in Seq(Module)
  /\ phase \in {"size", "reserve", "unbacked"} => modules = <<>>
  /\ \A k \in DOMAIN modules :
       /\ modules[k].entry \in DOMAIN given
       /\ mmap[modules[k].entry].usable /\ mmap[modules[k].entry].length # 0
       /\ phase = "build" => modules[k].entry < i
  /\ \A k, l \in DOMAIN modules : k < l => modules[k].entry < modules[l].entry

-----------------------------------------------------------------------------
(* Arithmetic.                                                             *)

LEMMA Division ==
  ASSUME NEW x \in Nat, NEW y \in Nat \ {0}
  PROVE  /\ x \div y \in Nat
         /\ y * (x \div y) <= x
         /\ x < y * (x \div y) + y
  <1>1. x \div y \in Nat
    OBVIOUS
  <1>2. y * (x \div y) <= x
    BY SMTT(30)
  <1>3. x < y * (x \div y) + y
    BY SMTT(30)
  <1> QED BY <1>1, <1>2, <1>3

LEMMA MultipleOf ==
  ASSUME NEW x \in Nat, x % Page = 0
  PROVE  Multiple(x)
  <1>1. Page \in Nat \ {0}
    BY MapsAssumption
  <1>2. x \div Page \in Nat
    BY <1>1
  <1>3. x = Page * (x \div Page)
    BY <1>1, SMTT(30)
  <1> QED BY <1>2, <1>3 DEF Multiple

LEMMA Remainder ==
  ASSUME NEW x, Multiple(x)
  PROVE  x \in Nat /\ x % Page = 0
  <1>1. Page \in Nat \ {0}
    BY MapsAssumption
  <1>2. PICK n \in Nat : x = Page * n
    BY DEF Multiple
  <1>3. x \in Nat
    BY <1>1, <1>2
  <1> DEFINE q == x \div Page
             r == x % Page
  <1>4. q \in Nat /\ r \in Nat /\ r < Page
    BY <1>1, <1>3
  <1>5. x = Page * q + r
    BY <1>1, <1>3, SMTT(30)
  <1> HIDE DEF q, r
  <1>6. CASE n > q
    <2>1. Page * n >= Page * (q + 1)
      BY <1>1, <1>4, <1>6
    <2>2. Page * (q + 1) = Page * q + Page
      BY <1>1, <1>4
    <2> QED BY <1>1, <1>2, <1>3, <1>4, <1>5, <2>1, <2>2
  <1>7. CASE n < q
    <2>1. Page * q >= Page * (n + 1)
      BY <1>1, <1>4, <1>7
    <2>2. Page * (n + 1) = Page * n + Page
      BY <1>1
    <2> QED BY <1>1, <1>2, <1>3, <1>4, <1>5, <2>1, <2>2
  <1>8. CASE n = q
    <2>1. Page * n = Page * q /\ Page * q \in Nat
      BY <1>1, <1>4, <1>8
    <2>2. r = 0
      BY <1>2, <1>4, <1>5, <2>1
    <2> QED BY <1>3, <2>2 DEF r
  <1> QED BY <1>4, <1>6, <1>7, <1>8

LEMMA SumMultiple ==
  ASSUME NEW x, NEW y, Multiple(x), Multiple(y)
  PROVE  Multiple(x + y)
  <1>1. Page \in Nat
    BY MapsAssumption
  <1>2. PICK n \in Nat : x = Page * n
    BY DEF Multiple
  <1>3. PICK m \in Nat : y = Page * m
    BY DEF Multiple
  <1>4. x + y = Page * (n + m)
    BY <1>1, <1>2, <1>3
  <1> QED BY <1>4 DEF Multiple

\* Rounding the base up and the length down loses no more than the buffer
\* takes: in whole pages the end stays where it was.
LEMMA Rounded ==
  ASSUME NEW b \in Nat, NEW len \in Nat, NEW s \in Nat, s <= len,
         Multiple(b), Multiple(len)
  PROVE  /\ Multiple(AlignUp(b + s, Page)) /\ Multiple(((len - s) \div Page) * Page)
         /\ b <= AlignUp(b + s, Page)
         /\ AlignUp(b + s, Page) + ((len - s) \div Page) * Page <= b + len
  <1>1. Page \in Nat \ {0}
    BY MapsAssumption
  <1>2. PICK m \in Nat : b = Page * m
    BY DEF Multiple
  <1>3. PICK n \in Nat : len = Page * n
    BY DEF Multiple
  <1> DEFINE q == (b + s + Page - 1) \div Page
             t == (len - s) \div Page
  <1>4. q \in Nat /\ Page * q <= b + s + Page - 1 /\ b + s + Page - 1 < Page * q + Page
    <2>1. b + s + Page - 1 \in Nat
      BY <1>1
    <2> QED BY <1>1, <2>1, Division
  <1>5. t \in Nat /\ Page * t <= len - s
    <2>1. len - s \in Nat
      OBVIOUS
    <2> QED BY <1>1, <2>1, Division
  <1>6. AlignUp(b + s, Page) = q * Page /\ ((len - s) \div Page) * Page = t * Page
    BY DEF AlignUp, DivRoundup
  <1> HIDE DEF q, t
  <1>7. q * Page = Page * q /\ t * Page = Page * t /\ Page * q \in Nat /\ Page * t \in Nat
    BY <1>1, <1>4, <1>5
  <1>8. Page * q + Page * t <= b + len
    <2>1. Page * q + Page * t < Page * m + Page * n + Page
      BY <1>1, <1>2, <1>3, <1>4, <1>5, <1>7
    <2>2. CASE q + t > m + n
      <3>1. Page * (q + t) >= Page * (m + n + 1)
        BY <1>1, <1>4, <1>5, <2>2
      <3>2. Page * (q + t) = Page * q + Page * t
        BY <1>1, <1>4, <1>5
      <3>3. Page * (m + n + 1) = Page * m + Page * n + Page
        BY <1>1
      <3> QED BY <1>1, <1>2, <1>3, <1>7, <2>1, <3>1, <3>2, <3>3
    <2>3. CASE q + t <= m + n
      <3>1. Page * (q + t) <= Page * (m + n)
        BY <1>1, <1>4, <1>5, <2>3
      <3>2. Page * (q + t) = Page * q + Page * t
        BY <1>1, <1>4, <1>5
      <3>3. Page * (m + n) = Page * m + Page * n
        BY <1>1
      <3> QED BY <1>2, <1>3, <3>1, <3>2, <3>3
    <2> QED BY <1>4, <1>5, <2>2, <2>3
  <1>9. Multiple(Page * q) /\ Multiple(Page * t)
    BY <1>4, <1>5 DEF Multiple
  <1>10. b <= Page * q
    BY <1>1, <1>4, <1>7
  <1> QED BY <1>6, <1>7, <1>8, <1>9, <1>10

-----------------------------------------------------------------------------
(* Regions.                                                                *)

\* A usable region of the boot loader's map lies on whole pages.
LEMMA GivenAligned ==
  ASSUME NEW map \in Maps, NEW j \in DOMAIN map
  PROVE  /\ map[j] \in Entry
         /\ map[j].usable => Multiple(map[j].base) /\ Multiple(map[j].length)
  <1>1. map \in Seq(Entry)
    BY MapsAssumption DEF Entry
  <1>2. map[j] \in Entry
    BY <1>1
  <1>3. ASSUME map[j].usable PROVE map[j].base % Page = 0 /\ map[j].length % Page = 0
    BY <1>3, MapsAssumption
  <1>4. map[j].base \in Nat /\ map[j].length \in Nat
    BY <1>2 DEF Entry
  <1> QED BY <1>2, <1>3, <1>4, MultipleOf

\* The first loop: a region that straddles the limit begins there, with its
\* length as it was.
LEMMA CutSound ==
  ASSUME NEW map \in Maps, NEW j \in DOMAIN map
  PROVE  CutLow(map[j]) \in Entry /\ Sound(CutLow(map[j]), map[j])
  <1> DEFINE e == map[j]
  <1>1. e \in Entry /\ (e.usable => Multiple(e.base) /\ Multiple(e.length))
    BY GivenAligned
  <1>2. Low \in Nat /\ Multiple(Low)
    <2>1. Low \in Nat /\ Low % Page = 0
      BY MapsAssumption
    <2> QED BY <2>1, MultipleOf
  <1> HIDE DEF e
  <1>3. CASE e.base >= Low
    <2>1. CutLow(e) = e
      BY <1>3 DEF CutLow
    <2> QED BY <1>1, <1>2, <1>3, <2>1 DEF Sound, Bottom, Entry, e
  <1>4. CASE ~(e.base >= Low) /\ Low - e.base > e.length
    <2>1. CutLow(e) = [e EXCEPT !.length = 0]
      BY <1>4 DEF CutLow
    <2> QED BY <1>1, <2>1 DEF Sound, Entry, e
  <1>5. CASE ~(e.base >= Low) /\ ~(Low - e.base > e.length)
    <2>1. CutLow(e) = [e EXCEPT !.base = Low, !.length = @ - (Low - Low)]
      BY <1>5 DEF CutLow
    <2>2. e.length - (Low - Low) = e.length
      BY <1>1, <1>2 DEF Entry
    <2>3. CutLow(e) = [base |-> Low, length |-> e.length, usable |-> e.usable]
      BY ZenonT(60), <1>1, <2>1, <2>2 DEF Entry
    <2> QED BY <1>1, <1>2, <1>5, <2>3 DEF Sound, Bottom, Entry, e
  <1> QED BY <1>3, <1>4, <1>5

\* The second loop: what is left of the region that the buffer goes to.
LEMMA CarvedSound ==
  ASSUME NEW e \in Entry, NEW g, Sound(e, g), g \in Entry, Fits(e), buffer_size \in Nat
  PROVE  Carved(e) \in Entry /\ Sound(Carved(e), g)
  <1> DEFINE base == AlignUp(e.base + buffer_size, Page)
             length == ((e.length - buffer_size) \div Page) * Page
  <1>1. Carved(e) = [base |-> base, length |-> length, usable |-> e.usable]
    <2>1. Carved(e) = [e EXCEPT !.base = base, !.length = length]
      BY DEF Carved
    <2> HIDE DEF base, length
    <2> QED BY ZenonT(60), <2>1 DEF Entry
  <1>2. e.base \in Nat /\ e.length \in Nat /\ e.usable /\ buffer_size <= e.length
    BY DEF Fits, Entry
  <1>3. CASE e.length # 0
    <2>1. /\ Multiple(e.base) /\ Multiple(e.length) /\ Bottom(g) <= e.base
          /\ e.base + e.length <= Bottom(g) + g.length
      BY <1>2, <1>3 DEF Sound
    <2>2. /\ Multiple(base) /\ Multiple(length) /\ e.base <= base
          /\ base + length <= e.base + e.length
      BY <1>2, <2>1, Rounded
    <2>3. base \in Nat /\ length \in Nat
      BY <2>2, Remainder
    <2>4. Bottom(g) \in Nat /\ g.length \in Nat
      BY MapsAssumption DEF Bottom, Entry
    <2> HIDE DEF base, length
    <2>5. Bottom(g) <= base /\ base + length <= Bottom(g) + g.length
      BY <1>2, <2>1, <2>2, <2>3, <2>4
    <2> QED BY <1>1, <1>2, <2>2, <2>3, <2>5 DEF Sound, Entry
  <1>4. CASE e.length = 0
    <2>1. Page \in Nat \ {0}
      BY MapsAssumption
    <2>2. buffer_size = 0
      BY <1>2, <1>4
    <2>3. length = 0
      BY <1>4, <2>1, <2>2
    <2>4. base \in Nat
      <3>1. (e.base + buffer_size + Page - 1) \div Page \in Nat
        BY <1>2, <2>1, <2>2
      <3> QED BY <2>1, <3>1 DEF AlignUp, DivRoundup
    <2> HIDE DEF base, length
    <2> QED BY <1>1, <1>2, <2>3, <2>4 DEF Sound, Entry
  <1> QED BY <1>3, <1>4

\* Sizes are numbers.
LEMMA SizeNat ==
  ASSUME NEW length \in Nat
  PROVE  BitmapSize(length) \in Nat
  <1>1. Page \in Nat \ {0}
    BY MapsAssumption
  <1>2. DivRoundup(length, Page) \in Nat
    <2>1. length + Page - 1 \in Nat
      BY <1>1
    <2> QED BY <1>1, <2>1, Division DEF DivRoundup
  <1> QED BY <1>2 DEF BitmapSize, DivRoundup

LEMMA AlignNat ==
  ASSUME NEW x \in Nat, NEW a \in Nat \ {0}
  PROVE  AlignUp(x, a) \in Nat
  <1>1. (x + a - 1) \div a \in Nat
    <2>1. x + a - 1 \in Nat
      OBVIOUS
    <2> QED BY <2>1, Division
  <1> QED BY <1>1 DEF AlignUp, DivRoundup

-----------------------------------------------------------------------------
(* The invariant.                                                          *)

LEMMA FedInit == SetupInit => Fed
  <1> SUFFICES ASSUME SetupInit PROVE Fed
    OBVIOUS
  <1>1. given \in Seq(Entry) /\ given # <<>> /\ given \in Maps
    BY MapsAssumption DEF SetupInit, Entry
  <1>2. Len(given) \in Nat /\ 1 \in 1 .. Len(given)
    BY <1>1
  <1>3. modules = <<>> /\ phase = "size" /\ mmap = given /\ buffer_size = 0 /\ i = 1
        /\ meta_buffer = 0
    BY DEF SetupInit
  <1>4. \A j \in DOMAIN given : j >= i
    BY <1>1, <1>3
  <1>5. DOMAIN modules = {}
    BY <1>3
  <1>6. modules \in Seq(Module)
    BY <1>3
  <1> QED BY <1>1, <1>2, <1>3, <1>4, <1>5, <1>6 DEF Fed

\* The loops over the map stay within it.
LEMMA AdvanceIn ==
  ASSUME Fed, NEW next, Advance(next)
  PROVE  /\ i' \in 1 .. Len(given)
         /\ \/ i < Len(given) /\ i' = i + 1 /\ phase' = phase
            \/ i = Len(given) /\ i' = 1 /\ phase' = next
  <1>1. i \in 1 .. Len(given) /\ Len(given) \in Nat /\ Len(mmap) = Len(given)
    <2>1. given \in Seq(Entry)
      BY MapsAssumption DEF Fed, Entry
    <2> QED BY <2>1 DEF Fed
  <1> QED BY <1>1 DEF Advance

LEMMA FedSize == Fed /\ Size => Fed'
  <1> SUFFICES ASSUME Fed, Size PROVE Fed'
    OBVIOUS
  <1>1. given \in Maps /\ given \in Seq(Entry) /\ DOMAIN given = 1 .. Len(given)
        /\ mmap \in Seq(Entry) /\ DOMAIN mmap = DOMAIN given /\ i \in DOMAIN given
    BY MapsAssumption DEF Fed, Entry
  <1>2. mmap[i] = given[i] /\ phase = "size" /\ modules = <<>>
    BY <1>1 DEF Fed, Size
  <1>3. given' = given /\ modules' = <<>> /\ meta_buffer' = meta_buffer /\ meta_buffer \in Nat
    BY <1>2 DEF Size, Fed
  <1>4. mmap' = [mmap EXCEPT ![i] = CutLow(given[i])]
    BY <1>2 DEF Size
  <1>5. CutLow(given[i]) \in Entry /\ Sound(CutLow(given[i]), given[i])
    BY <1>1, CutSound
  <1>6. mmap' \in Seq(Entry) /\ Len(mmap') = Len(given)
    BY <1>1, <1>4, <1>5 DEF Fed
  <1>7. buffer_size' \in Nat
    <2>1. mmap[i].length \in Nat /\ ModSize \in Nat
      <3>1. mmap[i] \in Entry
        BY <1>1
      <3>2. ModSize \in Nat
        BY MapsAssumption
      <3> QED BY <3>1, <3>2 DEF Entry
    <2>2. BitmapSize(mmap[i].length) \in Nat
      BY <2>1, SizeNat
    <2>3. buffer_size \in Nat
      BY DEF Fed
    <2> QED BY <2>1, <2>2, <2>3 DEF Size
  <1>8. Advance("reserve")
    BY DEF Size
  <1>9. \A j \in DOMAIN given :
          IF phase' = "size" /\ j >= i' THEN mmap'[j] = given[j] ELSE Sound(mmap'[j], given[j])
    <2> SUFFICES ASSUME NEW j \in DOMAIN given
                 PROVE  IF phase' = "size" /\ j >= i' THEN mmap'[j] = given[j]
                        ELSE Sound(mmap'[j], given[j])
      OBVIOUS
    <2>1. CASE j = i
      <3>1. mmap'[j] = CutLow(given[i])
        BY <1>1, <1>4, <2>1
      <3>2. ~(phase' = "size" /\ j >= i')
        BY <1>1, <1>2, <1>8, <2>1, AdvanceIn
      <3> QED BY <1>5, <2>1, <3>1, <3>2
    <2>2. CASE j > i
      <3>1. mmap'[j] = given[j]
        BY <1>1, <1>2, <1>4, <2>2 DEF Fed
      <3>2. phase' = "size" /\ j >= i'
        BY <1>1, <1>2, <1>8, <2>2, AdvanceIn
      <3> QED BY <3>1, <3>2
    <2>3. CASE j < i
      <3>1. mmap'[j] = mmap[j] /\ Sound(mmap[j], given[j])
        BY <1>1, <1>2, <1>4, <2>3 DEF Fed
      <3>2. ~(phase' = "size" /\ j >= i')
        BY <1>1, <1>2, <1>8, <2>3, AdvanceIn
      <3> QED BY <3>1, <3>2
    <2> QED BY <1>1, <2>1, <2>2, <2>3
  <1>10. modules' \in Seq(Module)
         /\ DOMAIN modules' = {}
    BY <1>3
  <1>11. i' \in 1 .. Len(given)
    BY <1>8, AdvanceIn
  <1> QED BY <1>1, <1>3, <1>6, <1>7, <1>9, <1>10, <1>11 DEF Fed

LEMMA FedReserve == Fed /\ (Reserve \/ ReserveSkip) => Fed'
  <1> SUFFICES ASSUME Fed, Reserve \/ ReserveSkip PROVE Fed'
    OBVIOUS
  <1>1. given \in Maps /\ given \in Seq(Entry) /\ DOMAIN given = 1 .. Len(given)
        /\ mmap \in Seq(Entry) /\ DOMAIN mmap = DOMAIN given /\ i \in DOMAIN given
        /\ buffer_size \in Nat
    BY MapsAssumption DEF Fed, Entry
  <1>2. phase = "reserve" /\ modules = <<>>
    BY DEF Fed, Reserve, ReserveSkip
  <1>3. \A j \in DOMAIN given : Sound(mmap[j], given[j])
    BY <1>2 DEF Fed
  <1>4. given' = given /\ modules' = <<>> /\ buffer_size' = buffer_size
    BY <1>2 DEF Reserve, ReserveSkip
  <1>5. modules' \in Seq(Module)
        /\ DOMAIN modules' = {}
    BY <1>4
  <1>6. CASE Reserve
    <2>1. Carved(mmap[i]) \in Entry /\ Sound(Carved(mmap[i]), given[i])
      <3>1. mmap[i] \in Entry /\ given[i] \in Entry /\ Fits(mmap[i]) /\ Sound(mmap[i], given[i])
        BY <1>1, <1>3, <1>6 DEF Reserve
      <3> QED BY <1>1, <3>1, CarvedSound
    <2>2. mmap' = [mmap EXCEPT ![i] = Carved(mmap[i])] /\ i' = 1 /\ phase' = "build"
      BY <1>6 DEF Reserve
    <2>3. mmap' \in Seq(Entry) /\ Len(mmap') = Len(given)
      BY <1>1, <2>1, <2>2 DEF Fed
    <2>4. \A j \in DOMAIN given : Sound(mmap'[j], given[j])
      BY <1>1, <1>3, <2>1, <2>2
    <2>5. i' \in 1 .. Len(given)
      BY <1>1, <2>2
    <2>6. meta_buffer' \in Nat
      <3>1. mmap[i] \in Entry
        BY <1>1
      <3> QED BY <1>6, <3>1 DEF Reserve, Entry
    <2> QED BY <1>1, <1>4, <1>5, <2>2, <2>3, <2>4, <2>5, <2>6 DEF Fed
  <1>7. CASE ReserveSkip
    <2>1. mmap' = mmap /\ meta_buffer' \in Nat
      BY <1>7 DEF ReserveSkip, Fed
    <2>2. i' \in 1 .. Len(given) /\ phase' \in {"reserve", "unbacked"}
      BY <1>2, <1>7, AdvanceIn DEF ReserveSkip
    <2> QED BY <1>1, <1>3, <1>4, <1>5, <2>1, <2>2 DEF Fed
  <1> QED BY <1>6, <1>7

LEMMA FedBuild == Fed /\ Build => Fed'
  <1> SUFFICES ASSUME Fed, Build PROVE Fed'
    OBVIOUS
  <1>1. given \in Maps /\ given \in Seq(Entry) /\ DOMAIN given = 1 .. Len(given)
        /\ Len(given) \in Nat
        /\ mmap \in Seq(Entry) /\ DOMAIN mmap = DOMAIN given /\ i \in DOMAIN given
        /\ buffer_size \in Nat
    BY MapsAssumption DEF Fed, Entry
  <1>2. /\ phase = "build" /\ modules \in Seq(Module)
        /\ \A j \in DOMAIN given : Sound(mmap[j], given[j])
    BY DEF Fed, Build
  <1>3. given' = given /\ mmap' = mmap /\ buffer_size' = buffer_size
    BY DEF Build
  <1>4. i' \in 1 .. Len(given) /\ phase' \in {"build", "done"} /\ (phase' = "build" => i' = i + 1)
    BY <1>2, AdvanceIn DEF Build
  <1>5. \A k \in DOMAIN modules :
          /\ modules[k].entry \in DOMAIN given
          /\ mmap[modules[k].entry].usable /\ mmap[modules[k].entry].length # 0
          /\ modules[k].entry < i
    BY <1>2 DEF Fed
  <1>6. \A k, l \in DOMAIN modules : k < l => modules[k].entry < modules[l].entry
    BY DEF Fed
  <1>7. CASE mmap[i].usable /\ mmap[i].length # 0
    <2> DEFINE at == AlignUp(meta_buffer, ModSize)
               bits == BitmapSize(mmap[i].length)
               new == [entry |-> i, at |-> at, bitmap |-> at + ModSize * 2, size |-> bits]
    <2>1. modules' = Append(modules, new) /\ meta_buffer' = at + ModSize * 2 + bits
      BY <1>7 DEF Build
    <2>2. at \in Nat /\ bits \in Nat /\ ModSize \in Nat
      <3>1. mmap[i] \in Entry /\ meta_buffer \in Nat
        BY <1>1 DEF Fed
      <3>2. ModSize \in Nat \ {0}
        BY MapsAssumption
      <3> QED BY <3>1, <3>2, SizeNat, AlignNat DEF Entry
    <2> HIDE DEF at, bits
    <2>3. new \in Module /\ new.entry = i /\ meta_buffer' \in Nat
      BY <1>1, <2>1, <2>2 DEF Module
    <2> HIDE DEF new
    <2>4. /\ modules' \in Seq(Module)
          /\ DOMAIN modules = 1 .. Len(modules) /\ Len(modules) \in Nat
          /\ DOMAIN modules' = 1 .. (Len(modules) + 1)
          /\ modules'[Len(modules) + 1] = new
          /\ \A k \in DOMAIN modules : modules'[k] = modules[k]
      BY <1>2, <2>1, <2>3
    <2>5. \A k \in DOMAIN modules' :
            /\ modules'[k].entry \in DOMAIN given
            /\ mmap[modules'[k].entry].usable /\ mmap[modules'[k].entry].length # 0
            /\ modules'[k].entry < i + 1
      <3> SUFFICES ASSUME NEW k \in DOMAIN modules'
                   PROVE  /\ modules'[k].entry \in DOMAIN given
                          /\ mmap[modules'[k].entry].usable /\ mmap[modules'[k].entry].length # 0
                          /\ modules'[k].entry < i + 1
        OBVIOUS
      <3>1. CASE k \in DOMAIN modules
        <4>1. modules'[k] = modules[k] /\ modules[k].entry \in Nat
          BY <1>1, <1>5, <2>4, <3>1
        <4> QED BY <1>1, <1>5, <3>1, <4>1
      <3>2. CASE k = Len(modules) + 1
        BY <1>1, <1>7, <2>3, <2>4, <3>2
      <3> QED BY <2>4, <3>1, <3>2
    <2>6. \A k, l \in DOMAIN modules' : k < l => modules'[k].entry < modules'[l].entry
      <3> SUFFICES ASSUME NEW k \in DOMAIN modules', NEW l \in DOMAIN modules', k < l
                   PROVE  modules'[k].entry < modules'[l].entry
        OBVIOUS
      <3>1. k \in DOMAIN modules
        BY <2>4
      <3>2. CASE l \in DOMAIN modules
        BY <1>6, <2>4, <3>1, <3>2
      <3>3. CASE l = Len(modules) + 1
        BY <1>5, <2>3, <2>4, <3>1, <3>3
      <3> QED BY <2>4, <3>2, <3>3
    <2> QED BY <1>1, <1>2, <1>3, <1>4, <2>3, <2>4, <2>5, <2>6 DEF Fed
  <1>8. CASE ~(mmap[i].usable /\ mmap[i].length # 0)
    <2>1. modules' = modules /\ meta_buffer' \in Nat
      BY <1>8 DEF Build, Fed
    <2>2. \A k \in DOMAIN modules : modules[k].entry < i + 1
      <3> SUFFICES ASSUME NEW k \in DOMAIN modules PROVE modules[k].entry < i + 1
        OBVIOUS
      <3> QED BY <1>1, <1>5
    <2> QED BY <1>1, <1>2, <1>3, <1>4, <1>5, <1>6, <2>1, <2>2 DEF Fed
  <1> QED BY <1>7, <1>8

LEMMA FedStep == Fed /\ [SetupNext]_setupVars => Fed'
  <1> SUFFICES ASSUME Fed, [SetupNext]_setupVars PROVE Fed'
    OBVIOUS
  <1>1. CASE UNCHANGED setupVars
    BY <1>1 DEF setupVars, Fed, Sound, Bottom, Multiple
  <1> QED BY <1>1, FedSize, FedReserve, FedBuild DEF SetupNext

(***************************************************************************)
(* For every memory map the modules that pmm_init builds are what          *)
(* pmm_alloc relies on: whole pages, not empty, sorted and disjoint, and   *)
(* memory of their usable regions, but for what a region that straddles    *)
(* the limit does to its own.                                              *)
(***************************************************************************)
THEOREM ModulesSound == SetupSpec => []FeedsAllocator
  <1>1. Fed => FeedsAllocator
    <2> SUFFICES ASSUME Fed, phase = "done", NEW k \in DOMAIN modules
                 PROVE  /\ From(k) < To(k) /\ From(k) % Page = 0 /\ To(k) % Page = 0
                        /\ Origin(k).usable /\ Bottom(Origin(k)) <= From(k)
                        /\ To(k) <= Bottom(Origin(k)) + Origin(k).length
                        /\ \A l \in DOMAIN modules : k < l => To(k) <= From(l) \/ Straddles(k)
      BY DEF FeedsAllocator, Bottom, Straddles
    <2>1. given \in Maps /\ given \in Seq(Entry) /\ DOMAIN given = 1 .. Len(given)
      BY MapsAssumption DEF Fed, Entry
    <2>2. \A n \in DOMAIN modules :
            /\ modules[n].entry \in DOMAIN given /\ Origin(n) \in Entry
            /\ Origin(n).usable
            /\ Multiple(From(n)) /\ From(n) \in Nat
            /\ Multiple(mmap[modules[n].entry].length)
            /\ mmap[modules[n].entry].length \in Nat \ {0}
            /\ Bottom(Origin(n)) <= From(n)
            /\ To(n) <= Bottom(Origin(n)) + Origin(n).length
      <3> SUFFICES ASSUME NEW n \in DOMAIN modules
                   PROVE  /\ modules[n].entry \in DOMAIN given /\ Origin(n) \in Entry
                          /\ Origin(n).usable
                          /\ Multiple(From(n)) /\ From(n) \in Nat
                          /\ Multiple(mmap[modules[n].entry].length)
                          /\ mmap[modules[n].entry].length \in Nat \ {0}
                          /\ Bottom(Origin(n)) <= From(n)
                          /\ To(n) <= Bottom(Origin(n)) + Origin(n).length
        OBVIOUS
      <3>1. modules[n].entry \in DOMAIN given
        BY DEF Fed
      <3>2. Sound(mmap[modules[n].entry], given[modules[n].entry])
        BY <3>1 DEF Fed
      <3>3. mmap[modules[n].entry].usable /\ mmap[modules[n].entry].length # 0
        BY DEF Fed
      <3> QED BY SMTT(40), <2>1, <3>1, <3>2, <3>3 DEF Sound, From, To, Origin
    <2>3. Multiple(To(k)) /\ To(k) \in Nat /\ From(k) < To(k)
      BY <2>2, SumMultiple DEF To
    <2>4. From(k) % Page = 0 /\ To(k) % Page = 0
      BY <2>2, <2>3, Remainder
    <2>5. ASSUME NEW l \in DOMAIN modules, k < l, ~Straddles(k)
          PROVE  To(k) <= From(l)
      <3>1. modules[k].entry < modules[l].entry
        BY <2>5 DEF Fed
      <3>2. Origin(k).base + Origin(k).length <= Origin(l).base
        BY ZenonT(60), <2>1, <2>2, <3>1, MapsAssumption DEF Origin
      <3>3. Low \in Nat
        BY MapsAssumption
      <3>4. Bottom(Origin(k)) = Origin(k).base /\ Origin(l).base <= Bottom(Origin(l))
        BY SMTT(40), <2>2, <2>5, <3>3 DEF Bottom, Straddles, Entry
      <3>5. /\ Origin(k).base \in Nat /\ Origin(k).length \in Nat /\ Origin(l).base \in Nat
            /\ Bottom(Origin(l)) \in Nat /\ From(l) \in Nat /\ To(k) \in Nat
        BY <2>2, <2>3, <3>3 DEF Bottom, Entry
      <3> QED BY SMTT(40), <2>2, <3>2, <3>4, <3>5
    <2> QED BY <2>2, <2>3, <2>4, <2>5
  <1> QED BY <1>1, FedInit, FedStep, PTL DEF SetupSpec
-----------------------------------------------------------------------------
(* The metadata buffer.  buffer_size is a sum over the map, which the loop *)
(* computes; that it is one is said by a function of partial sums, which   *)
(* the invariant only claims to exist.                                     *)

\* What the first loop counts for a region.
Cost(g) == IF g.usable THEN ModSize * 2 + BitmapSize(g.length) ELSE 0

\* What the third loop may lose in front of the structs.
Padding == Len(modules) * (ModSize - 1)

\* The first loop has been past region k.
Counted(k) == phase = "size" => k < i

\* s[k] is the cost of the first k regions.
Totals(s) ==
  /\ s \in [0 .. Len(given) -> Nat]
  /\ s[0] = 0
  /\ \A k \in 1 .. Len(given) :
       Counted(k) => s[k] = s[k - 1] + Cost(given[k]) /\ s[k] <= buffer_size
  /\ buffer_size = s[IF phase = "size" THEN i - 1 ELSE Len(given)]
  /\ phase = "build" => meta_buffer <= start + s[i - 1] + Padding
  /\ phase = "done" => meta_buffer <= start + buffer_size + Padding

\* The pieces of metadata are apart and end where the next one may begin.
Layout ==
  /\ \A k \in DOMAIN modules :
       /\ modules[k].at + ModSize <= modules[k].bitmap
       /\ modules[k].bitmap + modules[k].size <= meta_buffer
  /\ \A k, l \in DOMAIN modules :
       k < l => modules[k].bitmap + modules[k].size <= modules[l].at

\* The inductive invariant, on top of Fed.
Padded == start \in Nat /\ Layout /\ \E s : Totals(s)

\* Rounding up a larger number gives no less.
LEMMA RoundupGrows ==
  ASSUME NEW x \in Nat, NEW y \in Nat, x <= y, NEW a \in Nat \ {0}
  PROVE  /\ DivRoundup(x, a) \in Nat /\ DivRoundup(y, a) \in Nat
         /\ DivRoundup(x, a) <= DivRoundup(y, a)
  <1> DEFINE p == (x + a - 1) \div a
             q == (y + a - 1) \div a
  <1>1. p \in Nat /\ a * p <= x + a - 1
    <2>1. x + a - 1 \in Nat
      OBVIOUS
    <2> QED BY <2>1, Division
  <1>2. q \in Nat /\ y + a - 1 < a * q + a
    <2>1. y + a - 1 \in Nat
      OBVIOUS
    <2> QED BY ZenonT(40), <2>1, Division
  <1>3. DivRoundup(x, a) = p /\ DivRoundup(y, a) = q
    BY DEF DivRoundup
  <1> HIDE DEF p, q
  <1>4. CASE p >= q + 1
    <2>1. a * p >= a * (q + 1) /\ a * (q + 1) = a * q + a /\ a * p \in Nat /\ a * q \in Nat
      BY SMTT(30), <1>1, <1>2, <1>4
    <2> QED BY <1>1, <1>2, <2>1
  <1>5. CASE p <= q
    BY <1>1, <1>2, <1>3, <1>5
  <1> QED BY <1>1, <1>2, <1>4, <1>5

\* A shorter region needs no larger bitmap.
LEMMA BitmapGrows ==
  ASSUME NEW x \in Nat, NEW y \in Nat, x <= y
  PROVE  BitmapSize(x) <= BitmapSize(y)
  <1>1. Page \in Nat \ {0} /\ 8 \in Nat \ {0}
    BY MapsAssumption
  <1>2. /\ DivRoundup(x, Page) \in Nat /\ DivRoundup(y, Page) \in Nat
        /\ DivRoundup(x, Page) <= DivRoundup(y, Page)
    BY <1>1, RoundupGrows
  <1> QED BY <1>1, <1>2, RoundupGrows DEF BitmapSize

\* Aligning the next struct costs less than a struct.
LEMMA AlignNear ==
  ASSUME NEW x \in Nat, NEW a \in Nat \ {0}
  PROVE  AlignUp(x, a) \in Nat /\ x <= AlignUp(x, a) /\ AlignUp(x, a) <= x + a - 1
  <1> DEFINE q == (x + a - 1) \div a
  <1>1. q \in Nat /\ a * q <= x + a - 1 /\ x + a - 1 < a * q + a
    <2>1. x + a - 1 \in Nat
      OBVIOUS
    <2> QED BY <2>1, Division
  <1>2. AlignUp(x, a) = q * a
    BY DEF AlignUp, DivRoundup
  <1> HIDE DEF q
  <1>3. q * a = a * q /\ a * q \in Nat
    BY <1>1
  <1> QED BY <1>1, <1>2, <1>3

\* Costs are numbers.
LEMMA CostNat ==
  ASSUME NEW g \in Entry
  PROVE  Cost(g) \in Nat
  <1>1. ModSize \in Nat /\ g.length \in Nat
    BY MapsAssumption DEF Entry
  <1>2. BitmapSize(g.length) \in Nat
    BY <1>1, SizeNat
  <1> QED BY <1>1, <1>2 DEF Cost

\* The bitmap of a module is no larger than what was counted for its region,
\* although the second loop has shortened one of them.
LEMMA ModuleCost ==
  ASSUME NEW e, NEW g \in Entry, Sound(e, g), e.usable, e.length # 0
  PROVE  BitmapSize(e.length) \in Nat /\ ModSize * 2 + BitmapSize(e.length) <= Cost(g)
  <1>1. e.base \in Nat /\ e.length \in Nat /\ g.usable /\ g.length \in Nat
    BY DEF Sound, Entry
  <1>2. Bottom(g) <= e.base /\ e.base + e.length <= Bottom(g) + g.length /\ Bottom(g) \in Nat
    BY MapsAssumption DEF Sound, Bottom, Entry
  <1>3. e.length <= g.length
    BY <1>1, <1>2
  <1>4. BitmapSize(e.length) \in Nat /\ BitmapSize(g.length) \in Nat
    BY <1>1, SizeNat
  <1>5. BitmapSize(e.length) <= BitmapSize(g.length) /\ ModSize \in Nat
    BY <1>1, <1>3, BitmapGrows, MapsAssumption
  <1>6. Cost(g) = ModSize * 2 + BitmapSize(g.length)
    BY <1>1 DEF Cost
  <1> QED BY <1>4, <1>5, <1>6

LEMMA PaddedInit == SetupInit => Padded
  <1> SUFFICES ASSUME SetupInit PROVE Padded
    OBVIOUS
  <1> DEFINE s == [k \in 0 .. Len(given) |-> 0]
  <1>1. given \in Seq(Entry) /\ Len(given) \in Nat
    BY MapsAssumption DEF SetupInit, Entry
  <1>2. phase = "size" /\ i = 1 /\ buffer_size = 0 /\ start = 0 /\ modules = <<>>
    BY DEF SetupInit
  <1>3. Totals(s)
    BY <1>1, <1>2 DEF Totals, Counted
  <1>4. DOMAIN modules = {}
    BY <1>2
  <1>5. Layout
    BY <1>4 DEF Layout
  <1> QED BY <1>2, <1>3, <1>5 DEF Padded

\* The first loop extends the partial sums by one.
LEMMA PaddedSize == Fed /\ Padded /\ Size => Padded'
  <1> SUFFICES ASSUME Fed, Padded, Size PROVE Padded'
    OBVIOUS
  <1>1. /\ given \in Seq(Entry) /\ DOMAIN given = 1 .. Len(given) /\ Len(given) \in Nat
        /\ i \in 1 .. Len(given)
    BY MapsAssumption DEF Fed, Entry
  <1>2. mmap[i] = given[i] /\ phase = "size" /\ modules = <<>>
    BY <1>1 DEF Fed, Size
  <1>3. given' = given /\ modules' = modules /\ start' = start
    BY DEF Size
  <1>4. PICK s : Totals(s)
    BY DEF Padded
  <1> DEFINE c == Cost(given[i])
  <1>5. buffer_size' = buffer_size + c
    BY <1>2 DEF Size, Cost
  <1>6. c \in Nat
    BY <1>1, CostNat
  <1> HIDE DEF c
  <1>7. s \in [0 .. Len(given) -> Nat] /\ s[0] = 0 /\ buffer_size = s[i - 1]
    BY <1>2, <1>4 DEF Totals
  <1>8. s[i - 1] \in Nat /\ i \in 0 .. Len(given) /\ i # 0
    BY <1>1, <1>7
  <1> PICK t : t = [s EXCEPT ![i] = s[i - 1] + c]
    BY Zenon
  <1>9. /\ t \in [0 .. Len(given) -> Nat] /\ t[0] = 0
        /\ t[i] = buffer_size'
        /\ \A k \in 0 .. Len(given) : k # i => t[k] = s[k]
    BY <1>5, <1>6, <1>7, <1>8
  <1>10. \/ i < Len(given) /\ i' = i + 1 /\ phase' = "size"
         \/ i = Len(given) /\ i' = 1 /\ phase' = "reserve"
    BY <1>2, AdvanceIn DEF Size
  <1>11. ASSUME NEW k \in 1 .. Len(given), Counted(k)'
         PROVE  t[k] = t[k - 1] + Cost(given[k]) /\ t[k] <= buffer_size'
    <2>1. k <= i
      <3>1. phase' = "size" => k < i'
        BY Zenon, <1>11 DEF Counted
      <3>2. i \in Nat /\ k \in Nat /\ k <= Len(given)
        BY <1>1
      <3> QED BY <1>10, <3>1, <3>2
    <2>2. CASE k = i
      <3>1. t[k - 1] = s[i - 1] /\ t[k] = s[i - 1] + c
        BY <1>1, <1>5, <1>7, <1>9, <2>2
      <3> QED BY <1>9, <2>2, <3>1 DEF c
    <2>3. CASE k < i
      <3>1. s[k] = s[k - 1] + Cost(given[k]) /\ s[k] <= buffer_size
        BY <1>4, <2>3 DEF Totals, Counted
      <3>2. t[k] = s[k] /\ t[k - 1] = s[k - 1] /\ s[k] \in Nat
        BY <1>1, <1>7, <1>9, <2>3
      <3>3. buffer_size \in Nat
        BY DEF Fed
      <3>4. s[k] <= buffer_size'
        BY <1>5, <1>6, <3>1, <3>2, <3>3
      <3> QED BY <3>1, <3>2, <3>4
    <2> QED BY <1>1, <2>1, <2>2, <2>3
  <1>12. buffer_size' = t[IF phase' = "size" THEN i' - 1 ELSE Len(given)]
    <2>1. i' = i + 1 => i' - 1 = i
      BY <1>1
    <2> QED BY <1>9, <1>10, <2>1
  <1>13. phase' \notin {"build", "done"}
    BY <1>10
  <1>14. Totals(t)'
    BY Zenon, <1>3, <1>9, <1>11, <1>12, <1>13 DEF Totals
  <1>15. DOMAIN modules' = {}
    BY <1>2, <1>3
  <1>16. Layout'
    BY <1>15 DEF Layout
  <1> QED BY <1>3, <1>14, <1>16 DEF Padded

\* The buffer starts out empty.
LEMMA PaddedReserve == Fed /\ Padded /\ (Reserve \/ ReserveSkip) => Padded'
  <1> SUFFICES ASSUME Fed, Padded, Reserve \/ ReserveSkip PROVE Padded'
    OBVIOUS
  <1>1. /\ mmap \in Seq(Entry) /\ DOMAIN mmap = 1 .. Len(given) /\ Len(given) \in Nat
        /\ i \in 1 .. Len(given)
    BY DEF Fed
  <1>2. phase = "reserve" /\ modules = <<>>
    BY DEF Fed, Reserve, ReserveSkip
  <1>3. given' = given /\ modules' = <<>> /\ buffer_size' = buffer_size
    BY <1>2 DEF Reserve, ReserveSkip
  <1>4. PICK s : Totals(s)
    BY DEF Padded
  <1>5. /\ s \in [0 .. Len(given) -> Nat] /\ s[0] = 0 /\ buffer_size = s[Len(given)]
        /\ \A k \in 1 .. Len(given) : s[k] = s[k - 1] + Cost(given[k]) /\ s[k] <= buffer_size
    BY <1>2, <1>4 DEF Totals, Counted
  <1>6. DOMAIN modules' = {} /\ Len(modules') = 0
    BY <1>3
  <1>7. Layout'
    BY <1>6 DEF Layout
  <1>8. CASE Reserve
    <2>1. i' = 1 /\ phase' = "build" /\ start' = mmap[i].base /\ meta_buffer' = mmap[i].base
      BY <1>8 DEF Reserve
    <2>2. start' \in Nat
      <3>1. mmap[i] \in Entry
        BY <1>1
      <3> QED BY <2>1, <3>1 DEF Entry
    <2>3. Padding' = 0
      <3>1. ModSize - 1 \in Int
        BY MapsAssumption
      <3> QED BY <1>6, <3>1 DEF Padding
    <2>4. meta_buffer' <= start' + s[i' - 1] + Padding'
      BY <1>5, <2>1, <2>2, <2>3
    <2>5. Totals(s)'
      BY <1>3, <1>5, <2>1, <2>4 DEF Totals
    <2> QED BY <1>7, <2>2, <2>5 DEF Padded
  <1>9. CASE ReserveSkip
    <2>1. phase' \in {"reserve", "unbacked"} /\ start' = start
      BY <1>2, <1>9, AdvanceIn DEF ReserveSkip
    <2>2. Totals(s)'
      BY <1>3, <1>5, <2>1 DEF Totals
    <2> QED BY <1>7, <2>1, <2>2 DEF Padded
  <1> QED BY <1>8, <1>9

\* A module takes no more than the cost of its region and the padding in
\* front of its struct.
LEMMA PaddedBuild == Fed /\ Padded /\ Build => Padded'
  <1> SUFFICES ASSUME Fed, Padded, Build PROVE Padded'
    OBVIOUS
  <1>1. /\ given \in Seq(Entry) /\ DOMAIN given = 1 .. Len(given) /\ Len(given) \in Nat
        /\ i \in 1 .. Len(given) /\ buffer_size \in Nat /\ meta_buffer \in Nat
        /\ modules \in Seq(Module) /\ DOMAIN modules = 1 .. Len(modules)
        /\ Len(modules) \in Nat
    BY MapsAssumption DEF Fed, Entry
  <1>2. phase = "build" /\ Sound(mmap[i], given[i]) /\ start \in Nat
    BY <1>1 DEF Fed, Build, Padded
  <1>3. given' = given /\ start' = start /\ buffer_size' = buffer_size
    BY DEF Build
  <1>4. PICK s : Totals(s)
    BY DEF Padded
  <1>5. /\ s \in [0 .. Len(given) -> Nat] /\ s[0] = 0 /\ buffer_size = s[Len(given)]
        /\ \A k \in 1 .. Len(given) : s[k] = s[k - 1] + Cost(given[k]) /\ s[k] <= buffer_size
        /\ meta_buffer <= start + s[i - 1] + Padding
    BY <1>2, <1>4 DEF Totals, Counted
  <1>6. /\ s[i - 1] \in Nat /\ s[i] \in Nat /\ Cost(given[i]) \in Nat
        /\ s[i] = s[i - 1] + Cost(given[i])
    <2>1. i \in 1 .. Len(given) /\ i \in 0 .. Len(given) /\ i - 1 \in 0 .. Len(given)
      BY <1>1
    <2>2. given[i] \in Entry
      BY <1>1
    <2> QED BY Zenon, <1>5, <2>1, <2>2, CostNat
  <1>7. ModSize \in Nat \ {0} /\ Padding \in Nat
    <2>1. ModSize \in Nat \ {0}
      BY MapsAssumption
    <2>2. ModSize - 1 \in Nat
      BY <2>1
    <2> QED BY <1>1, <2>1, <2>2 DEF Padding
  <1>8. \/ i < Len(given) /\ i' = i + 1 /\ phase' = "build"
        \/ i = Len(given) /\ i' = 1 /\ phase' = "done"
    BY <1>2, AdvanceIn DEF Build
  <1>9. ASSUME meta_buffer' <= start + s[i] + Padding' PROVE Totals(s)'
    <2>1. CASE phase' = "build"
      <3>1. i' - 1 = i
        BY <1>1, <1>8, <2>1
      <3> QED BY <1>3, <1>5, <1>9, <2>1, <3>1 DEF Totals
    <2>2. CASE phase' = "done"
      <3>1. s[i] = buffer_size
        BY <1>5, <1>8, <2>2
      <3> QED BY <1>3, <1>5, <1>9, <2>2, <3>1 DEF Totals
    <2> QED BY <1>8, <2>1, <2>2
  <1>10. CASE mmap[i].usable /\ mmap[i].length # 0
    <2> DEFINE at == AlignUp(meta_buffer, ModSize)
               bits == BitmapSize(mmap[i].length)
               new == [entry |-> i, at |-> at, bitmap |-> at + ModSize * 2, size |-> bits]
    <2>1. modules' = Append(modules, new) /\ meta_buffer' = at + ModSize * 2 + bits
      BY <1>10 DEF Build
    <2>2. at \in Nat /\ meta_buffer <= at /\ at <= meta_buffer + ModSize - 1
      BY ZenonT(40), <1>1, <1>7, AlignNear
    <2>3. bits \in Nat /\ ModSize * 2 + bits <= Cost(given[i])
      <3>1. given[i] \in Entry
        BY <1>1
      <3> QED BY <1>2, <1>10, <3>1, ModuleCost
    <2> HIDE DEF at, bits
    <2>4. new \in Module /\ new.at = at /\ new.bitmap = at + ModSize * 2 /\ new.size = bits
      BY <1>1, <1>7, <2>2, <2>3 DEF Module
    <2> HIDE DEF new
    <2>5. /\ DOMAIN modules' = 1 .. (Len(modules) + 1) /\ Len(modules') = Len(modules) + 1
          /\ modules'[Len(modules) + 1] = new
          /\ \A k \in DOMAIN modules : modules'[k] = modules[k]
      BY <1>1, <2>1, <2>4
    <2>6. Padding' = Padding + (ModSize - 1)
      BY SMTT(30), <1>1, <1>7, <2>5 DEF Padding
    <2>7. meta_buffer' <= start + s[i] + Padding'
      <3>1. meta_buffer \in Nat /\ meta_buffer <= start + s[i - 1] + Padding
        BY Zenon, <1>1, <1>5
      <3>2. meta_buffer' <= meta_buffer + (ModSize - 1) + Cost(given[i])
        BY <1>6, <1>7, <2>1, <2>2, <2>3, <3>1
      <3>3. meta_buffer' \in Nat /\ Padding' \in Int
        BY <1>7, <2>1, <2>2, <2>3, <2>6
      <3> QED BY <1>2, <1>6, <1>7, <2>6, <3>1, <3>2, <3>3
    <2>8. \A k \in DOMAIN modules :
            /\ modules[k].at \in Nat /\ modules[k].bitmap \in Nat /\ modules[k].size \in Nat
            /\ modules[k].at + ModSize <= modules[k].bitmap
            /\ modules[k].bitmap + modules[k].size <= meta_buffer
      <3>1. ASSUME NEW k \in DOMAIN modules
            PROVE  modules[k].at \in Nat /\ modules[k].bitmap \in Nat /\ modules[k].size \in Nat
        <4>1. modules[k] \in Module
          BY <1>1, <3>1
        <4> QED BY <4>1 DEF Module
      <3> QED BY Zenon, <3>1 DEF Padded, Layout
    <2>9. meta_buffer <= meta_buffer' /\ meta_buffer' \in Nat
      BY <1>1, <1>7, <2>1, <2>2, <2>3
    <2>10. ASSUME NEW k \in DOMAIN modules'
           PROVE  /\ modules'[k].at + ModSize <= modules'[k].bitmap
                  /\ modules'[k].bitmap + modules'[k].size <= meta_buffer'
      <3>1. CASE k \in DOMAIN modules
        <4>1. /\ modules'[k] = modules[k]
              /\ modules[k].at \in Nat /\ modules[k].bitmap \in Nat /\ modules[k].size \in Nat
              /\ modules[k].at + ModSize <= modules[k].bitmap
              /\ modules[k].bitmap + modules[k].size <= meta_buffer
          BY Zenon, <2>5, <2>8, <3>1
        <4>2. meta_buffer \in Nat
          BY Zenon, <1>1
        <4> QED BY <2>9, <4>1, <4>2
      <3>2. CASE k = Len(modules) + 1
        BY <1>7, <2>1, <2>2, <2>3, <2>4, <2>5, <3>2
      <3> QED BY <1>1, <2>5, <3>1, <3>2
    <2>11. ASSUME NEW k \in DOMAIN modules', NEW l \in DOMAIN modules', k < l
           PROVE  modules'[k].bitmap + modules'[k].size <= modules'[l].at
      <3>1. k \in DOMAIN modules
        BY <1>1, <2>5, <2>11
      <3>2. CASE l \in DOMAIN modules
        <4>1. modules'[k] = modules[k] /\ modules'[l] = modules[l]
          BY Zenon, <2>5, <3>1, <3>2
        <4>2. modules[k].bitmap + modules[k].size <= modules[l].at
          BY Zenon, <2>11, <3>1, <3>2 DEF Padded, Layout
        <4> QED BY Zenon, <4>1, <4>2
      <3>3. CASE l = Len(modules) + 1
        BY <1>1, <2>2, <2>4, <2>5, <2>8, <3>1, <3>3
      <3> QED BY <1>1, <2>5, <3>2, <3>3
    <2>12. Layout'
      BY <2>10, <2>11 DEF Layout
    <2> QED BY <1>2, <1>3, <1>9, <2>7, <2>12 DEF Padded
  <1>11. CASE ~(mmap[i].usable /\ mmap[i].length # 0)
    <2>1. modules' = modules /\ meta_buffer' = meta_buffer
      BY <1>11 DEF Build
    <2>2. Layout' /\ Padding' = Padding
      BY <2>1 DEF Padded, Layout, Padding
    <2>3. meta_buffer' <= start + s[i] + Padding'
      <3>1. meta_buffer \in Nat /\ meta_buffer <= start + s[i - 1] + Padding
        BY Zenon, <1>1, <1>5
      <3> QED BY <1>2, <1>6, <1>7, <2>1, <2>2, <3>1
    <2> QED BY <1>2, <1>3, <1>9, <2>2, <2>3 DEF Padded
  <1> QED BY <1>10, <1>11

LEMMA PaddedStep == Fed /\ Padded /\ [SetupNext]_setupVars => Padded'
  <1> SUFFICES ASSUME Fed, Padded, [SetupNext]_setupVars PROVE Padded'
    OBVIOUS
  <1>1. CASE UNCHANGED setupVars
    BY ZenonT(40), <1>1 DEF setupVars, Padded, Layout, Totals, Counted, Padding
  <1> QED BY <1>1, PaddedSize, PaddedReserve, PaddedBuild DEF SetupNext

(***************************************************************************)
(* For every memory map the metadata that pmm_init lays out overlaps       *)
(* nowhere and exceeds the size it has computed by no more than the        *)
(* padding in front of each struct.                                        *)
(***************************************************************************)
THEOREM OverrunBounded == SetupSpec => []OverrunIsPadding
  <1>1. Fed /\ Padded => OverrunIsPadding
    <2> SUFFICES ASSUME Fed, Padded PROVE OverrunIsPadding
      OBVIOUS
    <2>1. ASSUME phase \in {"build", "done"}
          PROVE  meta_buffer <= start + buffer_size + Padding
      <3>1. PICK s : Totals(s)
        BY DEF Padded
      <3>2. CASE phase = "build"
        <4>1. /\ i \in 1 .. Len(given) /\ Len(given) \in Nat
              /\ meta_buffer \in Nat /\ buffer_size \in Nat /\ start \in Nat
          <5>1. /\ i \in 1 .. Len(given) /\ mmap \in Seq(Entry) /\ Len(mmap) = Len(given)
                /\ meta_buffer \in Nat /\ buffer_size \in Nat /\ start \in Nat
            BY Zenon DEF Fed, Padded
          <5>2. Len(mmap) \in Nat
            BY <5>1
          <5> QED BY Zenon, <5>1, <5>2
        <4>2. s[i - 1] \in Nat /\ s[i - 1] <= buffer_size
          <5>1. s \in [0 .. Len(given) -> Nat] /\ s[0] = 0
            BY Zenon, <3>1 DEF Totals
          <5>2. CASE i = 1
            BY <4>1, <5>1, <5>2
          <5>3. CASE i # 1
            <6>1. i - 1 \in 1 .. Len(given) /\ i - 1 \in 0 .. Len(given)
              BY <4>1, <5>3
            <6> QED BY Zenon, <3>1, <3>2, <5>1, <6>1 DEF Totals, Counted
          <5> QED BY Zenon, <5>2, <5>3
        <4>3. Padding \in Int
          BY SMTT(40), MapsAssumption DEF Padding, Fed
        <4>4. meta_buffer <= start + s[i - 1] + Padding
          BY <3>1, <3>2 DEF Totals
        <4> QED BY <4>1, <4>2, <4>3, <4>4
      <3>3. CASE phase = "done"
        BY <3>1, <3>3 DEF Totals
      <3> QED BY <2>1, <3>2, <3>3
    <2> QED BY <2>1 DEF OverrunIsPadding, Padding, Padded, Layout
  <1> QED BY <1>1, FedInit, FedStep, PaddedInit, PaddedStep, PTL DEF SetupSpec

-----------------------------------------------------------------------------
(* The boot chain.                                                         *)

Waking == {"chain", "lock", "params", "ipi"}
Woken == {"tramp", "tramp2", "boot", "boot2", "count"}
Running == {"entry"} \cup Waking \cup Woken
Holding == {"params", "ipi", "tramp", "tramp2", "boot", "relock"}

\* At most one core runs the chain.
OneRunner ==
  \A c, d \in Cores : pc[c] \in Running /\ pc[d] \in Running => c = d

\* The runner's place in the list, and what it has set up so far.
PlaceOf(c) ==
  /\ pc[c] = "entry" => c = 0 /\ cnt = 0
  /\ pc[c] = "chain" => (c = 0 /\ cnt = 0) \/ c = cnt - 1
  /\ pc[c] \in {"lock", "params", "ipi"} =>
       c = cnt - 1 /\ cnt < N /\ slot[c] = cnt
  /\ pc[c] \in Woken => c = cnt /\ cnt # 0
  /\ pc[c] = "ipi" => params.slot = cnt
  /\ pc[c] \in {"boot", "boot2", "count"} => local[c] = c
  /\ pc[c] \in Waking \cup Woken => identity

Place == \A c \in Cores : PlaceOf(c)

\* The cores after the runner are off.
Ahead ==
  \A c, d \in Cores :
    /\ pc[c] = "entry" /\ d # c => pc[d] = "off"
    /\ pc[c] \in Waking /\ d >= cnt /\ d # c => pc[d] = "off"
    /\ pc[c] \in Woken /\ d > cnt => pc[d] = "off"

OffMasked == \A c \in Cores : irq[c] => pc[c] # "off"

\* The lock is held on behalf of one core at most.
OneHolder ==
  /\ \A c \in Cores : pc[c] \in Holding => lock
  /\ \A c, d \in Cores : pc[c] \in Holding /\ pc[d] \in Holding => c = d

\* The core whose frame holds the IDT register image waits, or a tick has
\* taken it away.
FrameWaits ==
  \A c \in Cores :
    /\ pc[c] = "ipi" => params.idtr = c
    /\ pc[c] \in {"tramp", "tramp2"} =>
         params.idtr = c - 1 /\ c > 0 /\ pc[c - 1] \in {"wait", "server"}

IInv ==
  /\ TypeOK /\ OneRunner /\ Place /\ Ahead /\ OffMasked /\ OneHolder
  /\ FrameWaits /\ ParamsOwned /\ OwnLocale /\ IdtrLive

\* The invariant holds when the boot core enters boot_aps.
LEMMA InitInductive == Init => IInv
<1> SUFFICES ASSUME Init PROVE IInv
  BY Zenon
<1>1. TypeOK
  <2>1. 0 \in Cores /\ 0 \in 0 .. N /\ N \in 0 .. N
    BY NAssumption DEF Cores
  <2> QED
    BY ZenonT(60), <2>1 DEF Init, TypeOK, ChainPc, Bsp
<1>2. \A c \in Cores : pc[c] = (IF c = 0 THEN "entry" ELSE "off") /\ ~irq[c]
                        /\ local[c] = N /\ gs[c] = N /\ idtr_ok[c]
  BY Zenon DEF Init, Bsp
<1>3. OneRunner /\ Ahead /\ OffMasked
  BY <1>2 DEF OneRunner, Ahead, OffMasked, Running, Waking, Woken
<1>4. Place
  BY Zenon, <1>2 DEF Init, Place, PlaceOf, Waking, Woken
<1>5. OneHolder /\ FrameWaits
  BY Zenon, <1>2 DEF OneHolder, FrameWaits, Holding
<1>6. ParamsOwned /\ OwnLocale /\ IdtrLive
  BY Zenon, <1>2 DEF ParamsOwned, OwnLocale, IdtrLive
<1> QED
  BY Zenon, <1>1, <1>3, <1>4, <1>5, <1>6 DEF IInv

\* A step of core c leaves the others where they are.
OnlyMoves(c) == \A d \in Cores : d # c => pc'[d] = pc[d]

\* Only the runner runs the chain after a step of one core.
LEMMA RunnerSteps ==
  ASSUME IInv, NEW c \in Cores, OnlyMoves(c), pc[c] \in Running \/ pc'[c] \notin Running
  PROVE  OneRunner'
  BY Zenon DEF IInv, OneRunner, OnlyMoves

LEMMA OnlyRunner ==
  ASSUME IInv, NEW c \in Cores, OnlyMoves(c), pc[c] \in Running, NEW d \in Cores, pc'[d] \in Running
  PROVE  d = c
  BY Zenon DEF IInv, OneRunner, OnlyMoves

\* The others are in no place of the chain when the runner steps.
LEMMA PlaceSteps ==
  ASSUME IInv, NEW c \in Cores, OnlyMoves(c), pc[c] \in Running, PlaceOf(c)'
  PROVE  Place'
<1> SUFFICES ASSUME NEW d \in Cores, d # c PROVE PlaceOf(d)'
  BY Zenon DEF Place
<1>1. pc'[d] \notin Running
  BY Zenon DEF IInv, OneRunner, OnlyMoves
<1> QED
  BY Zenon, <1>1 DEF PlaceOf, Running, Waking, Woken

\* A step out of the chain, or beside it, keeps the places.
LEMMA PlaceKept ==
  ASSUME IInv, NEW c \in Cores, OnlyMoves(c), pc'[c] \notin Running,
         UNCHANGED <<cnt, identity, slot, params, local>>
  PROVE  Place'
<1> SUFFICES ASSUME NEW d \in Cores PROVE PlaceOf(d)'
  BY Zenon DEF Place
<1>1. CASE d = c
  BY Zenon, <1>1 DEF PlaceOf, Running, Waking, Woken
<1>2. CASE d # c
  <2>1. PlaceOf(d) /\ pc'[d] = pc[d]
    BY Zenon, <1>2 DEF IInv, Place, OnlyMoves
  <2> QED
    BY Zenon, <2>1 DEF PlaceOf
<1> QED
  BY Zenon, <1>1, <1>2

\* A core that is on and enters no new part of the chain keeps the rest off.
LEMMA AheadSteps ==
  ASSUME IInv, NEW c \in Cores, OnlyMoves(c), cnt' = cnt, pc[c] # "off", pc'[c] # "entry",
         pc'[c] \in Waking => pc[c] \in Waking, pc'[c] \in Woken => pc[c] \in Woken
  PROVE  Ahead'
<1> SUFFICES ASSUME NEW a \in Cores, NEW d \in Cores
             PROVE  /\ pc'[a] = "entry" /\ d # a => pc'[d] = "off"
                    /\ pc'[a] \in Waking /\ d >= cnt /\ d # a => pc'[d] = "off"
                    /\ pc'[a] \in Woken /\ d > cnt => pc'[d] = "off"
  BY Zenon DEF Ahead
<1>1. pc[d] = "off" => pc'[d] = "off"
  BY Zenon DEF OnlyMoves
<1>2. pc'[a] # "entry"
  BY Zenon DEF IInv, Ahead, OnlyMoves
<1>3. /\ pc'[a] \in Waking => pc[a] \in Waking
      /\ pc'[a] \in Woken => pc[a] \in Woken
  BY Zenon DEF OnlyMoves
<1>4. /\ pc[a] \in Waking /\ d >= cnt /\ d # a => pc[d] = "off"
      /\ pc[a] \in Woken /\ d > cnt => pc[d] = "off"
  BY Zenon DEF IInv, Ahead
<1> QED
  BY Zenon, <1>1, <1>2, <1>3, <1>4

\* A step that loads no IDT and leaves no server keeps the IDTs sound.
LEMMA IdtrSteps ==
  ASSUME IInv, NEW c \in Cores, OnlyMoves(c), pc[c] # "server" \/ pc'[c] = "server",
         idtr_ok' = idtr_ok
  PROVE  IdtrLive'
<1> SUFFICES ASSUME NEW d \in Cores, ~idtr_ok[d] PROVE d > 0 /\ pc'[d - 1] = "server"
  BY Zenon DEF IdtrLive
<1>1. d > 0 /\ pc[d - 1] = "server"
  BY Zenon DEF IInv, IdtrLive
<1>2. d - 1 \in Cores
  BY <1>1, NAssumption DEF Cores
<1> QED
  BY Zenon, <1>1, <1>2 DEF OnlyMoves

\* Every action keeps it.
LEMMA BootApsInductive ==
  ASSUME IInv, NEW c \in Cores, c = Bsp, BootAps PROVE IInv'
<1>1. /\ pc[c] = "entry"
      /\ \A d \in Cores : pc'[d] = IF d = c THEN "chain" ELSE pc[d]
      /\ identity' = TRUE
      /\ UNCHANGED <<cnt, lock, slot, params, local, idtr_ok, irq, gs, launched, turn>>
  BY NAssumption DEF IInv, TypeOK, Place, PlaceOf, Cores, BootAps, Goto
<1>2. TypeOK'
  BY ZenonT(60), NAssumption DEF IInv, TypeOK, Place, PlaceOf, Woken, ChainPc, Cores, Bsp, AfterChain, BootAps, Goto
<1>a. OnlyMoves(c) /\ pc[c] \in Running
  BY Zenon, <1>1 DEF OnlyMoves, Running, Waking, Woken
<1>3. OneRunner'
  BY Zenon, <1>a, RunnerSteps
<1>4. Place'
  <2>1. PlaceOf(c)'
    BY <1>1, NAssumption DEF IInv, TypeOK, Place, PlaceOf, Waking, Woken, Cores, Bsp
  <2> QED
    BY Zenon, <1>a, <2>1, PlaceSteps
<1>5. Ahead'
  BY <1>1, NAssumption DEF IInv, Ahead, OneRunner, Place, PlaceOf, OffMasked, Running, Waking, Woken, Cores, Bsp
<1>6. OffMasked'
  BY Zenon, <1>1, NAssumption DEF IInv, OffMasked, Cores, Bsp
<1>7. OneHolder'
  BY <1>1, NAssumption DEF IInv, OneHolder, Holding, Cores, Bsp
<1>8. FrameWaits'
  BY ZenonT(60), <1>1, NAssumption DEF IInv, FrameWaits, OneHolder, Holding, OneRunner, Running, Waking, Woken, ChainPc, TypeOK, Cores, Bsp
<1>9. ParamsOwned'
  BY Zenon, <1>1, NAssumption DEF IInv, ParamsOwned, OneRunner, Place, PlaceOf, Running, Waking, Woken, Cores, Bsp
<1>10. OwnLocale'
  BY Zenon, <1>1, NAssumption DEF IInv, OwnLocale, Place, PlaceOf, ParamsOwned, Woken, Cores, Bsp
<1>11. IdtrLive'
  BY Zenon, <1>1, <1>a, IdtrSteps
<1> QED
  BY Zenon, <1>2, <1>3, <1>4, <1>5, <1>6, <1>7, <1>8, <1>9, <1>10, <1>11 DEF IInv

LEMMA ChainEndInductive ==
  ASSUME IInv, NEW c \in Cores, ChainEnd(c) PROVE IInv'
<1>1. /\ pc[c] = "chain"
      /\ cnt >= N
      /\ \A d \in Cores : pc'[d] = IF d = c THEN AfterChain(c) ELSE pc[d]
      /\ identity' = FALSE
      /\ UNCHANGED <<cnt, lock, slot, params, local, idtr_ok, irq, gs, launched, turn>>
  BY NAssumption DEF IInv, TypeOK, Place, PlaceOf, Cores, ChainEnd, Goto
<1>2. TypeOK'
  BY ZenonT(60), NAssumption DEF IInv, TypeOK, Place, PlaceOf, Woken, ChainPc, Cores, Bsp, AfterChain, ChainEnd, Goto
<1>a. OnlyMoves(c) /\ pc[c] \in Running
  BY Zenon, <1>1 DEF OnlyMoves, Running, Waking, Woken
<1>3. OneRunner'
  BY Zenon, <1>a, RunnerSteps
<1>4. Place'
  <2>1. PlaceOf(c)'
    BY <1>1, NAssumption DEF IInv, TypeOK, Place, PlaceOf, Waking, Woken, Cores, Bsp, AfterChain
  <2> QED
    BY Zenon, <1>a, <2>1, PlaceSteps
<1>5. Ahead'
  <2>1. /\ pc[c] # "off" /\ pc'[c] # "entry" /\ cnt' = cnt
        /\ pc'[c] \in Waking => pc[c] \in Waking
        /\ pc'[c] \in Woken => pc[c] \in Woken
    BY Zenon, <1>1 DEF Waking, Woken, AfterChain
  <2> QED
    BY Zenon, <1>a, <2>1, AheadSteps
<1>6. OffMasked'
  BY Zenon, <1>1, NAssumption DEF IInv, OffMasked, Cores, Bsp, AfterChain
<1>7. OneHolder'
  BY <1>1, NAssumption DEF IInv, OneHolder, Holding, Cores, Bsp, AfterChain
<1>8. FrameWaits'
  BY ZenonT(60), <1>1, NAssumption DEF IInv, FrameWaits, OneHolder, Holding, OneRunner, Running, Waking, Woken, ChainPc, TypeOK, Cores, Bsp, AfterChain
<1>9. ParamsOwned'
  BY Zenon, <1>1, NAssumption DEF IInv, ParamsOwned, OneRunner, Place, PlaceOf, Running, Waking, Woken, Cores, Bsp, AfterChain
<1>10. OwnLocale'
  BY Zenon, <1>1, NAssumption DEF IInv, OwnLocale, Place, PlaceOf, ParamsOwned, Woken, Cores, Bsp, AfterChain
<1>11. IdtrLive'
  BY Zenon, <1>1, <1>a, IdtrSteps
<1> QED
  BY Zenon, <1>2, <1>3, <1>4, <1>5, <1>6, <1>7, <1>8, <1>9, <1>10, <1>11 DEF IInv

LEMMA ChainSelfInductive ==
  ASSUME IInv, NEW c \in Cores, ChainSelf(c) PROVE IInv'
<1>1. /\ pc[c] = "chain"
      /\ cnt < N /\ cnt = c
      /\ pc' = pc
      /\ \A d \in Cores : gs'[d] = IF d = c THEN cnt ELSE gs[d]
      /\ cnt' = cnt + 1
      /\ UNCHANGED <<lock, identity, slot, params, local, idtr_ok, irq, launched, turn>>
  BY NAssumption DEF IInv, TypeOK, Place, PlaceOf, Cores, ChainSelf, Goto
<1>2. TypeOK'
  <2>1. cnt \in 0 .. N /\ cnt + 1 \in 0 .. N
    BY <1>1, NAssumption DEF IInv, TypeOK
  <2> QED
    BY Zenon, <2>1 DEF IInv, TypeOK, ChainPc, ChainSelf, Goto
<1>a. OnlyMoves(c) /\ pc[c] \in Running
  BY Zenon, <1>1 DEF OnlyMoves, Running, Waking, Woken
<1>3. OneRunner'
  BY Zenon, <1>a, RunnerSteps
<1>4. Place'
  <2>1. PlaceOf(c)'
    BY <1>1, NAssumption DEF IInv, TypeOK, Place, PlaceOf, Waking, Woken, Cores, Bsp
  <2> QED
    BY Zenon, <1>a, <2>1, PlaceSteps
<1>5. Ahead'
  BY SMTT(40), <1>1, NAssumption DEF IInv, Ahead, OneRunner, Place, PlaceOf, OffMasked, Running, Waking, Woken, Cores, Bsp
<1>6. OffMasked'
  BY Zenon, <1>1, NAssumption DEF IInv, OffMasked, Cores, Bsp
<1>7. OneHolder'
  BY Zenon, <1>1, NAssumption DEF IInv, OneHolder, Holding, Cores, Bsp
<1>8. FrameWaits'
  BY ZenonT(60), <1>1, NAssumption DEF IInv, FrameWaits, OneHolder, Holding, OneRunner, Running, Waking, Woken, ChainPc, TypeOK, Cores, Bsp
<1>9. ParamsOwned'
  BY Zenon, <1>1, NAssumption DEF IInv, ParamsOwned, OneRunner, Place, PlaceOf, Running, Waking, Woken, Cores, Bsp
<1>10. OwnLocale'
  BY Zenon, <1>1, NAssumption DEF IInv, OwnLocale, Place, PlaceOf, ParamsOwned, Woken, Cores, Bsp
<1>11. IdtrLive'
  BY Zenon, <1>1, <1>a, IdtrSteps
<1> QED
  BY Zenon, <1>2, <1>3, <1>4, <1>5, <1>6, <1>7, <1>8, <1>9, <1>10, <1>11 DEF IInv

LEMMA ChainNextInductive ==
  ASSUME IInv, NEW c \in Cores, ChainNext(c) PROVE IInv'
<1>1. /\ pc[c] = "chain"
      /\ cnt < N /\ cnt # c
      /\ \A d \in Cores : pc'[d] = IF d = c THEN "lock" ELSE pc[d]
      /\ \A d \in Cores : slot'[d] = IF d = c THEN cnt ELSE slot[d]
      /\ UNCHANGED <<cnt, lock, identity, params, local, idtr_ok, irq, gs, launched, turn>>
  BY SMTT(40), NAssumption DEF IInv, TypeOK, Place, PlaceOf, Cores, ChainNext, Goto
<1>2. TypeOK'
  <2>1. cnt \in Cores
    BY SMTT(40), <1>1, NAssumption DEF IInv, TypeOK, Cores
  <2> QED
    BY Zenon, <2>1 DEF IInv, TypeOK, ChainPc, ChainNext, Goto
<1>a. OnlyMoves(c) /\ pc[c] \in Running
  BY Zenon, <1>1 DEF OnlyMoves, Running, Waking, Woken
<1>3. OneRunner'
  BY Zenon, <1>a, RunnerSteps
<1>4. Place'
  <2>1. PlaceOf(c)'
    BY <1>1, NAssumption DEF IInv, TypeOK, Place, PlaceOf, Waking, Woken, Cores, Bsp
  <2> QED
    BY Zenon, <1>a, <2>1, PlaceSteps
<1>5. Ahead'
  <2>1. /\ pc[c] # "off" /\ pc'[c] # "entry" /\ cnt' = cnt
        /\ pc'[c] \in Waking => pc[c] \in Waking
        /\ pc'[c] \in Woken => pc[c] \in Woken
    BY Zenon, <1>1 DEF Waking, Woken
  <2> QED
    BY Zenon, <1>a, <2>1, AheadSteps
<1>6. OffMasked'
  BY Zenon, <1>1, NAssumption DEF IInv, OffMasked, Cores, Bsp
<1>7. OneHolder'
  BY <1>1, NAssumption DEF IInv, OneHolder, Holding, Cores, Bsp
<1>8. FrameWaits'
  BY ZenonT(60), <1>1, NAssumption DEF IInv, FrameWaits, OneHolder, Holding, OneRunner, Running, Waking, Woken, ChainPc, TypeOK, Cores, Bsp
<1>9. ParamsOwned'
  BY Zenon, <1>1, NAssumption DEF IInv, ParamsOwned, OneRunner, Place, PlaceOf, Running, Waking, Woken, Cores, Bsp
<1>10. OwnLocale'
  BY Zenon, <1>1, NAssumption DEF IInv, OwnLocale, Place, PlaceOf, ParamsOwned, Woken, Cores, Bsp
<1>11. IdtrLive'
  BY Zenon, <1>1, <1>a, IdtrSteps
<1> QED
  BY Zenon, <1>2, <1>3, <1>4, <1>5, <1>6, <1>7, <1>8, <1>9, <1>10, <1>11 DEF IInv

LEMMA TakeLockInductive ==
  ASSUME IInv, NEW c \in Cores, TakeLock(c) PROVE IInv'
<1>1. /\ pc[c] = "lock"
      /\ ~lock /\ lock' = TRUE
      /\ \A d \in Cores : pc'[d] = IF d = c THEN "params" ELSE pc[d]
      /\ UNCHANGED <<cnt, identity, slot, params, local, idtr_ok, irq, gs, launched, turn>>
  BY NAssumption DEF IInv, TypeOK, Place, PlaceOf, Cores, TakeLock, Goto
<1>2. TypeOK'
  BY ZenonT(60), NAssumption DEF IInv, TypeOK, Place, PlaceOf, Woken, ChainPc, Cores, Bsp, AfterChain, TakeLock, Goto
<1>a. OnlyMoves(c) /\ pc[c] \in Running
  BY Zenon, <1>1 DEF OnlyMoves, Running, Waking, Woken
<1>3. OneRunner'
  BY Zenon, <1>a, RunnerSteps
<1>4. Place'
  <2>1. PlaceOf(c)'
    BY <1>1, NAssumption DEF IInv, TypeOK, Place, PlaceOf, Waking, Woken, Cores, Bsp
  <2> QED
    BY Zenon, <1>a, <2>1, PlaceSteps
<1>5. Ahead'
  <2>1. /\ pc[c] # "off" /\ pc'[c] # "entry" /\ cnt' = cnt
        /\ pc'[c] \in Waking => pc[c] \in Waking
        /\ pc'[c] \in Woken => pc[c] \in Woken
    BY Zenon, <1>1 DEF Waking, Woken
  <2> QED
    BY Zenon, <1>a, <2>1, AheadSteps
<1>6. OffMasked'
  BY Zenon, <1>1, NAssumption DEF IInv, OffMasked, Cores, Bsp
<1>7. OneHolder'
  BY Zenon, <1>1, NAssumption DEF IInv, OneHolder, Holding, Cores, Bsp
<1>8. FrameWaits'
  BY ZenonT(60), <1>1, NAssumption DEF IInv, FrameWaits, OneHolder, Holding, OneRunner, Running, Waking, Woken, ChainPc, TypeOK, Cores, Bsp
<1>9. ParamsOwned'
  BY Zenon, <1>1, NAssumption DEF IInv, ParamsOwned, OneRunner, Place, PlaceOf, Running, Waking, Woken, Cores, Bsp
<1>10. OwnLocale'
  BY Zenon, <1>1, NAssumption DEF IInv, OwnLocale, Place, PlaceOf, ParamsOwned, Woken, Cores, Bsp
<1>11. IdtrLive'
  BY Zenon, <1>1, <1>a, IdtrSteps
<1> QED
  BY Zenon, <1>2, <1>3, <1>4, <1>5, <1>6, <1>7, <1>8, <1>9, <1>10, <1>11 DEF IInv

LEMMA WriteParamsInductive ==
  ASSUME IInv, NEW c \in Cores, WriteParams(c) PROVE IInv'
<1>1. /\ pc[c] = "params"
      /\ params'.slot = slot[c] /\ params'.idtr = c
      /\ \A d \in Cores : pc'[d] = IF d = c THEN "ipi" ELSE pc[d]
      /\ UNCHANGED <<cnt, lock, identity, slot, local, idtr_ok, irq, gs, launched, turn>>
  BY NAssumption DEF IInv, TypeOK, Place, PlaceOf, Cores, WriteParams, Goto
<1>2. TypeOK'
  BY ZenonT(60), NAssumption DEF IInv, TypeOK, Place, PlaceOf, Woken, ChainPc, Cores, Bsp, AfterChain, WriteParams, Goto
<1>a. OnlyMoves(c) /\ pc[c] \in Running
  BY Zenon, <1>1 DEF OnlyMoves, Running, Waking, Woken
<1>3. OneRunner'
  BY Zenon, <1>a, RunnerSteps
<1>4. Place'
  <2>1. PlaceOf(c)'
    BY <1>1, NAssumption DEF IInv, TypeOK, Place, PlaceOf, Waking, Woken, Cores, Bsp
  <2> QED
    BY Zenon, <1>a, <2>1, PlaceSteps
<1>5. Ahead'
  <2>1. /\ pc[c] # "off" /\ pc'[c] # "entry" /\ cnt' = cnt
        /\ pc'[c] \in Waking => pc[c] \in Waking
        /\ pc'[c] \in Woken => pc[c] \in Woken
    BY Zenon, <1>1 DEF Waking, Woken
  <2> QED
    BY Zenon, <1>a, <2>1, AheadSteps
<1>6. OffMasked'
  BY ZenonT(40), <1>1, NAssumption DEF IInv, OffMasked, Cores, Bsp
<1>7. OneHolder'
  BY <1>1, NAssumption DEF IInv, OneHolder, Holding, Cores, Bsp
<1>8. FrameWaits'
  BY ZenonT(60), <1>1, NAssumption DEF IInv, FrameWaits, OneHolder, Holding, OneRunner, Running, Waking, Woken, ChainPc, TypeOK, Cores, Bsp
<1>9. ParamsOwned'
  <2>1. ASSUME NEW d \in Cores, pc'[d] \in {"tramp", "tramp2"} PROVE FALSE
    <3>1. pc'[d] \in Running
      BY Zenon, <2>1 DEF Running, Woken
    <3>2. d = c
      BY Zenon, <1>a, <3>1, OnlyRunner
    <3> QED
      BY Zenon, <1>1, <2>1, <3>2
  <2> QED
    BY Zenon, <2>1 DEF ParamsOwned
<1>10. OwnLocale'
  BY Zenon, <1>1, NAssumption DEF IInv, OwnLocale, Place, PlaceOf, ParamsOwned, Woken, Cores, Bsp
<1>11. IdtrLive'
  BY Zenon, <1>1, <1>a, IdtrSteps
<1> QED
  BY Zenon, <1>2, <1>3, <1>4, <1>5, <1>6, <1>7, <1>8, <1>9, <1>10, <1>11 DEF IInv

LEMMA SendIpiInductive ==
  ASSUME IInv, NEW c \in Cores, SendIpi(c) PROVE IInv'
<1>1. /\ pc[c] = "ipi"
      /\ slot[c] = cnt /\ cnt # c /\ cnt \in Cores
      /\ \A d \in Cores : pc'[d] = IF d = cnt THEN "tramp" ELSE IF d = c THEN "wait" ELSE pc[d]
      /\ \A d \in Cores : irq'[d] = IF d = cnt THEN FALSE ELSE irq[d]
      /\ UNCHANGED <<cnt, lock, identity, slot, params, local, idtr_ok, gs, launched, turn>>
  <2>1. /\ pc[c] = "ipi" /\ slot[c] = cnt /\ cnt # c /\ cnt \in Cores
    <3>1. pc[c] = "ipi" /\ cnt \in 0 .. N /\ c = cnt - 1 /\ cnt < N /\ slot[c] = cnt
      BY Zenon DEF IInv, TypeOK, Place, PlaceOf, SendIpi
    <3>2. cnt # c /\ cnt \in Cores
      BY <3>1, NAssumption DEF Cores
    <3> QED
      BY Zenon, <3>1, <3>2
  <2> QED
    BY Zenon, <2>1 DEF IInv, TypeOK, SendIpi
<1>2. TypeOK'
  BY ZenonT(60), NAssumption DEF IInv, TypeOK, Place, PlaceOf, Woken, ChainPc, Cores, Bsp, AfterChain, SendIpi, Goto
<1>a. /\ \A d \in Cores : pc'[d] \in Running => d = cnt
      /\ pc'[cnt] = "tramp" /\ cnt \in Cores /\ cnt' = cnt
  <2>1. "wait" \notin Running /\ pc[c] \in Running
    BY Zenon, <1>1 DEF Running, Waking, Woken
  <2> QED
    BY Zenon, <1>1, <2>1 DEF IInv, OneRunner
<1>b. PlaceOf(c) /\ c = cnt - 1 /\ identity
  BY Zenon, <1>1 DEF IInv, Place, PlaceOf, Waking
<1>c. cnt # 0 /\ \A d \in Cores : d > cnt => d >= cnt /\ d # cnt /\ d # c
  BY <1>a, <1>b, NAssumption DEF Cores
<1>3. OneRunner'
  BY Zenon, <1>a DEF OneRunner
<1>4. Place'
  <2> SUFFICES ASSUME NEW d \in Cores PROVE PlaceOf(d)'
    BY Zenon DEF Place
  <2>1. CASE d = cnt
    BY Zenon, <1>1, <1>a, <1>b, <1>c, <2>1 DEF PlaceOf, Waking, Woken
  <2>2. CASE d # cnt
    <3>1. pc'[d] \notin Running
      BY Zenon, <1>a, <2>2
    <3> QED
      BY Zenon, <3>1 DEF PlaceOf, Running, Waking, Woken
  <2> QED
    BY Zenon, <2>1, <2>2
<1>5. Ahead'
  <2>1. ASSUME NEW a \in Cores, pc'[a] \in {"entry"} \cup Waking PROVE FALSE
    <3>1. a = cnt
      BY Zenon, <1>a, <2>1 DEF Running
    <3> QED
      BY Zenon, <1>a, <2>1, <3>1 DEF Waking
  <2>2. ASSUME NEW d \in Cores, d > cnt PROVE pc'[d] = "off"
    <3>1. d >= cnt /\ d # cnt /\ d # c /\ pc[c] \in Waking
      BY Zenon, <1>1, <1>c, <2>2 DEF Waking
    <3>2. pc[d] = "off"
      BY Zenon, <3>1 DEF IInv, Ahead
    <3> QED
      BY Zenon, <1>1, <3>1, <3>2
  <2> QED
    BY Zenon, <1>a, <2>1, <2>2 DEF Ahead
<1>6. OffMasked'
  BY ZenonT(60), <1>1, NAssumption DEF IInv, OffMasked, Cores, Bsp
<1>7. OneHolder'
  BY <1>1, NAssumption DEF IInv, OneHolder, Holding, Cores, Bsp
<1>8. FrameWaits'
  <2>1. c = cnt - 1 /\ params.idtr = c
    BY Zenon, <1>1 DEF IInv, Place, PlaceOf, FrameWaits
  <2>2. ASSUME NEW d \in Cores, pc'[d] \in {"ipi", "tramp", "tramp2"} PROVE d = cnt
    BY Zenon, <1>a, <2>2 DEF Running, Waking, Woken
  <2>3. cnt > 0 /\ cnt - 1 = c /\ pc'[cnt] = "tramp" /\ pc'[c] = "wait"
    BY <1>1, <2>1, NAssumption DEF Cores
  <2> QED
    BY <1>1, <2>1, <2>2, <2>3 DEF FrameWaits
<1>9. ParamsOwned'
  BY Zenon, <1>1, NAssumption DEF IInv, ParamsOwned, OneRunner, Place, PlaceOf, Running, Waking, Woken, Cores, Bsp
<1>10. OwnLocale'
  BY Zenon, <1>1, NAssumption DEF IInv, OwnLocale, Place, PlaceOf, ParamsOwned, Woken, Cores, Bsp
<1>11. IdtrLive'
  <2>1. pc[cnt] = "off"
    BY <1>1, NAssumption DEF IInv, Ahead, Waking, TypeOK
  <2>2. ASSUME NEW d \in Cores, ~idtr_ok'[d] PROVE d > 0 /\ pc'[d - 1] = "server"
    <3>1. d > 0 /\ pc[d - 1] = "server" /\ d - 1 \in Cores
      BY <1>1, <2>2, NAssumption DEF IInv, IdtrLive, Cores
    <3> QED
      BY Zenon, <1>1, <2>1, <3>1
  <2> QED
    BY Zenon, <2>2 DEF IdtrLive
<1> QED
  BY Zenon, <1>2, <1>3, <1>4, <1>5, <1>6, <1>7, <1>8, <1>9, <1>10, <1>11 DEF IInv

LEMMA RelockInductive ==
  ASSUME IInv, NEW c \in Cores, Relock(c) PROVE IInv'
<1>1. /\ pc[c] = "wait"
      /\ ~lock /\ lock' = TRUE
      /\ \A d \in Cores : pc'[d] = IF d = c THEN "relock" ELSE pc[d]
      /\ UNCHANGED <<cnt, identity, slot, params, local, idtr_ok, irq, gs, launched, turn>>
  BY NAssumption DEF IInv, TypeOK, Place, PlaceOf, Cores, Relock, Goto
<1>2. TypeOK'
  BY ZenonT(60), NAssumption DEF IInv, TypeOK, Place, PlaceOf, Woken, ChainPc, Cores, Bsp, AfterChain, Relock, Goto
<1>a. OnlyMoves(c) /\ pc'[c] \notin Running
  BY Zenon, <1>1 DEF OnlyMoves, Running, Waking, Woken
<1>3. OneRunner'
  BY Zenon, <1>a, RunnerSteps
<1>4. Place'
  BY Zenon, <1>1, <1>a, PlaceKept
<1>5. Ahead'
  <2>1. /\ pc[c] # "off" /\ pc'[c] # "entry" /\ cnt' = cnt
        /\ pc'[c] \in Waking => pc[c] \in Waking
        /\ pc'[c] \in Woken => pc[c] \in Woken
    BY Zenon, <1>1 DEF Waking, Woken
  <2> QED
    BY Zenon, <1>a, <2>1, AheadSteps
<1>6. OffMasked'
  BY Zenon, <1>1, NAssumption DEF IInv, OffMasked, Cores, Bsp
<1>7. OneHolder'
  BY Zenon, <1>1, NAssumption DEF IInv, OneHolder, Holding, Cores, Bsp
<1>8. FrameWaits'
  BY ZenonT(60), <1>1, NAssumption DEF IInv, FrameWaits, OneHolder, Holding, OneRunner, Running, Waking, Woken, ChainPc, TypeOK, Cores, Bsp
<1>9. ParamsOwned'
  BY Zenon, <1>1, NAssumption DEF IInv, ParamsOwned, OneRunner, Place, PlaceOf, Running, Waking, Woken, Cores, Bsp
<1>10. OwnLocale'
  BY Zenon, <1>1, NAssumption DEF IInv, OwnLocale, Place, PlaceOf, ParamsOwned, Woken, Cores, Bsp
<1>11. IdtrLive'
  BY Zenon, <1>1, <1>a, IdtrSteps
<1> QED
  BY Zenon, <1>2, <1>3, <1>4, <1>5, <1>6, <1>7, <1>8, <1>9, <1>10, <1>11 DEF IInv

LEMMA UnlockInductive ==
  ASSUME IInv, NEW c \in Cores, Unlock(c) PROVE IInv'
<1>1. /\ pc[c] = "relock"
      /\ lock' = FALSE
      /\ \A d \in Cores : pc'[d] = IF d = c THEN AfterChain(c) ELSE pc[d]
      /\ UNCHANGED <<cnt, identity, slot, params, local, idtr_ok, irq, gs, launched, turn>>
  BY NAssumption DEF IInv, TypeOK, Place, PlaceOf, Cores, Unlock, Goto
<1>2. TypeOK'
  BY ZenonT(60), NAssumption DEF IInv, TypeOK, Place, PlaceOf, Woken, ChainPc, Cores, Bsp, AfterChain, Unlock, Goto
<1>a. OnlyMoves(c) /\ pc'[c] \notin Running
  BY Zenon, <1>1 DEF OnlyMoves, Running, Waking, Woken, AfterChain
<1>3. OneRunner'
  BY Zenon, <1>a, RunnerSteps
<1>4. Place'
  BY Zenon, <1>1, <1>a, PlaceKept
<1>5. Ahead'
  <2>1. /\ pc[c] # "off" /\ pc'[c] # "entry" /\ cnt' = cnt
        /\ pc'[c] \in Waking => pc[c] \in Waking
        /\ pc'[c] \in Woken => pc[c] \in Woken
    BY Zenon, <1>1 DEF Waking, Woken, AfterChain
  <2> QED
    BY Zenon, <1>a, <2>1, AheadSteps
<1>6. OffMasked'
  BY Zenon, <1>1, NAssumption DEF IInv, OffMasked, Cores, Bsp, AfterChain
<1>7. OneHolder'
  BY Zenon, <1>1, NAssumption DEF IInv, OneHolder, Holding, Cores, Bsp, AfterChain
<1>8. FrameWaits'
  BY ZenonT(60), <1>1, NAssumption DEF IInv, FrameWaits, OneHolder, Holding, OneRunner, Running, Waking, Woken, ChainPc, TypeOK, Cores, Bsp, AfterChain
<1>9. ParamsOwned'
  BY Zenon, <1>1, NAssumption DEF IInv, ParamsOwned, OneRunner, Place, PlaceOf, Running, Waking, Woken, Cores, Bsp, AfterChain
<1>10. OwnLocale'
  BY Zenon, <1>1, NAssumption DEF IInv, OwnLocale, Place, PlaceOf, ParamsOwned, Woken, Cores, Bsp, AfterChain
<1>11. IdtrLive'
  BY Zenon, <1>1, <1>a, IdtrSteps
<1> QED
  BY Zenon, <1>2, <1>3, <1>4, <1>5, <1>6, <1>7, <1>8, <1>9, <1>10, <1>11 DEF IInv

LEMMA TrampIdtInductive ==
  ASSUME IInv, NEW c \in Cores, TrampIdt(c) PROVE IInv'
<1>1. /\ pc[c] = "tramp"
      /\ \A d \in Cores : pc'[d] = IF d = c THEN "tramp2" ELSE pc[d]
      /\ \A d \in Cores : idtr_ok'[d] = IF d = c THEN (pc[params.idtr] \in {"ipi", "wait", "relock"}) ELSE idtr_ok[d]
      /\ UNCHANGED <<cnt, lock, identity, slot, params, local, irq, gs, launched, turn>>
  BY NAssumption DEF IInv, TypeOK, Place, PlaceOf, Cores, TrampIdt, Goto
<1>2. TypeOK'
  <2>1. (pc[params.idtr] \in {"ipi", "wait", "relock"}) \in BOOLEAN
    OBVIOUS
  <2> QED
    BY Zenon, <2>1 DEF IInv, TypeOK, ChainPc, TrampIdt, Goto
<1>a. OnlyMoves(c) /\ pc[c] \in Running
  BY Zenon, <1>1 DEF OnlyMoves, Running, Waking, Woken
<1>3. OneRunner'
  BY Zenon, <1>a, RunnerSteps
<1>4. Place'
  <2>1. PlaceOf(c)'
    BY <1>1, NAssumption DEF IInv, TypeOK, Place, PlaceOf, Waking, Woken, Cores, Bsp
  <2> QED
    BY Zenon, <1>a, <2>1, PlaceSteps
<1>5. Ahead'
  <2>1. /\ pc[c] # "off" /\ pc'[c] # "entry" /\ cnt' = cnt
        /\ pc'[c] \in Waking => pc[c] \in Waking
        /\ pc'[c] \in Woken => pc[c] \in Woken
    BY Zenon, <1>1 DEF Waking, Woken
  <2> QED
    BY Zenon, <1>a, <2>1, AheadSteps
<1>6. OffMasked'
  BY Zenon, <1>1, NAssumption DEF IInv, OffMasked, Cores, Bsp
<1>7. OneHolder'
  BY Zenon, <1>1, NAssumption DEF IInv, OneHolder, Holding, Cores, Bsp
<1>8. FrameWaits'
  <2>1. c > 0 /\ params.idtr = c - 1 /\ pc[c - 1] \in {"wait", "server"} /\ c - 1 \in Cores
    <3>1. c > 0 /\ params.idtr = c - 1 /\ pc[c - 1] \in {"wait", "server"}
      BY Zenon, <1>1 DEF IInv, FrameWaits
    <3>2. c - 1 \in Cores
      BY <3>1, NAssumption DEF Cores
    <3> QED
      BY Zenon, <3>1, <3>2
  <2>2. pc'[c - 1] = pc[c - 1]
    BY Zenon, <1>1, <2>1, NAssumption DEF Cores
  <2>3. ASSUME NEW d \in Cores, pc'[d] \in {"ipi", "tramp", "tramp2"} PROVE d = c
    BY <1>1, <2>3 DEF IInv, OneRunner, Running, Waking, Woken
  <2> QED
    BY Zenon, <1>1, <2>1, <2>2, <2>3 DEF FrameWaits
<1>9. ParamsOwned'
  BY Zenon, <1>1, NAssumption DEF IInv, ParamsOwned, OneRunner, Place, PlaceOf, Running, Waking, Woken, Cores, Bsp
<1>10. OwnLocale'
  BY Zenon, <1>1, NAssumption DEF IInv, OwnLocale, Place, PlaceOf, ParamsOwned, Woken, Cores, Bsp
<1>11. IdtrLive'
  <2>1. c > 0 /\ params.idtr = c - 1 /\ pc[c - 1] \in {"wait", "server"} /\ c - 1 \in Cores
    <3>1. c > 0 /\ params.idtr = c - 1 /\ pc[c - 1] \in {"wait", "server"}
      BY Zenon, <1>1 DEF IInv, FrameWaits
    <3>2. c - 1 \in Cores
      BY <3>1, NAssumption DEF Cores
    <3> QED
      BY Zenon, <3>1, <3>2
  <2>2. idtr_ok'[c] \/ pc'[c - 1] = "server"
    <3>1. pc'[c - 1] = pc[c - 1]
      BY Zenon, <1>1, <2>1, NAssumption DEF Cores
    <3>2. CASE pc[c - 1] = "wait"
      BY ZenonT(60), <1>1, <2>1, <3>2
    <3> QED
      BY Zenon, <2>1, <3>1, <3>2
  <2>3. ASSUME NEW d \in Cores, d # c, ~idtr_ok'[d] PROVE d > 0 /\ pc'[d - 1] = "server"
    <3>1. ~idtr_ok[d]
      BY Zenon, <1>1, <2>3
    <3>2. d > 0 /\ pc[d - 1] = "server"
      BY Zenon, <2>3, <3>1 DEF IInv, IdtrLive
    <3>3. d - 1 \in Cores
      BY <2>3, <3>2, NAssumption DEF Cores
    <3> QED
      BY Zenon, <1>1, <3>2, <3>3
  <2> QED
    BY Zenon, <2>1, <2>2, <2>3 DEF IdtrLive
<1> QED
  BY Zenon, <1>2, <1>3, <1>4, <1>5, <1>6, <1>7, <1>8, <1>9, <1>10, <1>11 DEF IInv

LEMMA TrampEnterInductive ==
  ASSUME IInv, NEW c \in Cores, TrampEnter(c) PROVE IInv'
<1>1. /\ pc[c] = "tramp2"
      /\ \A d \in Cores : pc'[d] = IF d = c THEN "boot" ELSE pc[d]
      /\ \A d \in Cores : local'[d] = IF d = c THEN params.slot ELSE local[d]
      /\ UNCHANGED <<cnt, lock, identity, slot, params, idtr_ok, irq, gs, launched, turn>>
  BY NAssumption DEF IInv, TypeOK, Place, PlaceOf, Cores, TrampEnter, Goto
<1>2. TypeOK'
  <2>1. params.slot \in 0 .. N
    BY NAssumption DEF IInv, TypeOK, Cores
  <2> QED
    BY Zenon, <2>1 DEF IInv, TypeOK, ChainPc, TrampEnter, Goto
<1>a. OnlyMoves(c) /\ pc[c] \in Running
  BY Zenon, <1>1 DEF OnlyMoves, Running, Waking, Woken
<1>3. OneRunner'
  BY Zenon, <1>a, RunnerSteps
<1>4. Place'
  <2>1. PlaceOf(c)'
    <3>1. PlaceOf(c) /\ params.slot = c
      BY Zenon, <1>1 DEF IInv, Place, ParamsOwned
    <3> QED
      BY Zenon, <1>1, <3>1 DEF PlaceOf, Waking, Woken
  <2> QED
    BY Zenon, <1>a, <2>1, PlaceSteps
<1>5. Ahead'
  <2>1. /\ pc[c] # "off" /\ pc'[c] # "entry" /\ cnt' = cnt
        /\ pc'[c] \in Waking => pc[c] \in Waking
        /\ pc'[c] \in Woken => pc[c] \in Woken
    BY Zenon, <1>1 DEF Waking, Woken
  <2> QED
    BY Zenon, <1>a, <2>1, AheadSteps
<1>6. OffMasked'
  BY Zenon, <1>1, NAssumption DEF IInv, OffMasked, Cores, Bsp
<1>7. OneHolder'
  BY Zenon, <1>1, NAssumption DEF IInv, OneHolder, Holding, Cores, Bsp
<1>8. FrameWaits'
  BY ZenonT(60), <1>1, NAssumption DEF IInv, FrameWaits, OneHolder, Holding, OneRunner, Running, Waking, Woken, ChainPc, TypeOK, Cores, Bsp
<1>9. ParamsOwned'
  BY Zenon, <1>1, NAssumption DEF IInv, ParamsOwned, OneRunner, Place, PlaceOf, Running, Waking, Woken, Cores, Bsp
<1>10. OwnLocale'
  BY Zenon, <1>1, NAssumption DEF IInv, OwnLocale, Place, PlaceOf, ParamsOwned, Woken, Cores, Bsp
<1>11. IdtrLive'
  BY Zenon, <1>1, <1>a, IdtrSteps
<1> QED
  BY Zenon, <1>2, <1>3, <1>4, <1>5, <1>6, <1>7, <1>8, <1>9, <1>10, <1>11 DEF IInv

LEMMA BootReleaseInductive ==
  ASSUME IInv, NEW c \in Cores, BootRelease(c) PROVE IInv'
<1>1. /\ pc[c] = "boot"
      /\ lock' = FALSE
      /\ \A d \in Cores : pc'[d] = IF d = c THEN "boot2" ELSE pc[d]
      /\ UNCHANGED <<cnt, identity, slot, params, local, idtr_ok, irq, gs, launched, turn>>
  BY NAssumption DEF IInv, TypeOK, Place, PlaceOf, Cores, BootRelease, Goto
<1>2. TypeOK'
  BY ZenonT(60), NAssumption DEF IInv, TypeOK, Place, PlaceOf, Woken, ChainPc, Cores, Bsp, AfterChain, BootRelease, Goto
<1>a. OnlyMoves(c) /\ pc[c] \in Running
  BY Zenon, <1>1 DEF OnlyMoves, Running, Waking, Woken
<1>3. OneRunner'
  BY Zenon, <1>a, RunnerSteps
<1>4. Place'
  <2>1. PlaceOf(c)'
    BY <1>1, NAssumption DEF IInv, TypeOK, Place, PlaceOf, Waking, Woken, Cores, Bsp
  <2> QED
    BY Zenon, <1>a, <2>1, PlaceSteps
<1>5. Ahead'
  <2>1. /\ pc[c] # "off" /\ pc'[c] # "entry" /\ cnt' = cnt
        /\ pc'[c] \in Waking => pc[c] \in Waking
        /\ pc'[c] \in Woken => pc[c] \in Woken
    BY Zenon, <1>1 DEF Waking, Woken
  <2> QED
    BY Zenon, <1>a, <2>1, AheadSteps
<1>6. OffMasked'
  BY Zenon, <1>1, NAssumption DEF IInv, OffMasked, Cores, Bsp
<1>7. OneHolder'
  BY Zenon, <1>1, NAssumption DEF IInv, OneHolder, Holding, Cores, Bsp
<1>8. FrameWaits'
  BY ZenonT(60), <1>1, NAssumption DEF IInv, FrameWaits, OneHolder, Holding, OneRunner, Running, Waking, Woken, ChainPc, TypeOK, Cores, Bsp
<1>9. ParamsOwned'
  BY Zenon, <1>1, NAssumption DEF IInv, ParamsOwned, OneRunner, Place, PlaceOf, Running, Waking, Woken, Cores, Bsp
<1>10. OwnLocale'
  BY Zenon, <1>1, NAssumption DEF IInv, OwnLocale, Place, PlaceOf, ParamsOwned, Woken, Cores, Bsp
<1>11. IdtrLive'
  BY Zenon, <1>1, <1>a, IdtrSteps
<1> QED
  BY Zenon, <1>2, <1>3, <1>4, <1>5, <1>6, <1>7, <1>8, <1>9, <1>10, <1>11 DEF IInv

LEMMA BootEnableInductive ==
  ASSUME IInv, NEW c \in Cores, BootEnable(c) PROVE IInv'
<1>1. /\ pc[c] = "boot2"
      /\ \A d \in Cores : pc'[d] = IF d = c THEN "count" ELSE pc[d]
      /\ \A d \in Cores : gs'[d] = IF d = c THEN local[c] ELSE gs[d]
      /\ \A d \in Cores : irq'[d] = IF d = c THEN TRUE ELSE irq[d]
      /\ UNCHANGED <<cnt, lock, identity, slot, params, local, idtr_ok, launched, turn>>
  BY NAssumption DEF IInv, TypeOK, Place, PlaceOf, Cores, BootEnable, Goto
<1>2. TypeOK'
  BY ZenonT(60), NAssumption DEF IInv, TypeOK, Place, PlaceOf, Woken, ChainPc, Cores, Bsp, AfterChain, BootEnable, Goto
<1>a. OnlyMoves(c) /\ pc[c] \in Running
  BY Zenon, <1>1 DEF OnlyMoves, Running, Waking, Woken
<1>3. OneRunner'
  BY Zenon, <1>a, RunnerSteps
<1>4. Place'
  <2>1. PlaceOf(c)'
    BY <1>1, NAssumption DEF IInv, TypeOK, Place, PlaceOf, Waking, Woken, Cores, Bsp
  <2> QED
    BY Zenon, <1>a, <2>1, PlaceSteps
<1>5. Ahead'
  <2>1. /\ pc[c] # "off" /\ pc'[c] # "entry" /\ cnt' = cnt
        /\ pc'[c] \in Waking => pc[c] \in Waking
        /\ pc'[c] \in Woken => pc[c] \in Woken
    BY Zenon, <1>1 DEF Waking, Woken
  <2> QED
    BY Zenon, <1>a, <2>1, AheadSteps
<1>6. OffMasked'
  BY ZenonT(60), <1>1, NAssumption DEF IInv, OffMasked, Cores, Bsp
<1>7. OneHolder'
  BY ZenonT(40), <1>1, NAssumption DEF IInv, OneHolder, Holding, Cores, Bsp
<1>8. FrameWaits'
  BY ZenonT(60), <1>1, NAssumption DEF IInv, FrameWaits, OneHolder, Holding, OneRunner, Running, Waking, Woken, ChainPc, TypeOK, Cores, Bsp
<1>9. ParamsOwned'
  BY Zenon, <1>1, NAssumption DEF IInv, ParamsOwned, OneRunner, Place, PlaceOf, Running, Waking, Woken, Cores, Bsp
<1>10. OwnLocale'
  BY Zenon, <1>1, NAssumption DEF IInv, OwnLocale, Place, PlaceOf, ParamsOwned, Woken, Cores, Bsp
<1>11. IdtrLive'
  BY Zenon, <1>1, <1>a, IdtrSteps
<1> QED
  BY Zenon, <1>2, <1>3, <1>4, <1>5, <1>6, <1>7, <1>8, <1>9, <1>10, <1>11 DEF IInv

LEMMA BootCountInductive ==
  ASSUME IInv, NEW c \in Cores, BootCount(c) PROVE IInv'
<1>1. /\ pc[c] = "count"
      /\ cnt' = cnt + 1
      /\ \A d \in Cores : pc'[d] = IF d = c THEN "chain" ELSE pc[d]
      /\ UNCHANGED <<lock, identity, slot, params, local, idtr_ok, irq, gs, launched, turn>>
  BY NAssumption DEF IInv, TypeOK, Place, PlaceOf, Cores, BootCount, Goto
<1>2. TypeOK'
  <2>1. cnt + 1 \in 0 .. N
    BY SMTT(40), <1>1, NAssumption DEF IInv, TypeOK, Place, PlaceOf, Woken, Cores
  <2> QED
    BY Zenon, <2>1 DEF IInv, TypeOK, ChainPc, BootCount, Goto
<1>a. OnlyMoves(c) /\ pc[c] \in Running
  BY Zenon, <1>1 DEF OnlyMoves, Running, Waking, Woken
<1>3. OneRunner'
  BY Zenon, <1>a, RunnerSteps
<1>4. Place'
  <2>1. PlaceOf(c)'
    <3>1. PlaceOf(c) /\ cnt \in 0 .. N
      BY Zenon DEF IInv, Place, TypeOK
    <3>2. c = cnt /\ identity
      BY Zenon, <1>1, <3>1 DEF PlaceOf, Waking, Woken
    <3>3. c = cnt' - 1
      BY <1>1, <3>1, <3>2, NAssumption
    <3> QED
      BY Zenon, <1>1, <3>2, <3>3 DEF PlaceOf, Waking, Woken
  <2> QED
    BY Zenon, <1>a, <2>1, PlaceSteps
<1>5. Ahead'
  BY SMTT(40), <1>1, NAssumption DEF IInv, Ahead, OneRunner, Place, PlaceOf, OffMasked, Running, Waking, Woken, Cores, Bsp
<1>6. OffMasked'
  BY Zenon, <1>1, NAssumption DEF IInv, OffMasked, Cores, Bsp
<1>7. OneHolder'
  BY <1>1, NAssumption DEF IInv, OneHolder, Holding, Cores, Bsp
<1>8. FrameWaits'
  BY ZenonT(60), <1>1, NAssumption DEF IInv, FrameWaits, OneHolder, Holding, OneRunner, Running, Waking, Woken, ChainPc, TypeOK, Cores, Bsp
<1>9. ParamsOwned'
  BY Zenon, <1>1, NAssumption DEF IInv, ParamsOwned, OneRunner, Place, PlaceOf, Running, Waking, Woken, Cores, Bsp
<1>10. OwnLocale'
  BY Zenon, <1>1, NAssumption DEF IInv, OwnLocale, Place, PlaceOf, ParamsOwned, Woken, Cores, Bsp
<1>11. IdtrLive'
  BY Zenon, <1>1, <1>a, IdtrSteps
<1> QED
  BY Zenon, <1>2, <1>3, <1>4, <1>5, <1>6, <1>7, <1>8, <1>9, <1>10, <1>11 DEF IInv

LEMMA TickInductive ==
  ASSUME IInv, NEW c \in Cores, Tick(c) PROVE IInv'
<1>1. /\ irq[c]
      /\ \A d \in Cores : pc'[d] = IF d = c THEN "server" ELSE pc[d]
      /\ UNCHANGED <<cnt, lock, identity, slot, params, local, idtr_ok, irq, gs, launched, turn>>
  BY SMTT(40), NAssumption DEF IInv, TypeOK, Place, PlaceOf, Cores, Tick, Goto
<1>2. TypeOK'
  BY ZenonT(60), NAssumption DEF IInv, TypeOK, Place, PlaceOf, Woken, ChainPc, Cores, Bsp, AfterChain, Tick, Goto
<1>a. OnlyMoves(c) /\ pc'[c] \notin Running
  BY Zenon, <1>1 DEF OnlyMoves, Running, Waking, Woken
<1>3. OneRunner'
  BY Zenon, <1>a, RunnerSteps
<1>4. Place'
  BY Zenon, <1>1, <1>a, PlaceKept
<1>5. Ahead'
  <2>1. /\ pc[c] # "off" /\ pc'[c] # "entry" /\ cnt' = cnt
        /\ pc'[c] \in Waking => pc[c] \in Waking
        /\ pc'[c] \in Woken => pc[c] \in Woken
    BY Zenon, <1>1 DEF IInv, OffMasked, Waking, Woken
  <2> QED
    BY Zenon, <1>a, <2>1, AheadSteps
<1>6. OffMasked'
  BY Zenon, <1>1, NAssumption DEF IInv, OffMasked, Cores, Bsp
<1>7. OneHolder'
  BY <1>1, NAssumption DEF IInv, OneHolder, Holding, Cores, Bsp
<1>8. FrameWaits'
  <2>1. ASSUME NEW d \in Cores, pc'[d] \in {"tramp", "tramp2"}
        PROVE params.idtr = d - 1 /\ d > 0 /\ pc'[d - 1] \in {"wait", "server"}
    <3>1. pc[d] = pc'[d] /\ d > 0 /\ params.idtr = d - 1 /\ d - 1 \in Cores
          /\ pc[d - 1] \in {"wait", "server"}
      BY <1>1, <2>1, NAssumption DEF IInv, FrameWaits, Cores
    <3> QED
      BY Zenon, <1>1, <3>1
  <2> QED
    BY Zenon, <1>1, <2>1 DEF IInv, FrameWaits
<1>9. ParamsOwned'
  BY Zenon, <1>1, NAssumption DEF IInv, ParamsOwned, OneRunner, Place, PlaceOf, Running, Waking, Woken, Cores, Bsp
<1>10. OwnLocale'
  BY Zenon, <1>1, NAssumption DEF IInv, OwnLocale, Place, PlaceOf, ParamsOwned, Woken, Cores, Bsp
<1>11. IdtrLive'
  BY Zenon, <1>1, <1>a, IdtrSteps
<1> QED
  BY Zenon, <1>2, <1>3, <1>4, <1>5, <1>6, <1>7, <1>8, <1>9, <1>10, <1>11 DEF IInv

LEMMA LaunchEndInductive ==
  ASSUME IInv, NEW c \in Cores, c = Bsp, LaunchEnd PROVE IInv'
<1>1. /\ pc[c] = "launch"
      /\ \A d \in Cores : pc'[d] = IF d = c THEN "halt" ELSE pc[d]
      /\ \A d \in Cores : irq'[d] = IF d = c THEN TRUE ELSE irq[d]
      /\ UNCHANGED <<cnt, lock, identity, slot, params, local, idtr_ok, gs, launched, turn>>
  BY SMTT(40), NAssumption DEF IInv, TypeOK, Place, PlaceOf, Cores, LaunchEnd, Goto
<1>2. TypeOK'
  BY ZenonT(60), NAssumption DEF IInv, TypeOK, Place, PlaceOf, Woken, ChainPc, Cores, Bsp, AfterChain, LaunchEnd, Goto
<1>a. OnlyMoves(c) /\ pc'[c] \notin Running
  BY Zenon, <1>1 DEF OnlyMoves, Running, Waking, Woken
<1>3. OneRunner'
  BY Zenon, <1>a, RunnerSteps
<1>4. Place'
  BY Zenon, <1>1, <1>a, PlaceKept
<1>5. Ahead'
  <2>1. /\ pc[c] # "off" /\ pc'[c] # "entry" /\ cnt' = cnt
        /\ pc'[c] \in Waking => pc[c] \in Waking
        /\ pc'[c] \in Woken => pc[c] \in Woken
    BY Zenon, <1>1 DEF Waking, Woken
  <2> QED
    BY Zenon, <1>a, <2>1, AheadSteps
<1>6. OffMasked'
  BY ZenonT(60), <1>1, NAssumption DEF IInv, OffMasked, Cores, Bsp
<1>7. OneHolder'
  BY <1>1, NAssumption DEF IInv, OneHolder, Holding, Cores, Bsp
<1>8. FrameWaits'
  <2>1. ASSUME NEW d \in Cores, pc'[d] \in {"tramp", "tramp2"}
        PROVE params.idtr = d - 1 /\ d > 0 /\ pc'[d - 1] \in {"wait", "server"}
    <3>1. pc[d] = pc'[d] /\ d > 0 /\ params.idtr = d - 1 /\ d - 1 \in Cores
          /\ pc[d - 1] \in {"wait", "server"}
      BY SMTT(40), <1>1, <2>1, NAssumption DEF IInv, FrameWaits, Cores
    <3> QED
      BY Zenon, <1>1, <3>1
  <2> QED
    BY Zenon, <1>1, <2>1 DEF IInv, FrameWaits
<1>9. ParamsOwned'
  BY Zenon, <1>1, NAssumption DEF IInv, ParamsOwned, OneRunner, Place, PlaceOf, Running, Waking, Woken, Cores, Bsp
<1>10. OwnLocale'
  BY Zenon, <1>1, NAssumption DEF IInv, OwnLocale, Place, PlaceOf, ParamsOwned, Woken, Cores, Bsp
<1>11. IdtrLive'
  BY Zenon, <1>1, <1>a, IdtrSteps
<1> QED
  BY Zenon, <1>2, <1>3, <1>4, <1>5, <1>6, <1>7, <1>8, <1>9, <1>10, <1>11 DEF IInv

\* Launching servers does not touch the chain.
LEMMA LaunchInductive ==
  ASSUME IInv,
         UNCHANGED <<pc, cnt, lock, identity, slot, params, local, idtr_ok, irq, gs>>,
         launched' \subseteq Cores, turn' \in 0 .. N
  PROVE IInv'
  BY ZenonT(40) DEF IInv, TypeOK, OneRunner, Place, PlaceOf, Ahead, OffMasked, OneHolder,
     FrameWaits, ParamsOwned, OwnLocale, IdtrLive

LEMMA NextInductive == IInv /\ [Next]_vars => IInv'
<1> SUFFICES ASSUME IInv, [Next]_vars PROVE IInv'
  BY Zenon
<1> Bsp \in Cores
  BY NAssumption DEF Bsp, Cores
<1>1. ASSUME NEW c \in Cores, Step(c) PROVE IInv'
  BY Zenon, <1>1, ChainEndInductive, ChainSelfInductive, ChainNextInductive,
     TakeLockInductive, WriteParamsInductive, SendIpiInductive,
     RelockInductive, UnlockInductive, TrampIdtInductive,
     TrampEnterInductive, BootReleaseInductive, BootEnableInductive,
     BootCountInductive DEF Step
<1>2. ASSUME NEW c \in Cores, Tick(c) PROVE IInv'
  BY Zenon, <1>2, TickInductive
<1>3. CASE BootAps
  BY Zenon, <1>3, BootApsInductive
<1>4. CASE LaunchEnd
  BY Zenon, <1>4, LaunchEndInductive
<1>5. CASE Launch \/ LaunchSkip \/ LaunchAbort
  <2>1. turn \in 0 .. N /\ turn < N /\ launched \subseteq Cores
    BY Zenon, <1>5 DEF Launch, LaunchSkip, LaunchAbort, IInv, TypeOK
  <2>2. turn \in Cores /\ turn + 1 \in 0 .. N /\ N \in 0 .. N
    BY <2>1, NAssumption DEF Cores
  <2>3. launched' \subseteq Cores /\ turn' \in 0 .. N
    BY ZenonT(60), <1>5, <2>1, <2>2 DEF Launch, LaunchSkip, LaunchAbort
  <2>4. UNCHANGED <<pc, cnt, lock, identity, slot, params, local, idtr_ok, irq, gs>>
    BY Zenon, <1>5 DEF Launch, LaunchSkip, LaunchAbort
  <2> QED
    BY Zenon, <2>3, <2>4, LaunchInductive
<1>6. CASE UNCHANGED vars
  BY Zenon, <1>6, LaunchInductive DEF vars, IInv, TypeOK
<1> QED
  BY Zenon, <1>1, <1>2, <1>3, <1>4, <1>5, <1>6 DEF Next

(***************************************************************************)
(* The chain has one runner and one lock holder in every reachable state,  *)
(* whatever the timer does to the boot code.                               *)
(***************************************************************************)
THEOREM Inductive == Spec => []IInv
<1> QED
  BY InitInductive, NextInductive, PTL DEF Spec

\* Type correctness of the boot model.
THEOREM TypeCorrect == Spec => []TypeOK
<1>1. IInv => TypeOK
  BY Zenon DEF IInv
<1> QED
  BY <1>1, Inductive, PTL

\* The parameter block at 0x81000 names the core that is reading it.
THEOREM ParamsSafe == Spec => []ParamsOwned
<1>1. IInv => ParamsOwned
  BY Zenon DEF IInv
<1> QED
  BY <1>1, Inductive, PTL

\* Every core runs on its own stack and its own cpu_local.
THEOREM LocaleSafe == Spec => []OwnLocale
<1>1. IInv => OwnLocale
  BY Zenon DEF IInv
<1> QED
  BY <1>1, Inductive, PTL

\* chain_aps does not unmap the identity page under a core in the trampoline.
THEOREM IdentitySafe == Spec => []IdentityHeld
<1>1. IInv => IdentityHeld
  BY Zenon DEF IInv, Place, PlaceOf, IdentityHeld, Woken
<1> QED
  BY <1>1, Inductive, PTL

\* A woken core loads its IDT register from a frame that chain_aps has not
\* left, unless a tick has taken the waking core away.
THEOREM IdtrSafe == Spec => []IdtrLive
<1>1. IInv => IdtrLive
  BY Zenon DEF IInv
<1> QED
  BY <1>1, Inductive, PTL

\* The start-up interrupts of chain_aps only hit cores that are off.
THEOREM WokenSafe == Spec => WokenOnce
<1> DEFINE Once == \A c \in Cores : pc'[c] = "tramp" /\ pc[c] # "tramp" => pc[c] = "off"
<1>1. IInv /\ [Next]_vars => [Once]_vars
  <2> SUFFICES ASSUME IInv, Next, NEW d \in Cores, pc'[d] = "tramp", pc[d] # "tramp"
               PROVE pc[d] = "off"
    BY Zenon DEF vars
  <2>0. Bsp \in Cores /\ d \in DOMAIN pc
    BY NAssumption DEF Bsp, Cores, IInv, TypeOK
  <2>1. PICK c \in Cores : SendIpi(c)
    <3>1. ASSUME NEW c \in Cores, Step(c) \/ Tick(c), ~SendIpi(c) PROVE FALSE
      BY Zenon, <2>0, <3>1 DEF IInv, TypeOK, Step, ChainEnd, ChainSelf, ChainNext,
         TakeLock, WriteParams, Relock, Unlock, TrampIdt, TrampEnter,
         BootRelease, BootEnable, BootCount, Tick, Goto, AfterChain
    <3>2. ~(BootAps \/ Launch \/ LaunchSkip \/ LaunchAbort \/ LaunchEnd)
      BY Zenon, <2>0 DEF IInv, TypeOK, BootAps, Launch, LaunchSkip, LaunchAbort,
         LaunchEnd, Goto
    <3> QED
      BY Zenon, <3>1, <3>2 DEF Next
  <2>2. pc[c] = "ipi" /\ slot[c] = cnt /\ c # cnt /\ d = cnt
    <3>1. pc[c] = "ipi" /\ slot[c] = cnt /\ c # cnt
      BY SMTT(40), <2>1, NAssumption DEF SendIpi, IInv, TypeOK, Place, PlaceOf, Cores
    <3> QED
      BY Zenon, <2>1, <3>1 DEF SendIpi, IInv, TypeOK
  <2> QED
    BY <2>2, NAssumption DEF IInv, Ahead, Waking, Cores
<1> QED
  BY <1>1, Inductive, PTL DEF Spec, WokenOnce

-----------------------------------------------------------------------------
(* What can stop the boot: a cut, and nothing else.                        *)

\* Places from which a core goes on by itself.
Moving == {"entry", "chain", "params", "ipi", "relock", "launch"} \cup Woken

\* Core c can take its next step: it is at such a place, or may have the lock.
Moves(c) == pc[c] \in Moving \/ (pc[c] \in {"lock", "wait"} /\ ~lock)

\* Unless the chain is cut, a core can go on until each is in its hlt loop or
\* in its server: nobody waits for a lock that is not released, or stays off.
Unstuck ==
  \/ Cut
  \/ \E c \in Cores : Moves(c)
  \/ \A c \in Cores : pc[c] \in {"halt", "server"}

\* Places behind the wake-up of the next core.
Past == {"halt", "launch", "wait", "relock"}

\* A lock that is taken is answered for, or a tick took a core away with it.
Answered == lock => \E c \in Cores : pc[c] \in Holding \cup {"server"}

\* A core behind the wake-up of the next has woken it.
WakesNext == \A c \in Cores : pc[c] = "off" => c > 0 /\ pc[c - 1] \notin Past

\* The cores counted are on, and those after the next one are off.
OnOff == \A c \in Cores : (c < cnt => pc[c] # "off") /\ (c > cnt => pc[c] = "off")

Chained == Answered /\ WakesNext /\ OnOff

\* A step of one core that wakes no other.
Alone(c) ==
  \/ ChainEnd(c) \/ ChainSelf(c) \/ ChainNext(c) \/ TakeLock(c)
  \/ WriteParams(c) \/ Relock(c) \/ Unlock(c)
  \/ TrampIdt(c) \/ TrampEnter(c) \/ BootRelease(c) \/ BootEnable(c)
  \/ BootCount(c) \/ Tick(c)
  \/ c = Bsp /\ (BootAps \/ LaunchEnd)

LEMMA AloneEffect ==
  ASSUME IInv, NEW c \in Cores, Alone(c)
  PROVE  /\ \A d \in Cores : d # c => pc'[d] = pc[d]
         /\ pc[c] # "off" /\ pc'[c] # "off"
         /\ pc[c] # "server" \/ pc'[c] = "server"
         /\ pc'[c] \in Past => pc[c] \in Past \/ (pc[c] = "chain" /\ cnt >= N)
         /\ cnt' = cnt \/ (cnt' = cnt + 1 /\ (c = cnt \/ pc[c] = "count"))
         /\ lock' => \/ pc'[c] \in Holding \cup {"server"}
                     \/ lock /\ pc[c] \notin Holding \cup {"server"}
<1>1. c \in DOMAIN pc /\ pc = [d \in Cores |-> pc[d]]
  BY Zenon DEF IInv, TypeOK
<1>2. CASE Tick(c)
  BY <1>1, <1>2 DEF Tick, Goto, IInv, OffMasked, Past
<1>3. CASE c = Bsp /\ (BootAps \/ LaunchEnd)
  BY SMTT(40), <1>1, <1>3 DEF BootAps, LaunchEnd, Goto, Past, Holding, Bsp
<1>4. CASE ChainEnd(c) \/ ChainSelf(c) \/ ChainNext(c)
  <2>1. CASE ChainEnd(c)
    BY Zenon, <1>1, <2>1 DEF ChainEnd, AfterChain, Goto, Past, Holding
  <2>2. CASE ChainSelf(c)
    BY Zenon, <1>1, <2>2 DEF ChainSelf, Goto, Past, Holding
  <2>3. CASE ChainNext(c)
    BY Zenon, <1>1, <2>3 DEF ChainNext, Goto, Past, Holding
  <2> QED
    BY Zenon, <1>4, <2>1, <2>2, <2>3
<1>5. CASE TakeLock(c) \/ WriteParams(c) \/ Relock(c) \/ Unlock(c)
  BY Zenon, <1>1, <1>5 DEF TakeLock, WriteParams, Relock, Unlock, AfterChain, Goto, Past, Holding
<1>6. CASE TrampIdt(c) \/ TrampEnter(c) \/ BootRelease(c) \/ BootEnable(c) \/ BootCount(c)
  <2>1. CASE TrampIdt(c) \/ TrampEnter(c)
    BY Zenon, <1>1, <2>1 DEF TrampIdt, TrampEnter, Goto, Past, Holding
  <2>2. CASE BootRelease(c) \/ BootEnable(c)
    BY SMTT(30), <1>1, <2>2 DEF BootRelease, BootEnable, Goto, Past, Holding
  <2>3. CASE BootCount(c)
    BY Zenon, <1>1, <2>3 DEF BootCount, Goto, Past, Holding
  <2> QED
    BY Zenon, <1>6, <2>1, <2>2, <2>3
<1> QED
  BY Zenon, <1>2, <1>3, <1>4, <1>5, <1>6 DEF Alone

\* The start-up interrupts of chain_aps go to the next core, which is off.
LEMMA IpiEffect ==
  ASSUME IInv, NEW c \in Cores, SendIpi(c)
  PROVE  /\ pc[c] = "ipi" /\ pc[cnt] = "off" /\ cnt \in Cores /\ c = cnt - 1
         /\ pc'[c] = "wait" /\ pc'[cnt] = "tramp"
         /\ \A d \in Cores : d # c /\ d # cnt => pc'[d] = pc[d]
         /\ cnt' = cnt /\ lock' = lock
<1>1. /\ pc[c] = "ipi" /\ c = cnt - 1 /\ cnt < N /\ slot[c] = cnt /\ cnt \in Cores /\ c # cnt
  BY SMTT(40), NAssumption DEF SendIpi, IInv, TypeOK, Place, PlaceOf, Cores
<1>2. pc[cnt] = "off"
  BY SMTT(40), <1>1, NAssumption DEF IInv, TypeOK, Ahead, Waking
<1> QED
  BY Zenon, <1>1, <1>2 DEF SendIpi, IInv, TypeOK

LEMMA StepKinds ==
  ASSUME [Next]_vars
  PROVE  \/ UNCHANGED <<pc, cnt, lock>>
         \/ \E c \in Cores : Alone(c) \/ SendIpi(c)
<1>1. Bsp \in Cores
  BY NAssumption DEF Bsp, Cores
<1> QED
  BY Zenon, <1>1 DEF Next, Step, Alone, Launch, LaunchSkip, LaunchAbort, vars

LEMMA ChainedInit == Init => Chained
<1> SUFFICES ASSUME Init PROVE Chained
  BY Zenon
<1>1. ~lock /\ cnt = 0 /\ \A c \in Cores : pc[c] = IF c = 0 THEN "entry" ELSE "off"
  BY Zenon DEF Init, Bsp
<1>2. WakesNext /\ OnOff
  BY <1>1, NAssumption DEF WakesNext, OnOff, Past, Cores
<1> QED
  BY Zenon, <1>1, <1>2 DEF Chained, Answered

LEMMA ChainedAlone ==
  ASSUME IInv, Chained, NEW c \in Cores, Alone(c) PROVE Chained'
<1>1. Answered'
  BY Zenon, AloneEffect DEF Chained, Answered
<1>2. ASSUME NEW d \in Cores, pc'[d] = "off" PROVE d > 0 /\ pc'[d - 1] \notin Past
  <2>1. d # c /\ pc[d] = "off"
    BY Zenon, <1>2, AloneEffect
  <2>2. d > 0 /\ d - 1 \in Cores /\ pc[d - 1] \notin Past
    BY <2>1, NAssumption DEF Chained, WakesNext, Cores
  <2>3. ASSUME c = d - 1, pc[c] = "chain" PROVE ~(cnt >= N)
    <3>1. cnt \in 0 .. N /\ ((c = 0 /\ cnt = 0) \/ c = cnt - 1)
      BY Zenon, <2>3 DEF IInv, Place, PlaceOf, TypeOK
    <3> QED
      BY <2>3, <3>1, NAssumption DEF Cores
  <2> QED
    BY Zenon, <2>2, <2>3, AloneEffect
<1>3. OnOff'
  <2>1. cnt \in Nat /\ (cnt' = cnt \/ (cnt' = cnt + 1 /\ c = cnt))
    <3>1. cnt \in 0 .. N /\ (pc[c] = "count" => c = cnt)
      BY Zenon DEF IInv, TypeOK, Place, PlaceOf, Woken
    <3>2. cnt \in Nat
      BY <3>1, NAssumption
    <3> QED BY Zenon, <3>1, <3>2, AloneEffect
  <2>2. \A d \in Cores : pc'[d] = "off" <=> pc[d] = "off"
    BY Zenon, AloneEffect
  <2>3. pc[c] # "off"
    BY Zenon, AloneEffect
  <2> QED
    BY <2>1, <2>2, <2>3 DEF Chained, OnOff, Cores
<1> QED
  BY Zenon, <1>1, <1>2, <1>3 DEF Chained, WakesNext

LEMMA ChainedIpi ==
  ASSUME IInv, Chained, NEW c \in Cores, SendIpi(c) PROVE Chained'
<1>1. Answered'
  <2>1. pc'[cnt] \in Holding /\ cnt \in Cores
    BY Zenon, IpiEffect DEF Holding
  <2> QED
    BY Zenon, <2>1 DEF Answered
<1>2. ASSUME NEW d \in Cores, pc'[d] = "off" PROVE d > 0 /\ pc'[d - 1] \notin Past
  <2>1. d # c /\ d # cnt /\ pc[d] = "off" /\ c = cnt - 1 /\ cnt \in Cores
    BY Zenon, <1>2, IpiEffect
  <2>2. d > 0 /\ d - 1 \in Cores /\ d - 1 # c /\ pc[d - 1] \notin Past
    BY <2>1, NAssumption DEF Chained, WakesNext, Cores
  <2> QED
    BY Zenon, <2>2, IpiEffect DEF Past
<1>3. OnOff'
  <2>1. /\ cnt' = cnt /\ c = cnt - 1 /\ cnt \in Cores
        /\ pc'[c] # "off" /\ \A d \in Cores : d # c /\ d # cnt => pc'[d] = pc[d]
    BY Zenon, IpiEffect
  <2> QED
    BY <2>1, NAssumption DEF Chained, OnOff, Cores
<1> QED
  BY Zenon, <1>1, <1>2, <1>3 DEF Chained, WakesNext

LEMMA ChainedHolds == Spec => []Chained
<1>1. IInv /\ Chained /\ [Next]_vars => Chained'
  <2> SUFFICES ASSUME IInv, Chained, [Next]_vars PROVE Chained'
    BY Zenon
  <2>1. CASE UNCHANGED <<pc, cnt, lock>>
    BY Zenon, <2>1 DEF Chained, Answered, WakesNext, OnOff
  <2> QED
    BY Zenon, <2>1, StepKinds, ChainedAlone, ChainedIpi
<1> QED
  BY <1>1, ChainedInit, Inductive, PTL DEF Spec

(***************************************************************************)
(* The boot stops before every core is in its hlt loop or in its server    *)
(* only if a tick has cut it: no wait for core_init_lock is in vain        *)
(* otherwise, and no core stays off.                                       *)
(***************************************************************************)
THEOREM StoppedByCut == Spec => []Unstuck
<1>1. IInv /\ Chained => Unstuck
  <2> SUFFICES ASSUME IInv, Chained, ~Cut, \A c \in Cores : ~Moves(c)
               PROVE  \A c \in Cores : pc[c] \in {"halt", "server"}
    BY Zenon DEF Unstuck
  <2>1. \A c \in Cores : pc[c] \in {"off", "halt", "server", "lock", "wait"}
    BY Zenon DEF IInv, TypeOK, ChainPc, Moves, Moving, Woken
  <2>2. ~lock
    <3> SUFFICES ASSUME lock PROVE FALSE
      OBVIOUS
    <3>1. \A c \in Cores : pc[c] \notin Holding
      BY Zenon, <2>1 DEF Holding
    <3>2. PICK c \in Cores : pc[c] = "server"
      BY Zenon, <3>1 DEF Chained, Answered
    <3> QED
      BY Zenon, <3>1, <3>2 DEF Cut, Holding
  <2>3. \A c \in Cores : pc[c] \in {"off", "halt", "server"}
    BY Zenon, <2>1, <2>2 DEF Moves
  <2>4. ASSUME NEW c \in Cores, pc[c] = "off", c - 1 \in Cores, pc[c - 1] # "off" PROVE FALSE
    <3>1. pc[c - 1] \notin Past
      BY Zenon, <2>4 DEF Chained, WakesNext
    <3>2. pc[c - 1] = "server"
      BY Zenon, <2>3, <2>4, <3>1 DEF Past
    <3>3. (c - 1) + 1 = c
      BY NAssumption DEF Cores
    <3> QED
      BY Zenon, <2>4, <3>2, <3>3 DEF Cut
  <2>5. ASSUME NEW c \in Cores, pc[c] = "off" PROVE FALSE
    <3>1. cnt \in 0 .. N /\ c > 0 /\ ~(c < cnt)
      BY Zenon, <2>5 DEF IInv, TypeOK, Chained, OnOff, WakesNext
    <3>2. CASE cnt # 0 /\ pc[cnt] = "off"
      BY <2>4, <3>1, <3>2, NAssumption DEF Cores, Chained, OnOff
    <3>3. CASE cnt = 0
      BY <2>4, <2>5, <3>1, <3>3, NAssumption DEF Cores, Chained, OnOff, WakesNext
    <3>4. CASE pc[cnt] # "off"
      <4>1. cnt \in Cores /\ cnt + 1 \in Cores /\ cnt + 1 > cnt /\ (cnt + 1) - 1 = cnt
        BY <2>5, <3>1, <3>4, NAssumption DEF Cores
      <4>2. pc[cnt + 1] = "off"
        BY Zenon, <4>1 DEF Chained, OnOff
      <4> QED
        BY Zenon, <2>4, <3>4, <4>1, <4>2
    <3> QED
      BY Zenon, <3>2, <3>3, <3>4
  <2> QED
    BY Zenon, <2>3, <2>5
<1> QED
  BY <1>1, ChainedHolds, Inductive, PTL

(***************************************************************************)
(* A cut is for good: no core wakes a core that a tick kept another from   *)
(* waking, and none releases the lock that a tick took away.               *)
(***************************************************************************)
THEOREM CutForGood == Spec => [][Cut => Cut']_vars
<1>1. IInv /\ [Next]_vars => (Cut => Cut')
  <2> SUFFICES ASSUME IInv, [Next]_vars, NEW c \in Cores, pc[c] = "server",
                      \/ c + 1 \in Cores /\ pc[c + 1] = "off"
                      \/ lock /\ \A d \in Cores : pc[d] \notin Holding
               PROVE  Cut'
    BY Zenon DEF Cut, Holding
  <2>1. CASE UNCHANGED <<pc, cnt, lock>>
    BY Zenon, <2>1 DEF Cut, Holding
  <2>2. ASSUME NEW e \in Cores, Alone(e) PROVE Cut'
    <3>1. pc'[c] = "server"
      BY Zenon, <2>2, AloneEffect
    <3>2. CASE c + 1 \in Cores /\ pc[c + 1] = "off"
      BY Zenon, <2>2, <3>1, <3>2, AloneEffect DEF Cut
    <3>3. CASE lock /\ \A d \in Cores : pc[d] \notin Holding
      <4>1. lock' /\ pc'[e] \notin Holding
        BY ZenonT(40), <2>2, <3>3 DEF IInv, TypeOK, Alone, ChainEnd, ChainSelf, ChainNext, TakeLock,
           WriteParams, Relock, Unlock, TrampIdt, TrampEnter, BootRelease, BootEnable, BootCount,
           Tick, BootAps, LaunchEnd, AfterChain, Goto, Holding
      <4> QED
        BY Zenon, <2>2, <3>1, <3>3, <4>1, AloneEffect DEF Cut, Holding
    <3> QED
      BY Zenon, <3>2, <3>3
  <2>3. ASSUME NEW e \in Cores, SendIpi(e) PROVE Cut'
    <3>1. /\ pc[e] = "ipi" /\ pc[cnt] = "off" /\ e = cnt - 1 /\ cnt \in Cores
          /\ \A d \in Cores : d # e /\ d # cnt => pc'[d] = pc[d]
      BY Zenon, <2>3, IpiEffect
    <3>2. c + 1 \in Cores /\ pc[c + 1] = "off"
      BY Zenon, <3>1 DEF Holding
    <3>3. c # e /\ c # cnt
      BY Zenon, <3>1
    <3>4. c + 1 # e /\ c + 1 # cnt
      BY <3>1, <3>2, <3>3, NAssumption DEF Cores
    <3> QED
      BY Zenon, <3>1, <3>2, <3>3, <3>4 DEF Cut
  <2> QED
    BY Zenon, <2>1, <2>2, <2>3, StepKinds
<1> QED
  BY <1>1, Inductive, PTL DEF Spec
=============================================================================
