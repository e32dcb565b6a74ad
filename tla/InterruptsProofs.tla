-------------------------- MODULE InterruptsProofs --------------------------
(***************************************************************************)
(* For every firmware, whatever its tables say: the only interrupt from    *)
(* outside with something to do is the timer, and the I/O APICs end up as  *)
(* the MADT asks.  With what EntryProofs makes of the first and of a part  *)
(* of the second, entries to the kernel and returns from it are right.     *)
(* The way there has no loop without an end, and the timer is calibrated.  *)
(***************************************************************************)
EXTENDS EntryProofs, WellFoundedInduction

\* ioapic_set_irq_redirection keeps all pins masked when it is asked to.
LEMMA RedirectionMasked ==
  ASSUME NEW v, NEW irq, SetIrqRedirection(v, irq, TRUE),
         \A x \in DOMAIN redirection : redirection[x].mask = TRUE
  PROVE  \A x \in DOMAIN redirection' : redirection'[x].mask = TRUE
  <1> DEFINE o == Override(irq)
             low == o # 0 /\ madt[o].low
             gsi == IF o = 0 THEN irq ELSE madt[o].gsi
             entry == [vector |-> v, low |-> low,
                       level |-> o # 0 /\ ~low /\ madt[o].level,
                       mask |-> TRUE, destination |-> Destination]
             taker == Taker(gsi)
             pin == <<taker, IF taker = 0 THEN 0 ELSE gsi - madt[taker].base>>
             new == [x \in DOMAIN redirection \cup {pin} |->
                       IF x = pin THEN entry ELSE redirection[x]]
  <1>1. redirection' = IF taker = 0 THEN redirection ELSE new
    BY DEF SetIrqRedirection
  <1>2. entry.mask = TRUE
    OBVIOUS
  <1> HIDE DEF entry, pin, taker
  <1>3. \A x \in DOMAIN new : new[x].mask = TRUE
    BY <1>2
  <1>4. CASE taker = 0
    BY <1>1, <1>4
  <1>5. CASE taker # 0
    <2> HIDE DEF new
    <2> QED BY <1>1, <1>3, <1>5
  <1> QED BY ZenonT(60), <1>4, <1>5

\* Every step of the routing keeps it.
LEMMA ApicQuiet == Quiet /\ ApicStep => Quiet'
  <1> SUFFICES ASSUME Quiet, ApicStep PROVE Quiet'
    OBVIOUS
  <1>1. CASE FindHpet \/ FindMadt
    BY <1>1 DEF Quiet, FindHpet, FindMadt, Find
  <1>2. CASE ParseEntry \/ EnableApic \/ StartTimer
    BY <1>2 DEF Quiet, ParseEntry, EnableApic, StartTimer
  <1>3. CASE ListIoapics
    BY <1>3 DEF Quiet, ListIoapics
  <1>4. CASE Redirect
    <2>1. timer' = timer /\ pic' = pic
      BY <1>4 DEF Redirect
    <2>2. \A x \in DOMAIN redirection' : redirection'[x].mask = TRUE
      <3>1. CASE i \in irq_bitmap
        BY <1>4, <3>1 DEF Redirect, Quiet
      <3>2. CASE i \notin irq_bitmap
        <4>1. SetIrqRedirection(i + 32, i, TRUE)
          BY ZenonT(60), <1>4, <3>2 DEF Redirect
        <4>2. \A x \in DOMAIN redirection : redirection[x].mask = TRUE
          BY DEF Quiet
        <4> QED BY ZenonT(60), <4>1, <4>2, RedirectionMasked
      <3> QED BY ZenonT(60), <3>1, <3>2
    <2> QED BY <2>1, <2>2 DEF Quiet
  <1>5. CASE SetTimer
    <2>1. timer'.vector = 32
      BY <1>5 DEF SetTimer
    <2> QED BY <1>5, <2>1 DEF Quiet, SetTimer
  <1> QED BY <1>1, <1>2, <1>3, <1>4, <1>5 DEF ApicStep

\* Nothing else writes to an APIC or to the legacy controllers.
LEMMA QuietStep == Quiet /\ [Next]_vars => Quiet'
  <1> SUFFICES ASSUME Quiet, [Next]_vars PROVE Quiet'
    OBVIOUS
  <1>1. CASE Fadt
    BY <1>1 DEF Quiet, Fadt, FindFadt, Find
  <1>2. CASE Apic
    BY <1>2, ApicQuiet DEF Apic
  <1>3. CASE HpetTick
    BY <1>3 DEF Quiet, HpetTick
  <1>4. CASE UNCHANGED routing
    BY <1>4 DEF Quiet, routing
  <1> QED
    BY <1>1, <1>2, <1>3, <1>4 DEF Next, Gs, Interrupt, Exception, Yield, vars

LEMMA QuietInit == Init => Quiet
  <1> SUFFICES ASSUME Init PROVE Quiet
    OBVIOUS
  <1>1. timer = [period |-> 0, vector |-> 0] /\ pic = 0 /\ redirection = [x \in {} |-> {}]
    BY DEF Init, RoutingInit
  <1> QED BY <1>1 DEF Quiet

(***************************************************************************)
(* On every firmware only the timer of apic_timer_init interrupts: the     *)
(* pins that ioapic_set_irq_redirection writes stay masked, and the legacy *)
(* controllers are out of the way of the exceptions.                       *)
(***************************************************************************)
THEOREM OnlyTimerInterrupts == Spec => []OnlyTimer
  <1>1. Quiet => OnlyTimer
    BY DEF Quiet, OnlyTimer, Firing
  <1> QED BY <1>1, QuietInit, QuietStep, PTL DEF Spec

-----------------------------------------------------------------------------
(* Induction over the natural numbers.                                     *)

Below == {p \in Nat \X Nat : p[1] < p[2]}

\* Every non-empty set of natural numbers has a least element.
LEMMA LeastNumber ==
  ASSUME NEW S \in SUBSET Nat, S # {}
  PROVE  \E n \in S : \A m \in S : n <= m
  <1>1. OpToRel(<, Nat) = Below
    BY DEF OpToRel, Below
  <1>2. IsWellFoundedOn(Below, Nat)
    BY Zenon, <1>1, NatLessThanWellFounded
  <1>3. PICK n \in S : \A m \in S : ~ (<<m, n>> \in Below)
    BY Zenon, <1>2, WFMin
  <1>4. \A m \in S : ~(m < n)
    BY Zenon, <1>3 DEF Below
  <1> QED BY <1>4

\* Induction, for a property given as the set of numbers that have it.
LEMMA Induction ==
  ASSUME NEW S, 0 \in S, \A n \in Nat : n \in S => n + 1 \in S
  PROVE  Nat \subseteq S
  <1> SUFFICES ASSUME Nat \ S # {} PROVE FALSE
    BY Zenon
  <1>1. PICK n \in Nat \ S : \A m \in Nat \ S : n <= m
    BY Zenon, LeastNumber
  <1>2. n # 0 /\ n - 1 \in Nat /\ n - 1 + 1 = n
    BY <1>1
  <1>3. n - 1 \in S
    BY <1>1, <1>2
  <1> QED BY <1>1, <1>2, <1>3

\* The least element that Min chooses.
LEMMA MinLeast ==
  ASSUME NEW S \in SUBSET Nat, S # {}
  PROVE  Min(S) \in S /\ \A m \in S : Min(S) <= m
  BY Zenon, LeastNumber DEF Min

LEMMA MinUnique ==
  ASSUME NEW S \in SUBSET Nat, NEW n \in S, \A m \in S : n <= m
  PROVE  Min(S) = n
  <1>1. S # {}
    BY Zenon
  <1>2. Min(S) \in S /\ Min(S) <= n /\ n <= Min(S)
    BY Zenon, <1>1, MinLeast
  <1>3. Min(S) \in Nat /\ n \in Nat
    BY Zenon, <1>2
  <1> QED BY <1>2, <1>3

\* g says which of the first n numbers are taken by a number before them that
\* is not, when f maps the numbers.
Takes(f, n, g) ==
  \A q \in 0 .. n - 1 : g[q] <=> \E r \in 0 .. q - 1 : f[r] = q /\ ~g[r]

LEMMA DisplacedExists ==
  ASSUME NEW f
  PROVE  \A n \in Nat : \E g \in [Nat -> BOOLEAN] : Takes(f, n, g)
  <1> DEFINE S == {n \in Nat : \E g \in [Nat -> BOOLEAN] : Takes(f, n, g)}
  <1>1. 0 \in S
    <2>1. [n \in Nat |-> TRUE] \in [Nat -> BOOLEAN] /\ 0 .. 0 - 1 = {}
      OBVIOUS
    <2> QED BY Zenon, <2>1 DEF Takes
  <1>2. ASSUME NEW n \in Nat, n \in S PROVE n + 1 \in S
    <2>1. PICK g \in [Nat -> BOOLEAN] : Takes(f, n, g)
      BY Zenon, <1>2
    <2> DEFINE b == \E r \in 0 .. n - 1 : f[r] = n /\ ~g[r]
               h == [g EXCEPT ![n] = b]
    <2>2. h \in [Nat -> BOOLEAN] /\ h[n] = b /\ \A q \in Nat : q # n => h[q] = g[q]
      BY Zenon
    <2> HIDE DEF h
    <2>3. ASSUME NEW q \in 0 .. (n + 1) - 1 PROVE h[q] <=> \E r \in 0 .. q - 1 : f[r] = q /\ ~h[r]
      <3>1. \A r \in 0 .. q - 1 : h[r] = g[r]
        BY <2>2
      <3>2. CASE q = n
        BY Zenon, <2>2, <3>1, <3>2
      <3>3. CASE q # n
        <4>1. q \in 0 .. n - 1 /\ q \in Nat
          BY <3>3
        <4> QED BY Zenon, <2>1, <2>2, <3>1, <3>3, <4>1 DEF Takes
      <3> QED BY Zenon, <3>2, <3>3
    <2>5. Takes(f, n + 1, h)
      BY Zenon, <2>3 DEF Takes
    <2> QED BY <2>2, <2>5
  <1> HIDE DEF S
  <1>3. Nat \subseteq S
    BY Zenon, <1>1, <1>2, Induction
  <1> QED BY Zenon, <1>3 DEF S

\* The interrupts that are left out are defined from the first one on.
LEMMA DisplacedFrom ==
  \A q \in Lines : Displaced[q] <=> \E r \in 0 .. q - 1 : Gsi(r) = q /\ ~Displaced[r]
  <1>0. PICK f : f = [n \in Nat |-> Gsi(n)]
    BY Zenon
  <1>n. PICK n \in Nat : n = 16
    OBVIOUS
  <1>1. PICK g \in [Nat -> BOOLEAN] : Takes(f, n, g)
    BY Zenon, DisplacedExists
  <1> DEFINE h == [q \in Lines |-> g[q]]
  <1>2. /\ Lines = 0 .. n - 1 /\ Lines \subseteq Nat
        /\ \A q \in Lines : 0 .. q - 1 \subseteq Lines
    BY <1>n DEF Lines
  <1>3. h = [q \in Lines |-> \E r \in 0 .. q - 1 : Gsi(r) = q /\ ~h[r]]
    <2>1. ASSUME NEW q \in Lines
          PROVE  g[q] = \E r \in 0 .. q - 1 : Gsi(r) = q /\ ~h[r]
      <3>1. \A r \in 0 .. q - 1 : h[r] = g[r] /\ f[r] = Gsi(r)
        BY Zenon, <1>0, <1>2
      <3>2. g[q] \in BOOLEAN
        BY Zenon, <1>2
      <3>3. g[q] <=> \E r \in 0 .. q - 1 : f[r] = q /\ ~g[r]
        BY Zenon, <1>1, <1>2 DEF Takes
      <3>4. g[q] <=> \E r \in 0 .. q - 1 : Gsi(r) = q /\ ~h[r]
        BY Zenon, <3>1, <3>3
      <3> QED BY Zenon, <3>2, <3>4
    <2> QED BY Zenon, <2>1
  <1> HIDE DEF h
  <1>4. Displaced = [q \in Lines |-> \E r \in 0 .. q - 1 : Gsi(r) = q /\ ~Displaced[r]]
    BY Zenon, <1>3 DEF Displaced
  <1> QED BY Zenon, <1>4

-----------------------------------------------------------------------------
(* Reading the MADT.                                                       *)

\* g[k] is what the first k of the sequences e[1], e[2] ... make together.
Joins(e, n, g) == g[0] = <<>> /\ \A k \in 1 .. n : g[k] = g[k - 1] \o e[k]

LEMMA JoinsExists ==
  ASSUME NEW e \in [Nat -> Seq(Nat)]
  PROVE  \A n \in Nat : \E g \in [Nat -> Seq(Nat)] : Joins(e, n, g)
  <1> DEFINE S == {n \in Nat : \E g \in [Nat -> Seq(Nat)] : Joins(e, n, g)}
  <1>1. 0 \in S
    <2> DEFINE g == [n \in Nat |-> <<>>]
    <2>1. g \in [Nat -> Seq(Nat)] /\ g[0] = <<>> /\ 1 .. 0 = {}
      OBVIOUS
    <2> HIDE DEF g
    <2>2. Joins(e, 0, g)
      BY Zenon, <2>1 DEF Joins
    <2> QED BY <2>1, <2>2
  <1>2. ASSUME NEW n \in Nat, n \in S PROVE n + 1 \in S
    <2>1. PICK g \in [Nat -> Seq(Nat)] : Joins(e, n, g)
      BY Zenon, <1>2
    <2> DEFINE h == [g EXCEPT ![n + 1] = g[n] \o e[n + 1]]
    <2>2. g[n] \o e[n + 1] \in Seq(Nat) /\ n + 1 \in Nat
      OBVIOUS
    <2>3. /\ h \in [Nat -> Seq(Nat)] /\ h[n + 1] = g[n] \o e[n + 1]
          /\ \A k \in Nat : k # n + 1 => h[k] = g[k]
      BY Zenon, <2>2
    <2> HIDE DEF h
    <2>4. h[0] = <<>>
      BY <2>1, <2>3 DEF Joins
    <2>5. ASSUME NEW k \in 1 .. (n + 1) PROVE h[k] = h[k - 1] \o e[k]
      <3>1. h[k - 1] = g[k - 1]
        BY <2>3
      <3>2. CASE k = n + 1
        <4>1. k - 1 = n
          BY <3>2
        <4> QED BY Zenon, <2>3, <3>1, <3>2, <4>1
      <3>3. CASE k # n + 1
        <4>1. k \in 1 .. n /\ k \in Nat
          BY <3>3
        <4> QED BY Zenon, <2>1, <2>3, <3>1, <3>3, <4>1 DEF Joins
      <3> QED BY Zenon, <3>2, <3>3
    <2>6. Joins(e, n + 1, h)
      BY Zenon, <2>4, <2>5 DEF Joins
    <2> QED BY Zenon, <2>2, <2>3, <2>6
  <1> HIDE DEF S
  <1>3. Nat \subseteq S
    BY Zenon, <1>1, <1>2, Induction
  <1> QED BY Zenon, <1>3 DEF S

\* An entry of the MADT, as FirmwareAssumption has it.
LEMMA EntryFields ==
  ASSUME firmware \in Firmwares
  PROVE  /\ Len(madt) \in Nat /\ DOMAIN madt = 1 .. Len(madt)
         /\ \A k \in DOMAIN madt :
              /\ madt[k].type \in Nat
              /\ madt[k].size \in Nat /\ madt[k].size - 3 \in Nat
              /\ madt[k].type = 1 => madt[k].base \in Nat /\ madt[k].last \in Nat
              /\ madt[k].type = 2 => madt[k].irq \in Nat /\ madt[k].gsi \in Nat
              /\ madt[k].type = 2 => madt[k].low \in BOOLEAN /\ madt[k].level \in BOOLEAN
  <1>1. Len(madt) \in Nat /\ DOMAIN madt = 1 .. Len(madt)
    BY Zenon, FirmwareAssumption DEF madt
  <1>2. ASSUME NEW k \in DOMAIN madt
        PROVE  /\ madt[k].type \in Nat
               /\ madt[k].size \in Nat \ 0 .. 2
               /\ madt[k].type = 1 => madt[k].base \in Nat /\ madt[k].last \in Nat
               /\ madt[k].type = 2 => madt[k].irq \in Nat /\ madt[k].gsi \in Nat
               /\ madt[k].type = 2 => madt[k].low \in BOOLEAN /\ madt[k].level \in BOOLEAN
    BY Zenon, FirmwareAssumption DEF madt
  <1>3. \A n \in Nat \ 0 .. 2 : n \in Nat /\ n - 3 \in Nat
    OBVIOUS
  <1> QED BY Zenon, <1>1, <1>2, <1>3

\* What a concatenation consists of.
LEMMA ConcatParts ==
  ASSUME NEW p \in Seq(Nat), NEW q \in Seq(Nat)
  PROVE  /\ p \o q \in Seq(Nat)
         /\ Len(p) \in Nat /\ Len(q) \in Nat /\ Len(p \o q) = Len(p) + Len(q)
         /\ \A b \in 1 .. Len(p) : (p \o q)[b] = p[b]
         /\ \A b \in 1 .. Len(q) : (p \o q)[Len(p) + b] = q[b]
  OBVIOUS

\* The bytes of an entry begin with its type, its size and its place.
LEMMA EntryBytesAre ==
  ASSUME firmware \in Firmwares, NEW k \in DOMAIN madt
  PROVE  /\ EntryBytes(k) \in Seq(Nat) /\ Len(EntryBytes(k)) = madt[k].size
         /\ EntryBytes(k)[1] = madt[k].type
         /\ EntryBytes(k)[2] = madt[k].size
         /\ EntryBytes(k)[3] = k
  <1> DEFINE head == <<madt[k].type, madt[k].size, k>>
             n == madt[k].size - 3
             tail == [b \in 1 .. n |-> 0]
  <1>1. madt[k].type \in Nat /\ madt[k].size \in Nat /\ n \in Nat /\ k \in Nat
    BY EntryFields
  <1>2. head \in Seq(Nat) /\ Len(head) = 3
    BY <1>1
  <1> HIDE DEF n
  <1>3. tail \in Seq(Nat) /\ Len(tail) = n
    BY <1>1
  <1>4. head[1] = madt[k].type /\ head[2] = madt[k].size /\ head[3] = k
    OBVIOUS
  <1>5. EntryBytes(k) = head \o tail
    BY Zenon DEF EntryBytes, n
  <1> HIDE DEF head, tail
  <1>6. /\ head \o tail \in Seq(Nat) /\ Len(head \o tail) = 3 + n
        /\ \A b \in 1 .. 3 : (head \o tail)[b] = head[b]
    <2>1. /\ head \o tail \in Seq(Nat) /\ Len(head \o tail) = Len(head) + Len(tail)
          /\ \A b \in 1 .. Len(head) : (head \o tail)[b] = head[b]
      BY Zenon, <1>2, <1>3, ConcatParts
    <2> QED BY Zenon, <1>2, <1>3, <2>1
  <1>7. 3 + n = madt[k].size
    BY <1>1 DEF n
  <1>8. (head \o tail)[1] = head[1] /\ (head \o tail)[2] = head[2] /\ (head \o tail)[3] = head[3]
    <2>1. 1 \in 1 .. 3 /\ 2 \in 1 .. 3 /\ 3 \in 1 .. 3
      OBVIOUS
    <2> QED BY Zenon, <1>6, <2>1
  <1> QED BY Zenon, <1>4, <1>5, <1>6, <1>7, <1>8

\* The bytes of the first entries, one more at a time.
LEMMA FirstBytesAre ==
  ASSUME firmware \in Firmwares
  PROVE  /\ FirstBytes \in [0 .. Len(madt) -> Seq(Nat)]
         /\ FirstBytes[0] = <<>>
         /\ \A k \in 1 .. Len(madt) : FirstBytes[k] = FirstBytes[k - 1] \o EntryBytes(k)
  <1>1. PICK e : e = [k \in Nat |-> IF k \in DOMAIN madt THEN EntryBytes(k) ELSE <<>>]
    BY Zenon
  <1>2. e \in [Nat -> Seq(Nat)]
    <2>1. <<>> \in Seq(Nat)
      OBVIOUS
    <2> QED BY Zenon, <1>1, <2>1, EntryBytesAre
  <1>3. PICK n \in Nat : n = Len(madt) /\ DOMAIN madt = 1 .. n
    BY Zenon, EntryFields
  <1>4. PICK g \in [Nat -> Seq(Nat)] : Joins(e, n, g)
    BY Zenon, <1>2, JoinsExists
  <1> DEFINE h == [k \in 0 .. n |-> g[k]]
  <1>5. /\ 0 \in 0 .. n /\ 0 .. n \subseteq Nat /\ 1 .. n \subseteq Nat
        /\ \A k \in 0 .. n : k # 0 => k \in 1 .. n /\ k - 1 \in 0 .. n
        /\ \A k \in 1 .. n : k \in 0 .. n /\ k # 0
    OBVIOUS
  <1>6. h \in [0 .. n -> Seq(Nat)] /\ \A k \in 0 .. n : h[k] = g[k]
    BY Zenon, <1>5
  <1>7. \A k \in 1 .. n : e[k] = EntryBytes(k)
    BY Zenon, <1>1, <1>3, <1>5
  <1> DEFINE Rhs(x, k) == IF k = 0 THEN <<>> ELSE x[k - 1] \o EntryBytes(k)
  <1>8. h = [k \in 0 .. n |-> Rhs(h, k)]
    <2>1. ASSUME NEW k \in 0 .. n PROVE g[k] = Rhs(h, k)
      <3>1. CASE k = 0
        BY Zenon, <1>4, <3>1 DEF Joins
      <3>2. CASE k # 0
        <4> HIDE DEF h
        <4>1. g[k] = g[k - 1] \o e[k] /\ h[k - 1] = g[k - 1] /\ e[k] = EntryBytes(k)
          BY Zenon, <1>4, <1>5, <1>6, <1>7, <3>2 DEF Joins
        <4> QED BY Zenon, <3>2, <4>1
      <3> QED BY Zenon, <3>1, <3>2
    <2> QED BY Zenon, <2>1
  <1> HIDE DEF h
  <1>9. FirstBytes = [k \in 0 .. n |-> IF k = 0 THEN <<>> ELSE FirstBytes[k - 1] \o EntryBytes(k)]
    BY Zenon, <1>3, <1>8 DEF FirstBytes
  <1>10. /\ DOMAIN FirstBytes = 0 .. n /\ FirstBytes[0] = <<>>
         /\ \A k \in 1 .. n : FirstBytes[k] = FirstBytes[k - 1] \o EntryBytes(k)
    BY Zenon, <1>5, <1>9
  <1> DEFINE S == {k \in Nat : k <= n => FirstBytes[k] \in Seq(Nat)}
  <1>11. 0 \in S
    <2>1. 0 \in Nat /\ <<>> \in Seq(Nat)
      OBVIOUS
    <2> QED BY Zenon, <1>10, <2>1
  <1>12. ASSUME NEW k \in Nat, k \in S PROVE k + 1 \in S
    <2>1. CASE k + 1 <= n
      <3>1. FirstBytes[k] \in Seq(Nat) /\ k + 1 \in 1 .. n /\ (k + 1) - 1 = k
        BY <1>12, <2>1
      <3>2. FirstBytes[k + 1] = FirstBytes[k] \o EntryBytes(k + 1)
        BY Zenon, <1>10, <3>1
      <3>3. EntryBytes(k + 1) \in Seq(Nat)
        BY Zenon, <1>3, <3>1, EntryBytesAre
      <3>4. FirstBytes[k + 1] \in Seq(Nat)
        BY <3>1, <3>2, <3>3
      <3> QED BY <3>4
    <2>2. CASE ~(k + 1 <= n)
      BY <2>2
    <2> QED BY <2>1, <2>2
  <1> HIDE DEF S
  <1>13. Nat \subseteq S
    BY Zenon, <1>11, <1>12, Induction
  <1>14. \A k \in 0 .. n : FirstBytes[k] \in Seq(Nat)
    BY <1>13 DEF S
  <1>15. FirstBytes = [k \in 0 .. n |-> FirstBytes[k]]
    BY Zenon, <1>9
  <1> QED BY Zenon, <1>3, <1>10, <1>14, <1>15

\* The bytes of the first entries stay where they are when entries follow.
LEMMA BytesBegin ==
  ASSUME firmware \in Firmwares, NEW k \in 0 .. Len(madt)
  PROVE  /\ Len(FirstBytes[k]) <= Len(Bytes)
         /\ \A b \in 1 .. Len(FirstBytes[k]) : Bytes[b] = FirstBytes[k][b]
  <1> DEFINE n == Len(madt)
             p == FirstBytes[k]
             Begins(q) == Len(p) <= Len(q) /\ \A b \in 1 .. Len(p) : q[b] = p[b]
             S == {d \in Nat : k + d <= n => Begins(FirstBytes[k + d])}
  <1>1. n \in Nat /\ k \in Nat /\ k <= n /\ k + 0 = k /\ n - k \in Nat /\ k + (n - k) = n
    BY EntryFields
  <1>2. p \in Seq(Nat) /\ Len(p) \in Nat
    <2>1. p \in Seq(Nat)
      BY Zenon, FirstBytesAre
    <2> QED BY <2>1
  <1>3. 0 \in S
    <2>1. Begins(p)
      BY <1>2
    <2>2. Begins(FirstBytes[k + 0])
      BY Zenon, <1>1, <2>1
    <2> HIDE DEF Begins
    <2> QED BY <2>2
  <1>4. ASSUME NEW d \in Nat, d \in S PROVE d + 1 \in S
    <2> SUFFICES ASSUME k + (d + 1) <= n PROVE Begins(FirstBytes[k + (d + 1)])
      <3> HIDE DEF Begins
      <3> QED OBVIOUS
    <2>1. /\ k + d <= n /\ k + d \in 0 .. n /\ k + (d + 1) \in 1 .. n
          /\ (k + (d + 1)) - 1 = k + d
      BY <1>1
    <2>2. Begins(FirstBytes[k + d])
      <3> HIDE DEF Begins
      <3> QED BY <1>4, <2>1
    <2> DEFINE q == FirstBytes[k + d]
               e == EntryBytes(k + (d + 1))
    <2>3. q \in Seq(Nat) /\ e \in Seq(Nat) /\ FirstBytes[k + (d + 1)] = q \o e
      <3>1. DOMAIN madt = 1 .. n
        BY Zenon, EntryFields
      <3> QED BY Zenon, <2>1, <3>1, FirstBytesAre, EntryBytesAre
    <2> HIDE DEF q, e, p
    <2>4. /\ Len(q \o e) = Len(q) + Len(e) /\ Len(q) \in Nat /\ Len(e) \in Nat
          /\ \A b \in 1 .. Len(q) : (q \o e)[b] = q[b]
      BY Zenon, <2>3, ConcatParts
    <2>5. Len(p) <= Len(q) /\ \A b \in 1 .. Len(p) : q[b] = p[b]
      BY Zenon, <2>2 DEF q
    <2>6. Len(p) <= Len(q \o e) /\ \A b \in 1 .. Len(p) : b \in 1 .. Len(q)
      BY <1>2, <2>4, <2>5
    <2>7. Begins(q \o e)
      BY Zenon, <2>4, <2>5, <2>6
    <2> HIDE DEF Begins
    <2> QED BY Zenon, <2>3, <2>7
  <1> HIDE DEF S, Begins
  <1>5. Nat \subseteq S
    BY Zenon, <1>3, <1>4, Induction
  <1>6. Begins(FirstBytes[k + (n - k)])
    <2>1. k + (n - k) <= n
      BY <1>1
    <2>2. n - k \in S
      BY Zenon, <1>1, <1>5
    <2> QED BY Zenon, <2>1, <2>2 DEF S
  <1>7. Begins(Bytes)
    BY Zenon, <1>1, <1>6 DEF Bytes
  <1> QED BY Zenon, <1>7 DEF Begins

\* The loop finds the next entry behind those that it has read.
LEMMA NextEntry ==
  ASSUME firmware \in Firmwares, NEW k \in 0 .. Len(madt), i = Len(FirstBytes[k])
  PROVE  /\ i < Len(Bytes) <=> k # Len(madt)
         /\ k # Len(madt) => /\ Bytes[i + 1] = madt[k + 1].type
                             /\ Bytes[i + 3] = k + 1
                             /\ AfterEntry(i, Bytes[i + 2]) = Len(FirstBytes[k + 1])
  <1>1. Len(madt) \in Nat /\ DOMAIN madt = 1 .. Len(madt)
    BY Zenon, EntryFields
  <1>2. CASE k = Len(madt)
    <2>1. i = Len(Bytes) /\ i \in Nat
      <3>1. FirstBytes[k] \in Seq(Nat)
        BY Zenon, FirstBytesAre
      <3> QED BY <1>2, <3>1 DEF Bytes
    <2> QED BY <1>2, <2>1
  <1>3. CASE k # Len(madt)
    <2> DEFINE q == FirstBytes[k]
               e == EntryBytes(k + 1)
    <2>1. k + 1 \in 1 .. Len(madt) /\ (k + 1) - 1 = k /\ k + 1 \in 0 .. Len(madt)
      <3> DEFINE n == Len(madt)
      <3>1. n \in Nat /\ k \in 0 .. n /\ k # n
        BY Zenon, <1>1, <1>3
      <3> HIDE DEF n
      <3>2. k + 1 \in 1 .. n /\ (k + 1) - 1 = k /\ k + 1 \in 0 .. n
        BY <3>1
      <3> QED BY Zenon, <3>2 DEF n
    <2>2. /\ q \in Seq(Nat) /\ e \in Seq(Nat) /\ FirstBytes[k + 1] = q \o e
          /\ Len(e) = madt[k + 1].size
          /\ e[1] = madt[k + 1].type /\ e[2] = madt[k + 1].size /\ e[3] = k + 1
      BY Zenon, <1>1, <2>1, FirstBytesAre, EntryBytesAre
    <2>3. /\ Len(q \o e) <= Len(Bytes)
          /\ \A b \in 1 .. Len(q \o e) : Bytes[b] = (q \o e)[b]
      BY Zenon, <2>1, <2>2, BytesBegin
    <2>4. madt[k + 1].size \in Nat /\ madt[k + 1].size - 3 \in Nat
      BY Zenon, <1>1, <2>1, EntryFields
    <2>5. i = Len(q)
      BY Zenon
    <2> HIDE DEF q, e
    <2>6. /\ Len(q \o e) = Len(q) + Len(e) /\ Len(q) \in Nat /\ Len(e) \in Nat
          /\ \A b \in 1 .. Len(e) : (q \o e)[Len(q) + b] = e[b]
      BY Zenon, <2>2, ConcatParts
    <2>7. /\ i + 1 \in 1 .. Len(q \o e) /\ i + 2 \in 1 .. Len(q \o e)
          /\ i + 3 \in 1 .. Len(q \o e)
          /\ 1 \in 1 .. Len(e) /\ 2 \in 1 .. Len(e) /\ 3 \in 1 .. Len(e)
      <3> DEFINE a == Len(q)
                 b == Len(e)
                 c == Len(q \o e)
      <3>1. i = a /\ a \in Nat /\ b \in Nat /\ b - 3 \in Nat /\ c = a + b
        BY Zenon, <2>2, <2>4, <2>5, <2>6
      <3> HIDE DEF a, b, c
      <3>2. /\ i + 1 \in 1 .. c /\ i + 2 \in 1 .. c /\ i + 3 \in 1 .. c
            /\ 1 \in 1 .. b /\ 2 \in 1 .. b /\ 3 \in 1 .. b
        BY <3>1
      <3> QED BY Zenon, <3>2 DEF b, c
    <2>8. Bytes[i + 1] = e[1] /\ Bytes[i + 2] = e[2] /\ Bytes[i + 3] = e[3]
      <3>1. Bytes[i + 1] = (q \o e)[i + 1] /\ Bytes[i + 2] = (q \o e)[i + 2]
            /\ Bytes[i + 3] = (q \o e)[i + 3]
        BY Zenon, <2>3, <2>7
      <3>2. (q \o e)[i + 1] = e[1] /\ (q \o e)[i + 2] = e[2] /\ (q \o e)[i + 3] = e[3]
        BY Zenon, <2>5, <2>6, <2>7
      <3> QED BY Zenon, <3>1, <3>2
    <2>9. Len(Bytes) \in Nat
      <3>1. Bytes \in Seq(Nat)
        <4>1. Len(madt) \in 0 .. Len(madt)
          BY <1>1
        <4> QED BY Zenon, <4>1, FirstBytesAre DEF Bytes
      <3> QED BY <3>1
    <2>10. i < Len(Bytes)
      BY <2>3, <2>5, <2>6, <2>7, <2>9
    <2>11. AfterEntry(i, Bytes[i + 2]) = Len(FirstBytes[k + 1])
      <3> DEFINE a == Len(q)
                 b == Len(e)
      <3>1. i = a /\ a \in Nat /\ b \in Nat /\ Bytes[i + 2] = b /\ Len(FirstBytes[k + 1]) = a + b
        BY Zenon, <2>2, <2>5, <2>6, <2>8
      <3> HIDE DEF a, b
      <3> QED BY <3>1 DEF AfterEntry
    <2> QED BY Zenon, <1>3, <2>2, <2>8, <2>10, <2>11
  <1> QED BY Zenon, <1>2, <1>3

\* l lists the entries of type t among the first k of m, in their order.
Enumerates(m, l, t, k) ==
  /\ l \in Seq(1 .. k)
  /\ \A a \in DOMAIN l : m[l[a]].type = t
  /\ \A j \in 1 .. k : m[j].type = t => \E a \in DOMAIN l : l[a] = j
  /\ \A a, b \in DOMAIN l : a < b => l[a] < l[b]

LEMMA EnumeratesNone ==
  ASSUME NEW m, NEW t
  PROVE  Enumerates(m, <<>>, t, 0)
  BY DEF Enumerates

\* A list after one more entry.
LEMMA EnumeratesNext ==
  ASSUME NEW m, NEW l, NEW t, NEW k \in Nat, Enumerates(m, l, t, k)
  PROVE  /\ m[k + 1].type = t => Enumerates(m, Append(l, k + 1), t, k + 1)
         /\ m[k + 1].type # t => Enumerates(m, l, t, k + 1)
  <1>1. /\ l \in Seq(1 .. k) /\ l \in Seq(1 .. (k + 1))
        /\ Len(l) \in Nat /\ DOMAIN l = 1 .. Len(l)
        /\ \A a \in DOMAIN l : l[a] \in 1 .. k
    BY DEF Enumerates
  <1>2. \A j \in 1 .. (k + 1) : j \in 1 .. k \/ j = k + 1
    OBVIOUS
  <1>3. CASE m[k + 1].type # t
    BY Zenon, <1>1, <1>2, <1>3 DEF Enumerates
  <1>4. CASE m[k + 1].type = t
    <2> DEFINE n == Append(l, k + 1)
    <2>1. /\ n \in Seq(1 .. (k + 1)) /\ DOMAIN n = 1 .. (Len(l) + 1)
          /\ \A a \in 1 .. Len(l) : n[a] = l[a]
          /\ n[Len(l) + 1] = k + 1
      BY <1>1
    <2> HIDE DEF n
    <2>2. /\ \A a \in DOMAIN n : a \in DOMAIN l \/ a = Len(l) + 1
          /\ \A a \in DOMAIN l : a \in DOMAIN n /\ n[a] = l[a]
          /\ Len(l) + 1 \in DOMAIN n
      BY <1>1, <2>1
    <2>3. ASSUME NEW a \in DOMAIN n, NEW b \in DOMAIN n, a < b
          PROVE  n[a] < n[b]
      <3>1. a \in DOMAIN l
        BY <1>1, <2>1, <2>3
      <3>2. CASE b \in DOMAIN l
        BY Zenon, <2>2, <2>3, <3>1, <3>2 DEF Enumerates
      <3>3. CASE b = Len(l) + 1
        <4>1. n[a] \in 1 .. k /\ n[b] = k + 1
          BY Zenon, <1>1, <2>1, <2>2, <3>1, <3>3
        <4> QED BY <4>1
      <3> QED BY Zenon, <2>2, <3>2, <3>3
    <2>4. \A a \in DOMAIN n : m[n[a]].type = t
      BY ZenonT(40), <1>4, <2>1, <2>2 DEF Enumerates
    <2>5. \A j \in 1 .. (k + 1) : m[j].type = t => \E a \in DOMAIN n : n[a] = j
      BY Zenon, <1>2, <2>1, <2>2 DEF Enumerates
    <2>6. Enumerates(m, n, t, k + 1)
      BY Zenon, <2>1, <2>3, <2>4, <2>5 DEF Enumerates
    <2> QED BY Zenon, <1>4, <2>6 DEF n
  <1> QED BY Zenon, <1>3, <1>4

\* The first entry of a kind, found through a list.
Hits(l, P) == {a \in DOMAIN l : l[a] \in P}

OfType(m, k, t, P) == {j \in 1 .. k : m[j].type = t /\ j \in P}

LEMMA FirstListed ==
  ASSUME NEW m, NEW l, NEW t, NEW k \in Nat, Enumerates(m, l, t, k), NEW P
  PROVE  /\ Hits(l, P) = {} <=> OfType(m, k, t, P) = {}
         /\ OfType(m, k, t, P) # {} => l[Min(Hits(l, P))] = Min(OfType(m, k, t, P))
  <1> DEFINE F == {a \in DOMAIN l : l[a] \in P}
             T == {j \in 1 .. k : m[j].type = t /\ j \in P}
  <1>1. /\ DOMAIN l \subseteq Nat /\ 1 .. k \subseteq Nat
        /\ \A a \in DOMAIN l : l[a] \in 1 .. k
    BY DEF Enumerates
  <1>2. F \in SUBSET Nat /\ T \in SUBSET Nat
    BY Zenon, <1>1
  <1>3. \A a \in F : l[a] \in T
    BY Zenon, <1>1 DEF Enumerates
  <1>4. \A j \in T : \E a \in F : l[a] = j
    BY Zenon DEF Enumerates
  <1>5. ASSUME T # {} PROVE l[Min(F)] = Min(T)
    <2>1. F # {}
      BY Zenon, <1>4, <1>5
    <2>2. Min(F) \in F /\ \A a \in F : Min(F) <= a
      BY Zenon, <1>2, <2>1, MinLeast
    <2>3. ASSUME NEW j \in T PROVE l[Min(F)] <= j
      <3>1. PICK a \in F : l[a] = j
        BY Zenon, <1>4
      <3>2. Min(F) = a \/ Min(F) < a
        <4>1. Min(F) \in Nat /\ a \in Nat /\ Min(F) <= a
          BY Zenon, <1>2, <2>2, <3>1
        <4> QED BY <4>1
      <3>3. l[Min(F)] = j \/ l[Min(F)] < j
        BY Zenon, <2>2, <3>1, <3>2 DEF Enumerates
      <3>4. l[Min(F)] \in Nat /\ j \in Nat
        BY Zenon, <1>2, <1>3, <2>2
      <3> QED BY <3>3, <3>4
    <2>4. l[Min(F)] \in T
      BY Zenon, <1>3, <2>2
    <2> HIDE DEF F, T
    <2>5. Min(T) = l[Min(F)]
      BY Zenon, <1>2, <2>3, <2>4, MinUnique
    <2> QED BY Zenon, <2>5
  <1>6. F = {} <=> T = {}
    BY Zenon, <1>3, <1>4
  <1> QED BY Zenon, <1>5, <1>6 DEF Hits, OfType

-----------------------------------------------------------------------------
(* Programming the I/O APICs.                                              *)

LEMMA GsiNat ==
  ASSUME firmware \in Firmwares, NEW irq \in Nat
  PROVE  Gsi(irq) \in Nat /\ (Overrides(irq) # {} => Min(Overrides(irq)) \in Overrides(irq))
  <1>1. Overrides(irq) \in SUBSET Nat
    <2>1. DOMAIN madt \subseteq Nat
      BY EntryFields
    <2> QED BY Zenon, <2>1 DEF Overrides
  <1>2. Overrides(irq) # {} => Min(Overrides(irq)) \in Overrides(irq)
    BY Zenon, <1>1, MinLeast
  <1>3. Overrides(irq) # {} => madt[Min(Overrides(irq))].gsi \in Nat
    BY Zenon, <1>2, EntryFields DEF Overrides
  <1> QED BY Zenon, <1>2, <1>3 DEF Gsi

\* The list of overrides leads to the first override of an interrupt.
LEMMA OverrideIs ==
  ASSUME firmware \in Firmwares, Enumerates(madt, lists[2], 2, Len(madt)), NEW irq \in Nat
  PROVE  Override(irq) = IF Overrides(irq) = {} THEN 0 ELSE Min(Overrides(irq))
  <1> DEFINE n == Len(madt)
             P == {j \in 1 .. n : madt[j].irq = irq}
             F == Hits(lists[2], P)
             T == OfType(madt, n, 2, P)
  <1>1. n \in Nat /\ DOMAIN madt = 1 .. n
    BY Zenon, EntryFields
  <1>2. \A a \in DOMAIN lists[2] : lists[2][a] \in 1 .. n
    BY DEF Enumerates
  <1>3. T = Overrides(irq)
    BY Zenon, <1>1 DEF Overrides, OfType
  <1>4. F = {a \in DOMAIN lists[2] : madt[lists[2][a]].irq = irq}
    BY Zenon, <1>2 DEF Hits
  <1>5. (F = {} <=> T = {}) /\ (T # {} => lists[2][Min(F)] = Min(T))
    <2> HIDE DEF P
    <2> QED BY Zenon, <1>1, FirstListed
  <1> HIDE DEF F, T
  <1>6. Override(irq) = IF F = {} THEN 0 ELSE lists[2][Min(F)]
    BY Zenon, <1>4 DEF Override
  <1> QED BY Zenon, <1>3, <1>5, <1>6

\* The list of I/O APICs leads to the first that can take an interrupt.
LEMMA TakerIs ==
  ASSUME firmware \in Firmwares, Enumerates(madt, ioapics, 1, Len(madt)), NEW gsi \in Nat
  PROVE  Taker(gsi) = IF Takers(gsi) = {} THEN 0 ELSE Min(Takers(gsi))
  <1> DEFINE n == Len(madt)
             P == {j \in 1 .. n : gsi <= madt[j].last /\ gsi >= madt[j].base}
             F == Hits(ioapics, P)
             T == OfType(madt, n, 1, P)
  <1>1. n \in Nat /\ DOMAIN madt = 1 .. n
    BY Zenon, EntryFields
  <1>2. \A a \in DOMAIN ioapics : ioapics[a] \in 1 .. n
    BY DEF Enumerates
  <1>3. T = Takers(gsi)
    <2>1. ASSUME NEW j \in 1 .. n, madt[j].type = 1
          PROVE  (gsi <= madt[j].last /\ gsi >= madt[j].base)
                   <=> (gsi \in Pins(j) /\ gsi <= madt[j].last)
      <3> DEFINE b == madt[j].base
                 c == madt[j].last
      <3>1. b \in Nat /\ c \in Nat
        BY Zenon, <1>1, <2>1, EntryFields
      <3> HIDE DEF b, c
      <3>2. (gsi <= c /\ gsi >= b) <=> (gsi \in b .. b + c /\ gsi <= c)
        BY <3>1
      <3> QED BY Zenon, <3>2 DEF b, c, Pins
    <2> QED BY Zenon, <1>1, <2>1 DEF Takers, OfType
  <1>4. F = {a \in DOMAIN ioapics : gsi <= madt[ioapics[a]].last /\ gsi >= madt[ioapics[a]].base}
    BY Zenon, <1>2 DEF Hits
  <1>5. (F = {} <=> T = {}) /\ (T # {} => ioapics[Min(F)] = Min(T))
    <2> HIDE DEF P
    <2> QED BY Zenon, <1>1, FirstListed
  <1> HIDE DEF F, T
  <1>6. Taker(gsi) = IF F = {} THEN 0 ELSE ioapics[Min(F)]
    BY Zenon, <1>4 DEF Taker
  <1> QED BY Zenon, <1>3, <1>5, <1>6

\* Entry e of pin x is what the MADT asks for interrupt irq.
Right(x, e, irq) ==
  /\ x[2] + madt[x[1]].base \in Pins(x[1])
  /\ Gsi(irq) = x[2] + madt[x[1]].base
  /\ e.vector = 32 + irq /\ ~Displaced[irq]
  /\ e.low = Low(irq) /\ e.level = (Level(irq) /\ ~Low(irq))

\* The pin of interrupt irq is written, on the first I/O APIC that can take it.
HasPin(red, irq) ==
  LET k == Min(Takers(Gsi(irq)))
  IN  <<k, Gsi(irq) - madt[k].base>> \in DOMAIN red

\* The first n interrupts are routed.
RoutedBy(red, bitmap, n) ==
  /\ bitmap = {Gsi(q) : q \in {p \in 0 .. n - 1 : ~Displaced[p]}}
  /\ \A x \in DOMAIN red : \E irq \in Lines : Right(x, red[x], irq)
  /\ \A irq \in 0 .. n - 1 : ~Displaced[irq] /\ Takers(Gsi(irq)) # {} => HasPin(red, irq)

Routed(n) == RoutedBy(redirection, irq_bitmap, n)

\* ioapic_set_irq_redirection writes what the MADT asks for.
LEMMA RedirectionRight ==
  ASSUME firmware \in Firmwares, NEW n \in Lines, ~Displaced[n],
         Enumerates(madt, lists[2], 2, Len(madt)), Enumerates(madt, ioapics, 1, Len(madt)),
         SetIrqRedirection(n + 32, n, TRUE)
  PROVE  /\ irq_bitmap' = irq_bitmap \cup {Gsi(n)}
         /\ Takers(Gsi(n)) = {} => redirection' = redirection
         /\ Takers(Gsi(n)) # {} =>
              LET k == Min(Takers(Gsi(n)))
                  pin == <<k, Gsi(n) - madt[k].base>>
              IN  /\ DOMAIN redirection' = DOMAIN redirection \cup {pin}
                  /\ Right(pin, redirection'[pin], n)
                  /\ \A x \in DOMAIN redirection : x # pin => redirection'[x] = redirection[x]
  <1> DEFINE o == Override(n)
             low == o # 0 /\ madt[o].low
             gsi == IF o = 0 THEN n ELSE madt[o].gsi
             entry == [vector |-> n + 32, low |-> low,
                       level |-> o # 0 /\ ~low /\ madt[o].level,
                       mask |-> TRUE, destination |-> Destination]
             taker == Taker(gsi)
             pin == <<taker, IF taker = 0 THEN 0 ELSE gsi - madt[taker].base>>
             new == [x \in DOMAIN redirection \cup {pin} |->
                       IF x = pin THEN entry ELSE redirection[x]]
  <1>0. n \in Nat /\ DOMAIN madt = 1 .. Len(madt) /\ \A k \in DOMAIN madt : k # 0
    BY EntryFields DEF Lines
  <1>1. o = IF Overrides(n) = {} THEN 0 ELSE Min(Overrides(n))
    BY Zenon, <1>0, OverrideIs
  <1>2. Overrides(n) # {} => Min(Overrides(n)) \in DOMAIN madt /\ madt[Min(Overrides(n))].type = 2
    BY Zenon, <1>0, GsiNat DEF Overrides
  <1>3. (o = 0 <=> Overrides(n) = {}) /\ (o # 0 => o = Min(Overrides(n)))
    BY Zenon, <1>0, <1>1, <1>2
  <1>4. gsi = Gsi(n) /\ gsi \in Nat
    BY Zenon, <1>0, <1>3, GsiNat DEF Gsi
  <1>5. entry.low = Low(n) /\ entry.level = (Level(n) /\ ~Low(n)) /\ entry.vector = 32 + n
    <2>1. low <=> Low(n)
      BY Zenon, <1>3 DEF Low
    <2>2. (o # 0 /\ ~low /\ madt[o].level) <=> (Level(n) /\ ~Low(n))
      BY Zenon, <1>3, <2>1 DEF Level
    <2>3. Low(n) \in BOOLEAN /\ (Level(n) /\ ~Low(n)) \in BOOLEAN /\ n + 32 = 32 + n
      BY <1>0 DEF Low
    <2> QED BY <2>1, <2>2, <2>3
  <1>6. taker = IF Takers(gsi) = {} THEN 0 ELSE Min(Takers(gsi))
    BY Zenon, <1>4, TakerIs
  <1>7. Takers(gsi) # {} => taker \in Takers(gsi)
    <2>1. Takers(gsi) \in SUBSET Nat
      <3>1. DOMAIN madt \subseteq Nat
        BY EntryFields
      <3> QED BY Zenon, <3>1 DEF Takers
    <2> HIDE DEF taker
    <2> QED BY Zenon, <1>6, <2>1, MinLeast
  <1>8. Takers(gsi) # {} <=> taker # 0
    BY Zenon, <1>0, <1>6, <1>7 DEF Takers
  <1>9. /\ redirection' = IF taker = 0 THEN redirection ELSE new
        /\ irq_bitmap' = irq_bitmap \cup {gsi}
    BY Zenon DEF SetIrqRedirection
  <1> HIDE DEF o, low, gsi, entry, taker
  <1>10. ASSUME taker # 0
         PROVE  /\ pin = <<taker, gsi - madt[taker].base>>
                /\ DOMAIN new = DOMAIN redirection \cup {pin} /\ new[pin] = entry
                /\ \A x \in DOMAIN redirection : x # pin => new[x] = redirection[x]
    BY Zenon, <1>10
  <1>11. ASSUME taker # 0 PROVE Right(<<taker, gsi - madt[taker].base>>, entry, n)
    <2> DEFINE x == <<taker, gsi - madt[taker].base>>
    <2>1. gsi \in Pins(taker) /\ madt[taker].base \in Nat
      BY Zenon, <1>7, <1>8, <1>11, EntryFields DEF Takers
    <2>2. x[1] = taker /\ x[2] = gsi - madt[taker].base
      OBVIOUS
    <2>3. (gsi - madt[taker].base) + madt[taker].base = gsi
      BY <1>4, <2>1
    <2> HIDE DEF x
    <2>4. Right(x, entry, n)
      BY Zenon, <1>4, <1>5, <2>1, <2>2, <2>3 DEF Right
    <2> QED BY Zenon, <2>4 DEF x
  <1> HIDE DEF new, pin
  <1> QED BY Zenon, <1>4, <1>6, <1>8, <1>9, <1>10, <1>11

\* One more interrupt is routed.
LEMMA RedirectRoutes ==
  ASSUME firmware \in Firmwares, Redirect, Routed(i),
         Enumerates(madt, lists[2], 2, Len(madt)), Enumerates(madt, ioapics, 1, Len(madt))
  PROVE  RoutedBy(redirection', irq_bitmap', i + 1)
  <1>1. i \in Lines /\ i \in Nat /\ (i + 1) - 1 = i
    BY DEF Redirect, Lines
  <1>2. i \in irq_bitmap <=> Displaced[i]
    <2>1. Displaced[i] <=> \E r \in 0 .. i - 1 : Gsi(r) = i /\ ~Displaced[r]
      BY Zenon, <1>1, DisplacedFrom
    <2> QED BY Zenon, <2>1 DEF Routed, RoutedBy
  <1>3. \A q \in 0 .. (i + 1) - 1 : q \in 0 .. i - 1 \/ q = i
    BY <1>1
  <1>4. \A q \in 0 .. i - 1 : q \in 0 .. (i + 1) - 1
    BY <1>1
  <1>5. i \in 0 .. (i + 1) - 1
    BY <1>1
  <1>6. CASE Displaced[i]
    <2>1. redirection' = redirection /\ irq_bitmap' = irq_bitmap
      BY Zenon, <1>2, <1>6 DEF Redirect
    <2>2. irq_bitmap = {Gsi(q) : q \in {p \in 0 .. (i + 1) - 1 : ~Displaced[p]}}
      BY Zenon, <1>3, <1>4, <1>6 DEF Routed, RoutedBy
    <2>3. \A q \in 0 .. (i + 1) - 1 : ~Displaced[q] => q \in 0 .. i - 1
      BY Zenon, <1>3, <1>6
    <2>4. \A q \in 0 .. (i + 1) - 1 : ~Displaced[q] /\ Takers(Gsi(q)) # {} => HasPin(redirection, q)
      BY Zenon, <2>3 DEF Routed, RoutedBy
    <2>5. \A x \in DOMAIN redirection : \E irq \in Lines : Right(x, redirection[x], irq)
      BY Zenon DEF Routed, RoutedBy
    <2> QED BY Zenon, <2>1, <2>2, <2>4, <2>5 DEF RoutedBy
  <1>7. CASE ~Displaced[i]
    <2>1. SetIrqRedirection(i + 32, i, TRUE)
      BY Zenon, <1>2, <1>7 DEF Redirect
    <2> DEFINE k == Min(Takers(Gsi(i)))
               pin == <<k, Gsi(i) - madt[k].base>>
    <2>2. PICK n \in Lines : n = i
      BY Zenon, <1>1
    <2>3. /\ irq_bitmap' = irq_bitmap \cup {Gsi(i)}
          /\ Takers(Gsi(i)) = {} => redirection' = redirection
          /\ Takers(Gsi(i)) # {} =>
               /\ DOMAIN redirection' = DOMAIN redirection \cup {pin}
               /\ Right(pin, redirection'[pin], i)
               /\ \A x \in DOMAIN redirection : x # pin => redirection'[x] = redirection[x]
      <3>1. ~Displaced[n] /\ SetIrqRedirection(n + 32, n, TRUE)
        BY Zenon, <1>7, <2>1, <2>2
      <3> QED BY Zenon, <2>2, <3>1, RedirectionRight
    <2> HIDE DEF pin
    <2>4. irq_bitmap' = {Gsi(q) : q \in {p \in 0 .. (i + 1) - 1 : ~Displaced[p]}}
      <3>1. irq_bitmap = {Gsi(q) : q \in {p \in 0 .. i - 1 : ~Displaced[p]}}
        BY Zenon DEF Routed, RoutedBy
      <3> QED BY Zenon, <1>3, <1>4, <1>5, <1>7, <2>3, <3>1
    <2>5. DOMAIN redirection \subseteq DOMAIN redirection'
      BY Zenon, <2>3
    <2>6. \A x \in DOMAIN redirection' : \E irq \in Lines : Right(x, redirection'[x], irq)
      <3>1. \A x \in DOMAIN redirection : \E irq \in Lines : Right(x, redirection[x], irq)
        BY Zenon DEF Routed, RoutedBy
      <3> QED BY Zenon, <1>1, <2>3, <3>1
    <2>7. ASSUME NEW irq \in 0 .. (i + 1) - 1, ~Displaced[irq], Takers(Gsi(irq)) # {}
          PROVE  HasPin(redirection', irq)
      <3>1. CASE irq = i
        BY Zenon, <2>3, <2>7, <3>1 DEF pin, HasPin
      <3>2. CASE irq \in 0 .. i - 1
        BY Zenon, <2>5, <2>7, <3>2 DEF Routed, RoutedBy, HasPin
      <3> QED BY Zenon, <1>3, <3>1, <3>2
    <2> QED BY Zenon, <2>4, <2>6, <2>7 DEF RoutedBy
  <1> QED BY Zenon, <1>6, <1>7

\* What is said of the firmware stays so.
LEMMA RoutedStays ==
  ASSUME firmware' = firmware, NEW red, NEW bitmap, NEW n, RoutedBy(red, bitmap, n)
  PROVE  RoutedBy(red, bitmap, n)'
  <1>1. madt' = madt
    BY Zenon DEF madt
  <1>2. \A r : Overrides(r)' = Overrides(r)
    BY DEF Overrides, madt
  <1>3. \A r : Gsi(r)' = Gsi(r)
    BY DEF Gsi, Overrides, madt
  <1>4. Displaced' = Displaced
    BY DEF Displaced, Gsi, Overrides, madt
  <1>5. \A g : Takers(g)' = Takers(g)
    BY DEF Takers, Pins, madt
  <1>6. \A r : Low(r)' = Low(r) /\ Level(r)' = Level(r)
    BY DEF Low, Level, Overrides, madt
  <1>7. \A x, e, irq : Right(x, e, irq) => Right(x, e, irq)'
    <2>1. \A k : Pins(k)' = Pins(k)
      BY Zenon, <1>1 DEF Pins
    <2> QED BY ZenonT(40), <1>1, <1>3, <1>4, <1>6, <2>1 DEF Right
  <1>8. \A irq : HasPin(red, irq) => HasPin(red, irq)'
    BY Zenon, <1>1, <1>3, <1>5 DEF HasPin
  <1> QED BY Zenon, <1>3, <1>4, <1>5, <1>7, <1>8 DEF RoutedBy

-----------------------------------------------------------------------------
(* The invariant of the routing.                                           *)

Listed(k) == \A t \in Types : Enumerates(madt, lists[t], t, k)

\* Where the boot core is, and what it has read and written by then.
RoutingInv ==
  /\ firmware \in Firmwares
  /\ step \in {"fadt", "hpet", "madt"} =>
       i = 0 /\ Listed(0) /\ redirection = [x \in {} |-> {}] /\ irq_bitmap = {}
  /\ step = "parse" =>
       /\ \E k \in 0 .. Len(madt) : i = Len(FirstBytes[k]) /\ Listed(k)
       /\ redirection = [x \in {} |-> {}] /\ irq_bitmap = {}
  /\ step = "redirect" =>
       i \in 0 .. 16 /\ Listed(Len(madt)) /\ ioapics = lists[1] /\ Routed(i)
  /\ step \in {"start", "sleep", "done"} /\ i \notin Lines => Routed(16)
  /\ step \in {"start", "sleep", "done"} /\ core = "bsp" /\ Present("APIC") => Listed(Len(madt))

\* A step that reads nothing and writes nothing keeps what was read and written.
LEMMA ListedStays ==
  ASSUME firmware' = firmware, lists' = lists, NEW k, Listed(k)
  PROVE  Listed(k)'
  BY Zenon DEF Listed, madt

LEMMA RoutedKept ==
  ASSUME firmware' = firmware, redirection' = redirection, irq_bitmap' = irq_bitmap,
         NEW n, Routed(n)
  PROVE  Routed(n)'
  <1>1. RoutedBy(redirection, irq_bitmap, n)
    BY Zenon DEF Routed
  <1>2. PICK r, b : r = redirection /\ b = irq_bitmap
    BY Zenon
  <1>3. RoutedBy(r, b, n)'
    BY Zenon, <1>1, <1>2, RoutedStays
  <1>4. r = redirection' /\ b = irq_bitmap'
    BY Zenon, <1>2
  <1> QED BY Zenon, <1>3, <1>4 DEF Routed

LEMMA FindRoutes ==
  ASSUME RoutingInv, FindFadt \/ FindHpet \/ FindMadt, core' = core
  PROVE  RoutingInv'
  <1>1. /\ UNCHANGED <<firmware, i, lists, ioapics, redirection, irq_bitmap>>
        /\ step \in {"fadt", "hpet", "madt"}
        /\ step' \in {"hpet", "madt", "lost"}
             \/ step' = "parse"
             \/ (step' = "start" /\ ~Present("APIC"))
    <2>1. CASE FindFadt
      <3>1. PICK r \in FindSdt("FACP") :
              step' = [found |-> "hpet", null |-> "hpet", crash |-> "lost"][r]
        BY Zenon, <2>1 DEF FindFadt, Find
      <3>2. step' \in {"hpet", "lost"}
        BY <3>1 DEF FindSdt
      <3>3. step = "fadt" /\ UNCHANGED <<firmware, i, lists, ioapics, redirection, irq_bitmap>>
        BY Zenon, <2>1 DEF FindFadt, Find
      <3> QED BY <3>2, <3>3
    <2>2. CASE FindHpet
      <3>1. PICK r \in FindSdt("HPET") :
              step' = [found |-> "madt", null |-> "lost", crash |-> "lost"][r]
        BY Zenon, <2>2 DEF FindHpet, Find
      <3>2. step' \in {"madt", "lost"}
        BY <3>1 DEF FindSdt
      <3>3. step = "hpet" /\ UNCHANGED <<firmware, i, lists, ioapics, redirection, irq_bitmap>>
        BY Zenon, <2>2 DEF FindHpet, Find
      <3> QED BY <3>2, <3>3
    <2>3. CASE FindMadt
      <3>1. PICK r \in FindSdt("APIC") :
              step' = [found |-> "parse", null |-> "start", crash |-> "lost"][r]
        BY Zenon, <2>3 DEF FindMadt, Find
      <3>2. step' \in {"parse", "start", "lost"}
        BY <3>1 DEF FindSdt
      <3>3. step' = "start" => ~Present("APIC")
        BY <3>1 DEF FindSdt
      <3>4. step = "madt" /\ UNCHANGED <<firmware, i, lists, ioapics, redirection, irq_bitmap>>
        BY Zenon, <2>3 DEF FindMadt, Find
      <3> QED BY <3>2, <3>3, <3>4
    <2> QED BY Zenon, <2>1, <2>2, <2>3
  <1>2. /\ firmware \in Firmwares /\ i = 0 /\ Listed(0)
        /\ redirection = [x \in {} |-> {}] /\ irq_bitmap = {}
    BY Zenon, <1>1 DEF RoutingInv
  <1>3. Listed(0)' /\ firmware' \in Firmwares
    BY Zenon, <1>1, <1>2, ListedStays
  <1>4. ASSUME step' \in {"hpet", "madt", "lost"} PROVE RoutingInv'
    BY <1>1, <1>2, <1>3, <1>4 DEF RoutingInv
  <1>5. ASSUME step' = "parse" PROVE RoutingInv'
    <2>1. 0 \in 0 .. Len(madt) /\ FirstBytes[0] = <<>> /\ Len(<<>>) = 0
      BY <1>2, EntryFields, FirstBytesAre
    <2>2. madt' = madt /\ FirstBytes' = FirstBytes
      BY <1>1 DEF madt, FirstBytes, EntryBytes
    <2>3. \E k \in 0 .. Len(madt') : i' = Len(FirstBytes'[k]) /\ Listed(k)'
      BY Zenon, <1>1, <1>2, <1>3, <2>1, <2>2
    <2>4. (\E k \in 0 .. Len(madt) : i = Len(FirstBytes[k]) /\ Listed(k))'
      BY Zenon, <2>3
    <2> QED BY <1>1, <1>2, <1>3, <1>5, <2>4 DEF RoutingInv
  <1>6. ASSUME step' = "start", ~Present("APIC") PROVE RoutingInv'
    <2>1. ~Present("APIC")'
      BY Zenon, <1>1, <1>6 DEF Present
    <2>2. i' \in Lines
      BY <1>1, <1>2 DEF Lines
    <2> QED BY <1>1, <1>3, <1>6, <2>1, <2>2 DEF RoutingInv
  <1> QED BY Zenon, <1>1, <1>4, <1>5, <1>6

LEMMA ParseRoutes ==
  ASSUME RoutingInv, ParseEntry
  PROVE  RoutingInv'
  <1>1. /\ step = "parse" /\ step' = "parse" /\ i < Len(Bytes)
        /\ UNCHANGED <<firmware, redirection, irq_bitmap>>
        /\ i' = AfterEntry(i, Bytes[i + 2])
        /\ lists' = [t \in Types |-> IF t = Bytes[i + 1] THEN Append(lists[t], Bytes[i + 3])
                                     ELSE lists[t]]
    BY Zenon DEF ParseEntry
  <1>2. firmware \in Firmwares /\ redirection = [x \in {} |-> {}] /\ irq_bitmap = {}
    BY Zenon, <1>1 DEF RoutingInv
  <1>3. PICK k \in 0 .. Len(madt) : i = Len(FirstBytes[k]) /\ Listed(k)
    BY Zenon, <1>1 DEF RoutingInv
  <1>4. /\ k # Len(madt) /\ Bytes[i + 1] = madt[k + 1].type /\ Bytes[i + 3] = k + 1
        /\ AfterEntry(i, Bytes[i + 2]) = Len(FirstBytes[k + 1])
    BY Zenon, <1>1, <1>2, <1>3, NextEntry
  <1>5. k \in Nat /\ k + 1 \in 0 .. Len(madt)
    <2> DEFINE n == Len(madt)
    <2>1. n \in Nat /\ k \in 0 .. n /\ k # n
      BY Zenon, <1>2, <1>4, EntryFields
    <2> HIDE DEF n
    <2>2. k \in Nat /\ k + 1 \in 0 .. n
      BY <2>1
    <2> QED BY Zenon, <2>2 DEF n
  <1>6. ASSUME NEW t \in Types PROVE Enumerates(madt, lists'[t], t, k + 1)
    <2>1. lists'[t] = IF madt[k + 1].type = t THEN Append(lists[t], k + 1) ELSE lists[t]
      BY Zenon, <1>1, <1>4
    <2> QED BY Zenon, <1>3, <1>5, <2>1, EnumeratesNext DEF Listed
  <1>7. madt' = madt /\ FirstBytes' = FirstBytes
    BY <1>1 DEF madt, FirstBytes, EntryBytes
  <1>8. Listed(k + 1)'
    BY Zenon, <1>6, <1>7 DEF Listed
  <1>9. i' = Len(FirstBytes'[k + 1])
    BY Zenon, <1>1, <1>4, <1>7
  <1>10. (\E j \in 0 .. Len(madt) : i = Len(FirstBytes[j]) /\ Listed(j))'
    BY Zenon, <1>5, <1>7, <1>8, <1>9
  <1> QED BY <1>1, <1>2, <1>10 DEF RoutingInv

LEMMA ListRoutes ==
  ASSUME RoutingInv, ListIoapics
  PROVE  RoutingInv'
  <1>1. /\ step = "parse" /\ step' = "redirect" /\ i >= Len(Bytes) /\ i' = 0
        /\ UNCHANGED <<firmware, lists, redirection, irq_bitmap>> /\ ioapics' = lists[1]
    BY Zenon DEF ListIoapics
  <1>2. firmware \in Firmwares /\ redirection = [x \in {} |-> {}] /\ irq_bitmap = {}
    BY Zenon, <1>1 DEF RoutingInv
  <1>3. PICK k \in 0 .. Len(madt) : i = Len(FirstBytes[k]) /\ Listed(k)
    BY Zenon, <1>1 DEF RoutingInv
  <1>4. ~(i < Len(Bytes))
    <2>1. i \in Nat /\ Len(Bytes) \in Nat
      <3>1. Len(madt) \in 0 .. Len(madt)
        BY <1>2, EntryFields
      <3>2. FirstBytes[k] \in Seq(Nat) /\ Bytes \in Seq(Nat)
        BY Zenon, <1>2, <3>1, FirstBytesAre DEF Bytes
      <3> QED BY <1>3, <3>2
    <2> QED BY <1>1, <2>1
  <1>5. k = Len(madt)
    BY Zenon, <1>2, <1>3, <1>4, NextEntry
  <1>6. Listed(Len(madt))' /\ ioapics' = lists'[1]
    <2>1. Listed(k)' /\ k = Len(madt')
      BY Zenon, <1>1, <1>3, <1>5, ListedStays DEF madt
    <2> QED BY Zenon, <1>1, <2>1
  <1>7. Routed(i)'
    <2>1. 0 .. 0 - 1 = {} /\ DOMAIN redirection = {}
      BY <1>2
    <2>2. RoutedBy(redirection, irq_bitmap, 0)
      BY Zenon, <1>2, <2>1 DEF RoutedBy
    <2>3. Routed(0)'
      BY Zenon, <1>1, <2>2, RoutedKept DEF Routed
    <2> QED BY Zenon, <1>1, <2>3 DEF Routed
  <1>8. i' \in 0 .. 16
    BY <1>1
  <1> QED BY <1>1, <1>2, <1>6, <1>7, <1>8 DEF RoutingInv

LEMMA RedirectKeeps ==
  ASSUME RoutingInv, Redirect
  PROVE  RoutingInv'
  <1>1. /\ step = "redirect" /\ step' = "redirect" /\ i \in Lines /\ i' = i + 1
        /\ UNCHANGED <<firmware, lists, ioapics>>
    BY Zenon DEF Redirect
  <1>2. /\ firmware \in Firmwares /\ Listed(Len(madt)) /\ ioapics = lists[1] /\ Routed(i)
    BY Zenon, <1>1 DEF RoutingInv
  <1>3. 1 \in Types /\ 2 \in Types
    BY DEF Types
  <1>4. Enumerates(madt, lists[2], 2, Len(madt)) /\ Enumerates(madt, ioapics, 1, Len(madt))
    BY Zenon, <1>2, <1>3 DEF Listed
  <1>5. RoutedBy(redirection', irq_bitmap', i + 1)
    BY Zenon, <1>2, <1>4, RedirectRoutes
  <1>6. Routed(i)'
    <2>1. PICK r, b, n : r = redirection' /\ b = irq_bitmap' /\ n = i + 1
      BY Zenon
    <2>2. RoutedBy(r, b, n)'
      BY Zenon, <1>1, <1>5, <2>1, RoutedStays
    <2> QED BY Zenon, <1>1, <2>1, <2>2 DEF Routed
  <1>7. Listed(Len(madt))'
    <2>1. PICK k : k = Len(madt)
      BY Zenon
    <2>2. Listed(k)' /\ k = Len(madt')
      BY Zenon, <1>1, <1>2, <2>1, ListedStays DEF madt
    <2> QED BY Zenon, <2>2
  <1>8. i' \in 0 .. 16
    BY <1>1 DEF Lines
  <1> QED BY <1>1, <1>2, <1>6, <1>7, <1>8 DEF RoutingInv

LEMMA StartRoutes ==
  ASSUME RoutingInv, core' = core,
         EnableApic \/ StartTimer \/ SetTimer \/ HpetTick \/ UNCHANGED routing
  PROVE  RoutingInv'
  <1>1. UNCHANGED <<firmware, i, lists, ioapics, redirection, irq_bitmap>>
    BY Zenon DEF EnableApic, StartTimer, SetTimer, HpetTick, routing
  <1>2. \/ step = "redirect" /\ i \notin Lines /\ step' = "start"
        \/ step \in {"start", "sleep", "done"} /\ step' \in {"start", "sleep", "done"}
        \/ step' = step
    BY DEF EnableApic, StartTimer, SetTimer, HpetTick, routing
  <1>3. \A n : Routed(n) => Routed(n)'
    BY Zenon, <1>1, RoutedKept
  <1>4. \A k : Listed(k) => Listed(k)'
    BY Zenon, <1>1, ListedStays
  <1>5. madt' = madt /\ FirstBytes' = FirstBytes /\ Present("APIC")' = Present("APIC")
    BY <1>1 DEF madt, FirstBytes, EntryBytes, Present
  <1>6. /\ firmware' \in Firmwares
        /\ Listed(0) => Listed(0)'
        /\ Listed(Len(madt)) => Listed(Len(madt))'
        /\ Routed(i) => Routed(i)'
        /\ Routed(16) => Routed(16)'
    <2>1. PICK k, n : k = Len(madt) /\ n = i
      BY Zenon
    <2>2. Listed(k) => Listed(k)'
      BY Zenon, <1>4
    <2>3. Routed(n) => Routed(n)'
      BY Zenon, <1>3
    <2>4. k = Len(madt') /\ n = i'
      BY Zenon, <1>1, <1>5, <2>1
    <2> QED BY Zenon, <1>1, <1>3, <1>4, <2>1, <2>2, <2>3, <2>4 DEF RoutingInv
  <1>7. CASE step = "redirect" /\ i \notin Lines /\ step' = "start"
    <2>1. i = 16
      BY <1>7 DEF RoutingInv, Lines
    <2>2. Routed(16)' /\ Listed(Len(madt))'
      BY Zenon, <1>6, <1>7, <2>1 DEF RoutingInv
    <2> QED BY <1>6, <1>7, <2>2 DEF RoutingInv
  <1>8. CASE step \in {"start", "sleep", "done"} /\ step' \in {"start", "sleep", "done"}
    <2>1. i' \notin Lines => Routed(16)'
      BY Zenon, <1>1, <1>6, <1>8 DEF RoutingInv
    <2>2. core' = "bsp" /\ Present("APIC")' => Listed(Len(madt))'
      BY Zenon, <1>5, <1>6, <1>8 DEF RoutingInv
    <2> QED BY <1>6, <1>8, <2>1, <2>2 DEF RoutingInv
  <1>9. CASE step' = step
    <2>1. (\E k \in 0 .. Len(madt) : i = Len(FirstBytes[k]) /\ Listed(k))
            => (\E k \in 0 .. Len(madt) : i = Len(FirstBytes[k]) /\ Listed(k))'
      BY Zenon, <1>1, <1>4, <1>5
    <2> QED BY Zenon, <1>1, <1>5, <1>6, <1>9, <2>1 DEF RoutingInv
  <1> QED BY Zenon, <1>2, <1>7, <1>8, <1>9

LEMMA RoutingInit_ == Init => RoutingInv
  <1> SUFFICES ASSUME Init PROVE RoutingInv
    BY Zenon
  <1>1. /\ firmware \in Firmwares /\ i = 0 /\ redirection = [x \in {} |-> {}] /\ irq_bitmap = {}
        /\ lists = [t \in Types |-> <<>>]
        /\ step = "fadt" \/ (step = "start" /\ core # "bsp")
    BY DEF Init, RoutingInit
  <1>2. Listed(0)
    BY Zenon, <1>1, EnumeratesNone DEF Listed
  <1>3. i \in Lines
    BY <1>1 DEF Lines
  <1> QED BY <1>1, <1>2, <1>3 DEF RoutingInv

LEMMA RoutingStep == RoutingInv /\ [Next]_vars => RoutingInv'
  <1> SUFFICES ASSUME RoutingInv, [Next]_vars PROVE RoutingInv'
    BY Zenon
  <1>1. CASE Fadt
    BY Zenon, <1>1, FindRoutes DEF Fadt
  <1>2. CASE Apic
    BY Zenon, <1>2, FindRoutes, ParseRoutes, ListRoutes, RedirectKeeps, StartRoutes
    DEF Apic, ApicStep
  <1>3. CASE HpetTick /\ UNCHANGED traps
    BY Zenon, <1>3, StartRoutes DEF traps
  <1>4. CASE UNCHANGED routing /\ core' = core
    BY Zenon, <1>4, StartRoutes
  <1>5. ASSUME Gs \/ Interrupt \/ Exception \/ Yield \/ UNCHANGED vars
        PROVE  UNCHANGED routing /\ core' = core
    BY Zenon, <1>5 DEF Gs, SetGs, Interrupt, Exception, Yield, Deliver, vars, traps
  <1>6. ASSUME TrapsStep
        PROVE  core' = core
    BY ZenonT(60), <1>6
    DEF TrapsStep, SystemInit, GdtInit, IdtInit, Sti, Halt, Return, RescheduleNothing,
        Switch, WithLocal, Resume, Compute, Syscall, PushWord, SyscallHandler, PopWord,
        Sysret
  <1> QED BY Zenon, <1>1, <1>2, <1>3, <1>4, <1>5, <1>6 DEF Next

(***************************************************************************)
(* On every firmware the I/O APICs are programmed as its MADT asks:        *)
(* however many entries the MADT has and whatever their types and sizes,   *)
(* apic_init finds them, and ioapic_set_irq_redirection the first override *)
(* of an interrupt and the first I/O APIC that can take it.                *)
(***************************************************************************)
THEOREM RoutedRight == Spec => []RoutedAsListed
  <1>1. RoutingInv => RoutedAsListed
    <2> SUFFICES ASSUME RoutingInv, step \in {"start", "sleep", "done"}, i \notin Lines
                 PROVE  RoutedAsListed
      BY Zenon DEF RoutedAsListed
    <2>1. RoutedBy(redirection, irq_bitmap, 16)
      BY Zenon DEF RoutingInv, Routed
    <2>2. Lines = 0 .. 16 - 1
      BY DEF Lines
    <2> QED BY ZenonT(30), <2>1, <2>2 DEF RoutedAsListed, RoutedBy, Right, HasPin
  <1> QED BY <1>1, RoutingInit_, RoutingStep, PTL DEF Spec

-----------------------------------------------------------------------------
\* A boot core whose list is empty is not in the MADT.
LEMMA ListedFound == RoutingInv => FoundIfListed
  <1> SUFFICES ASSUME RoutingInv, step = "done", core = "bsp", lists[0] = <<>>, BootListed
               PROVE  FALSE
    BY Zenon DEF FoundIfListed
  <1>1. Listed(Len(madt)) /\ firmware \in Firmwares
    BY Zenon DEF RoutingInv, BootListed
  <1>2. Enumerates(madt, <<>>, 0, Len(madt))
    BY <1>1 DEF Listed, Types
  <1>3. PICK k \in DOMAIN madt : madt[k].type = 0
    BY Zenon DEF BootListed
  <1>4. DOMAIN madt = 1 .. Len(madt)
    BY Zenon, <1>1, FirmwareAssumption DEF madt
  <1>5. \E a \in DOMAIN <<>> : <<>>[a] = k
    BY Zenon, <1>2, <1>3, <1>4 DEF Enumerates
  <1> QED BY <1>5

\* The routing, the boot code and the entries together.
Safe == Quiet /\ RoutingInv /\ EntryInv

LEMMA SafeInit == Init => Safe
  BY Zenon, QuietInit, RoutingInit_, EntryInit DEF Safe

LEMMA SafeStep == Safe /\ [Next]_vars => Safe'
  BY Zenon, QuietStep, RoutingStep, ListedFound, EntryStep DEF Safe

(***************************************************************************)
(* On every firmware a core is set up before it is interrupted, and every  *)
(* interrupt, exception and system call finds what it needs, unless the    *)
(* MADT does not list the boot core; the stubs of isr.asm give             *)
(* isr_handler_main the number and the registers that were interrupted.    *)
(***************************************************************************)
THEOREM EntriesSound == Spec => []EntrySound
  <1>1. Safe => EntrySound
    BY Zenon, EntrySoundIf DEF Safe
  <1> QED BY <1>1, SafeInit, SafeStep, PTL DEF Spec

(***************************************************************************)
(* An interrupt at any instruction of syscall_main, of the server or of    *)
(* the end of the boot code gives every register back; and so does a       *)
(* system call, except for rcx, r11 and rdx.                               *)
(***************************************************************************)
THEOREM Restores == Spec => RegistersKept
  <1>1. Safe /\ [Next]_vars =>
          [ /\ vector # -1 /\ vector' = -1 /\ (current' => current) => cpu' = interrupted
            /\ cpu["rip"] = Popped(Len(Unwind)) /\ cpu'["cs"] = UserSeg =>
                 \A r \in Registers \ {"rcx", "r11", "rdx"} : cpu'[r] = called[r] ]_traps
    <2> SUFFICES ASSUME EntryInv, Next
                 PROVE  /\ vector # -1 /\ vector' = -1 /\ (current' => current) =>
                             cpu' = interrupted
                        /\ cpu["rip"] = Popped(Len(Unwind)) /\ cpu'["cs"] = UserSeg =>
                             \A r \in Registers \ {"rcx", "r11", "rdx"} : cpu'[r] = called[r]
      BY Zenon DEF Safe, vars, traps
    <2>1. vector # -1 /\ vector' = -1 /\ (current' => current) => cpu' = interrupted
      BY Zenon, ResumesOnly
    <2>2. ASSUME cpu["rip"] = Popped(Len(Unwind)), cpu'["cs"] = UserSeg
          PROVE  \A r \in Registers \ {"rcx", "r11", "rdx"} : cpu'[r] = called[r]
      <3>1. cpu["rip"] = Popped(18)
        BY Zenon, <2>2, UnwindIs
      <3>2. 18 \in Nat
        OBVIOUS
      <3>3. Sysret /\ booted = Steps
        BY Zenon, <2>2, <3>1, <3>2, SysretOnly, NotBoot, BootedIf
      <3> QED BY Zenon, <3>3, SysretRestores
    <2> QED BY Zenon, <2>1, <2>2
  <1> QED BY <1>1, SafeInit, SafeStep, PTL DEF Spec, RegistersKept

-----------------------------------------------------------------------------
(* The boot core gets to its end, with the timer calibrated.               *)

Missing == \E signature \in {"FACP", "HPET", "APIC"} : ~Present(signature)

\* hpet_msleep waits long enough, and nothing but a missing table stops it.
Calibrated ==
  /\ step = "done" => timer.period >= Ratio * Sleep
  /\ step = "lost" => Missing

TimerInv ==
  /\ clock \in Nat /\ deadline \in Nat
  /\ step = "sleep" => deadline >= Sleep
  /\ Calibrated

LEMMA LongEnough ==
  ASSUME NEW c \in Nat, c >= Sleep
  PROVE  Ratio * c >= Ratio * Sleep
  <1>1. PICK d \in Nat : c = Sleep + d
    <2>1. c - Sleep \in Nat /\ c = Sleep + (c - Sleep)
      BY RoutingAssumption
    <2> QED BY Zenon, <2>1
  <1>2. Ratio * (Sleep + d) = Ratio * Sleep + Ratio * d
    BY RoutingAssumption
  <1>3. Ratio * d \in Nat /\ Ratio * Sleep \in Nat
    BY RoutingAssumption
  <1> QED BY <1>1, <1>2, <1>3

LEMMA FindEnds ==
  ASSUME FindFadt \/ FindHpet \/ FindMadt
  PROVE  /\ UNCHANGED <<firmware, clock, deadline, timer, i>>
         /\ <<step, step'>> \in {<<"fadt", "hpet">>, <<"fadt", "lost">>, <<"hpet", "madt">>,
                                 <<"hpet", "lost">>, <<"madt", "parse">>, <<"madt", "start">>,
                                 <<"madt", "lost">>}
         /\ step' = "lost" => Missing
  <1>1. CASE FindFadt
    <2>1. PICK r \in FindSdt("FACP") :
            step' = [found |-> "hpet", null |-> "hpet", crash |-> "lost"][r]
      BY Zenon, <1>1 DEF FindFadt, Find
    <2>2. step' \in {"hpet", "lost"} /\ (step' = "lost" => ~Present("FACP"))
      BY <2>1 DEF FindSdt
    <2>3. step = "fadt" /\ UNCHANGED <<firmware, clock, deadline, timer, i>>
      BY Zenon, <1>1 DEF FindFadt, Find
    <2> QED BY Zenon, <2>2, <2>3 DEF Missing
  <1>2. CASE FindHpet
    <2>1. PICK r \in FindSdt("HPET") :
            step' = [found |-> "madt", null |-> "lost", crash |-> "lost"][r]
      BY Zenon, <1>2 DEF FindHpet, Find
    <2>2. step' \in {"madt", "lost"} /\ (step' = "lost" => ~Present("HPET"))
      BY <2>1 DEF FindSdt
    <2>3. step = "hpet" /\ UNCHANGED <<firmware, clock, deadline, timer, i>>
      BY Zenon, <1>2 DEF FindHpet, Find
    <2> QED BY Zenon, <2>2, <2>3 DEF Missing
  <1>3. CASE FindMadt
    <2>1. PICK r \in FindSdt("APIC") :
            step' = [found |-> "parse", null |-> "start", crash |-> "lost"][r]
      BY Zenon, <1>3 DEF FindMadt, Find
    <2>2. step' \in {"parse", "start", "lost"} /\ (step' = "lost" => ~Present("APIC"))
      BY <2>1 DEF FindSdt
    <2>3. step = "madt" /\ UNCHANGED <<firmware, clock, deadline, timer, i>>
      BY Zenon, <1>3 DEF FindMadt, Find
    <2> QED BY Zenon, <2>2, <2>3 DEF Missing
  <1> QED BY Zenon, <1>1, <1>2, <1>3

\* What changes the routing.
Routes ==
  \/ FindFadt \/ FindHpet \/ FindMadt
  \/ ParseEntry \/ ListIoapics \/ Redirect \/ EnableApic
  \/ StartTimer \/ SetTimer \/ HpetTick

LEMMA RoutesOnly == [Next]_vars => Routes \/ UNCHANGED routing
  BY Zenon DEF Next, Fadt, Apic, ApicStep, Gs, Interrupt, Exception, Yield, vars, Routes

LEMMA MissingStays == ASSUME firmware' = firmware, Missing PROVE Missing'
  BY Zenon DEF Missing, Present

LEMMA TimerInit == Init => TimerInv
  BY DEF Init, RoutingInit, TimerInv, Calibrated

LEMMA TimerStep == TimerInv /\ [Next]_vars => TimerInv'
  <1> SUFFICES ASSUME TimerInv, [Next]_vars PROVE TimerInv'
    BY Zenon
  <1>1. CASE FindFadt \/ FindHpet \/ FindMadt
    <2>1. /\ UNCHANGED <<firmware, clock, deadline, timer>> /\ step' \notin {"sleep", "done"}
          /\ step' = "lost" => Missing'
      BY Zenon, <1>1, FindEnds, MissingStays
    <2> QED BY Zenon, <2>1 DEF TimerInv, Calibrated
  <1>2. CASE ParseEntry \/ ListIoapics \/ Redirect \/ EnableApic
    <2>1. UNCHANGED <<clock, deadline, timer>> /\ step' \notin {"sleep", "done", "lost"}
      BY Zenon, <1>2 DEF ParseEntry, ListIoapics, Redirect, EnableApic
    <2> QED BY Zenon, <2>1 DEF TimerInv, Calibrated
  <1>3. CASE StartTimer
    <2>1. step' = "sleep" /\ deadline' = clock + Sleep /\ clock' = clock
      BY Zenon, <1>3 DEF StartTimer
    <2> QED BY <2>1, RoutingAssumption DEF TimerInv, Calibrated
  <1>4. CASE HpetTick
    <2>1. step = "sleep" /\ step' = step /\ clock' = clock + 1 /\ deadline' = deadline
      BY Zenon, <1>4 DEF HpetTick
    <2> QED BY <2>1 DEF TimerInv, Calibrated
  <1>5. CASE SetTimer
    <2>1. /\ step' = "done" /\ clock >= deadline /\ UNCHANGED <<clock, deadline>>
          /\ timer'.period = Ratio * clock /\ deadline >= Sleep /\ clock \in Nat
          /\ deadline \in Nat
      BY <1>5 DEF SetTimer, TimerInv
    <2>2. clock >= Sleep
      BY <2>1, RoutingAssumption
    <2>3. Ratio * clock >= Ratio * Sleep
      BY Zenon, <2>1, <2>2, LongEnough
    <2>4. step' # "lost" /\ step' # "sleep"
      BY <2>1
    <2> QED BY Zenon, <2>1, <2>3, <2>4 DEF TimerInv, Calibrated
  <1>6. CASE UNCHANGED routing
    <2>1. UNCHANGED <<firmware, step, clock, deadline, timer>>
      BY Zenon, <1>6 DEF routing
    <2> QED BY Zenon, <2>1, MissingStays DEF TimerInv, Calibrated
  <1> QED BY Zenon, <1>1, <1>2, <1>3, <1>4, <1>5, <1>6, RoutesOnly DEF Routes

(***************************************************************************)
(* On every firmware: apic_timer_init ends with a timer that is not faster *)
(* than asked for, however late hpet_msleep ends, and the boot core is     *)
(* lost on the way only when a table is missing.                           *)
(***************************************************************************)
THEOREM TimerCalibrated == Spec => []Calibrated
  <1>1. TimerInv => Calibrated
    BY Zenon DEF TimerInv
  <1> QED BY <1>1, TimerInit, TimerStep, PTL DEF Spec

Rank == [fadt |-> 0, hpet |-> 1, madt |-> 2, parse |-> 3, redirect |-> 4, start |-> 5,
          sleep |-> 6, done |-> 7, lost |-> 7]

\* The boot core goes on to its next part, or nearer to the end of the loop
\* that it is in: over the MADT, over the interrupts, or until the deadline.
Advances ==
  \/ Rank[step'] > Rank[step]
  \/ step = "parse" /\ step' = "parse" /\ i + 3 <= i' /\ i' <= Len(Bytes)
  \/ step = "redirect" /\ step' = "redirect" /\ i' = i + 1 /\ i' <= 16
  \/ step = "sleep" /\ step' = "sleep" /\ clock' = clock + 1 /\ clock' <= deadline + Late

LEMMA WalkAdvances ==
  ASSUME RoutingInv, ParseEntry
  PROVE  i + 3 <= i' /\ i' <= Len(Bytes)
  <1>1. /\ step = "parse" /\ i < Len(Bytes) /\ i' = AfterEntry(i, Bytes[i + 2])
    BY Zenon DEF ParseEntry
  <1>2. firmware \in Firmwares
    BY Zenon DEF RoutingInv
  <1>3. PICK k \in 0 .. Len(madt) : i = Len(FirstBytes[k])
    BY Zenon, <1>1 DEF RoutingInv
  <1>4. k # Len(madt) /\ i' = Len(FirstBytes[k + 1])
    BY Zenon, <1>1, <1>2, <1>3, NextEntry
  <1>5. k + 1 \in 1 .. Len(madt) /\ (k + 1) - 1 = k /\ k + 1 \in 0 .. Len(madt)
    <2> DEFINE n == Len(madt)
    <2>1. n \in Nat /\ k \in 0 .. n /\ k # n
      BY Zenon, <1>2, <1>4, EntryFields
    <2> HIDE DEF n
    <2>2. k + 1 \in 1 .. n /\ (k + 1) - 1 = k /\ k + 1 \in 0 .. n
      BY <2>1
    <2> QED BY Zenon, <2>2 DEF n
  <1>6. Len(FirstBytes[k + 1]) <= Len(Bytes)
    BY Zenon, <1>2, <1>5, BytesBegin
  <1>7. FirstBytes[k] \in Seq(Nat) /\ FirstBytes[k + 1] = FirstBytes[k] \o EntryBytes(k + 1)
    <2>1. FirstBytes \in [0 .. Len(madt) -> Seq(Nat)]
      BY Zenon, <1>2, FirstBytesAre
    <2>2. FirstBytes[k] \in Seq(Nat)
      BY Zenon, <2>1
    <2>3. FirstBytes[k + 1] = FirstBytes[(k + 1) - 1] \o EntryBytes(k + 1)
      BY Zenon, <1>2, <1>5, FirstBytesAre
    <2> QED BY Zenon, <1>5, <2>2, <2>3
  <1>8. k + 1 \in DOMAIN madt
    BY Zenon, <1>2, <1>5, EntryFields
  <1>9. EntryBytes(k + 1) \in Seq(Nat) /\ Len(EntryBytes(k + 1)) = madt[k + 1].size
    BY Zenon, <1>2, <1>8, EntryBytesAre
  <1>10. madt[k + 1].size \in Nat /\ madt[k + 1].size - 3 \in Nat
    BY Zenon, <1>2, <1>8, EntryFields
  <1>11. /\ Len(FirstBytes[k + 1]) = Len(FirstBytes[k]) + Len(EntryBytes(k + 1))
         /\ Len(FirstBytes[k]) \in Nat
    <2> DEFINE p == FirstBytes[k]
               q == EntryBytes(k + 1)
    <2>1. p \in Seq(Nat) /\ q \in Seq(Nat) /\ FirstBytes[k + 1] = p \o q
      BY Zenon, <1>7, <1>9
    <2> HIDE DEF p, q
    <2>2. Len(p) \in Nat /\ Len(p \o q) = Len(p) + Len(q)
      BY Zenon, <2>1, ConcatParts
    <2> QED BY Zenon, <2>1, <2>2 DEF p, q
  <1> DEFINE s == madt[k + 1].size
  <1>12. i' = i + s /\ i \in Nat /\ s \in Nat /\ s - 3 \in Nat
    BY Zenon, <1>3, <1>4, <1>9, <1>10, <1>11
  <1> HIDE DEF s
  <1>13. i + 3 <= i'
    BY <1>12
  <1> QED BY Zenon, <1>4, <1>6, <1>13

(***************************************************************************)
(* No firmware makes the boot core loop for ever: each step of dufay_entry *)
(* and apic_init advances, the walk by at least the three bytes that an    *)
(* entry has, and each loop has a bound.                                   *)
(***************************************************************************)
THEOREM RoutingAdvances == Spec => [][routing' # routing => Advances]_vars
  <1>1. RoutingInv /\ TimerInv /\ [Next]_vars => [routing' # routing => Advances]_vars
    <2> SUFFICES ASSUME RoutingInv, TimerInv, Routes PROVE Advances
      BY Zenon, RoutesOnly
    <2>1. CASE FindFadt \/ FindHpet \/ FindMadt
      BY <2>1, FindEnds DEF Advances, Rank
    <2>2. CASE ParseEntry
      BY Zenon, <2>2, WalkAdvances DEF ParseEntry, Advances
    <2>3. CASE ListIoapics \/ EnableApic \/ StartTimer \/ SetTimer
      <3>1. <<step, step'>> \in {<<"parse", "redirect">>, <<"redirect", "start">>,
                                 <<"start", "sleep">>, <<"sleep", "done">>}
        BY Zenon, <2>3 DEF ListIoapics, EnableApic, StartTimer, SetTimer
      <3> QED BY <3>1 DEF Advances, Rank
    <2>4. CASE Redirect
      <3>1. step = "redirect" /\ step' = "redirect" /\ i' = i + 1 /\ i \in 0 .. 15
        BY Zenon, <2>4 DEF Redirect, Lines
      <3> QED BY <3>1 DEF Advances
    <2>5. CASE HpetTick
      <3>1. /\ step = "sleep" /\ step' = "sleep" /\ clock' = clock + 1
            /\ clock < deadline + Late /\ deadline' = deadline
            /\ clock \in Nat /\ deadline \in Nat
        BY Zenon, <2>5 DEF HpetTick, TimerInv
      <3> QED BY <3>1, RoutingAssumption DEF Advances
    <2> QED BY Zenon, <2>1, <2>2, <2>3, <2>4, <2>5 DEF Routes
  <1> QED BY <1>1, RoutingInit_, RoutingStep, TimerInit, TimerStep, PTL DEF Spec
=============================================================================
