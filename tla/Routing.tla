------------------------------ MODULE Routing ------------------------------
(***************************************************************************)
(* How the boot core finds the ACPI tables, reads the interrupt sources    *)
(* from the MADT, programs the I/O APICs and calibrates its timer: the end *)
(* of dufay_entry, hpet_init, apic_init and apic_timer_init.               *)
(*                                                                         *)
(* A firmware is a record: root, the signatures of the tables in the order *)
(* of the XSDT or RSDT; madt, the entries of the MADT.  An entry has its   *)
(* type and size; of the types that matter, 1 is an I/O APIC with its      *)
(* first interrupt and its last pin, 2 an override that connects an ISA    *)
(* interrupt to another one, active low or level triggered.                *)
(***************************************************************************)
EXTENDS Integers, Sequences, FiniteSetsExt

CONSTANTS
  Firmwares,    \* the firmwares that the kernel may start on
  BootId,       \* the APIC id of the boot core
  Sleep,        \* HPET ticks of hpet_msleep: 20 ms at the period of the HPET
  Ratio,        \* counts of the local timer per HPET tick
  Late          \* HPET ticks that the end of hpet_msleep may come late

Lines == 0 .. 15

ASSUME RoutingAssumption == Sleep \in Nat \ {0} /\ Ratio \in Nat \ {0} /\ Late \in Nat

\* Every entry of a MADT has a body, of a kind that goes with its type.
ASSUME FirmwareAssumption ==
  \A f \in Firmwares :
    /\ Len(f.madt) \in Nat /\ DOMAIN f.madt = 1 .. Len(f.madt)
    /\ \A k \in DOMAIN f.madt :
         /\ f.madt[k].type \in Nat /\ f.madt[k].size \in Nat \ 0 .. 2
         /\ f.madt[k].type = 1 => {f.madt[k].base, f.madt[k].last} \subseteq Nat
         /\ f.madt[k].type = 2 => /\ {f.madt[k].irq, f.madt[k].gsi} \subseteq Nat
                                 /\ {f.madt[k].low, f.madt[k].level} \subseteq BOOLEAN

VARIABLES
  firmware,
  step,         \* where the boot core is
  i,            \* its loop index
  lists,        \* lists[t]: MADT entries of type t, by their place in the MADT
  ioapics,      \* ioapic_list: MADT entries as well
  redirection,  \* the redirection entries that were written, by I/O APIC and pin
  irq_bitmap,
  pic,          \* the first vector of the legacy interrupt controllers, 0 when
                \* still as the loader left them, masked
  clock,        \* the HPET counter, from when the local timer is started
  deadline,     \* the end of hpet_msleep
  timer         \* the local timer: its period and its vector; 0 when off

routing == <<firmware, step, i, lists, ioapics, redirection, irq_bitmap, pic, clock,
             deadline, timer>>

madt == firmware.madt

Types == {0, 1, 2, 4, 5}

RoutingInit(first) ==
  /\ firmware \in Firmwares
  /\ step = first /\ i = 0
  /\ lists = [t \in Types |-> <<>>]
  /\ ioapics = <<>>
  /\ redirection = [x \in {} |-> {}]
  /\ irq_bitmap = {}
  /\ pic = 0
  /\ clock = 0 /\ deadline = 0
  /\ timer = [period |-> 0, vector |-> 0]

-----------------------------------------------------------------------------
(* ACPI tables.                                                            *)

Present(signature) == \E k \in DOMAIN firmware.root : firmware.root[k] = signature

(***************************************************************************)
(* acpi_find_sdt compares the tables in turn.  Its bound is the length of  *)
(* the root table in bytes: when no table matches it goes on behind the    *)
(* table, where it follows what it finds and may find nothing or crash.    *)
(***************************************************************************)
FindSdt(signature) == IF Present(signature) THEN {"found"} ELSE {"null", "crash"}

Find(at, signature, next) ==
  /\ step = at
  /\ \E result \in FindSdt(signature) : step' = next[result]
  /\ UNCHANGED <<firmware, i, lists, ioapics, redirection, irq_bitmap, pic, clock,
                 deadline, timer>>

\* dufay_entry: nothing uses the FADT.
FindFadt == Find("fadt", "FACP", [found |-> "hpet", null |-> "hpet", crash |-> "lost"])

\* hpet_init does not test the result.
FindHpet == Find("hpet", "HPET", [found |-> "madt", null |-> "lost", crash |-> "lost"])

\* apic_init returns when there is no MADT.
FindMadt == Find("madt", "APIC", [found |-> "parse", null |-> "start", crash |-> "lost"])

-----------------------------------------------------------------------------
(* apic_init.                                                              *)

\* The bytes of an entry: type, size, and a body that says which entry it is.
EntryBytes(k) ==
  <<madt[k].type, madt[k].size, k>> \o [b \in 1 .. madt[k].size - 3 |-> 0]

\* The bytes of the first k entries, and of all of them.
FirstBytes[k \in 0 .. Len(madt)] == IF k = 0 THEN <<>> ELSE FirstBytes[k - 1] \o EntryBytes(k)

Bytes == FirstBytes[Len(madt)]

\* The two increments, the jump and that of the loop.
AfterEntry(start, size) == start + 2 + (size - 3) + 1

\* The loop over the MADT; entries of other types are skipped.
ParseEntry ==
  /\ step = "parse"
  /\ i < Len(Bytes)
  /\ LET type == Bytes[i + 1]
         size == Bytes[i + 2]
         body == Bytes[i + 3]
     IN  /\ lists' = [t \in Types |-> IF t = type THEN Append(lists[t], body) ELSE lists[t]]
         /\ i' = AfterEntry(i, size)
  /\ UNCHANGED <<firmware, step, ioapics, redirection, irq_bitmap, pic, clock, deadline, timer>>

\* Mutant: the legacy controllers are masked where they are.
ListIoapicsUnmoved ==
  /\ step = "parse"
  /\ i >= Len(Bytes)
  /\ ioapics' = lists[1]
  /\ pic' = 8
  /\ step' = "redirect" /\ i' = 0
  /\ UNCHANGED <<firmware, lists, redirection, irq_bitmap, clock, deadline, timer>>

\* The I/O APICs are read, and the legacy controllers moved and masked.
ListIoapics ==
  /\ step = "parse"
  /\ i >= Len(Bytes)
  /\ ioapics' = lists[1]
  /\ pic' = 32
  /\ step' = "redirect" /\ i' = 0
  /\ UNCHANGED <<firmware, lists, redirection, irq_bitmap, clock, deadline, timer>>

\* The first override of an interrupt, or 0.
Override(irq) ==
  LET found == {k \in DOMAIN lists[2] : madt[lists[2][k]].irq = irq}
  IN  IF found = {} THEN 0 ELSE lists[2][Min(found)]

\* The first I/O APIC that takes an interrupt, or 0.
Taker(gsi) ==
  LET found == {k \in DOMAIN ioapics : /\ gsi <= madt[ioapics[k]].last
                                       /\ gsi >= madt[ioapics[k]].base}
  IN  IF found = {} THEN 0 ELSE ioapics[Min(found)]

\* The destination is the low byte of the id register, which holds the id in
\* its high byte.
Destination == (BootId * 2^24) % 256

\* ioapic_set_irq_redirection: the redirection entries that it leaves.
SetIrqRedirection(vector, irq, mask) ==
  LET o == Override(irq)
      low == o # 0 /\ madt[o].low
      gsi == IF o = 0 THEN irq ELSE madt[o].gsi
      entry == [vector |-> vector, low |-> low, level |-> o # 0 /\ ~low /\ madt[o].level,
                mask |-> mask, destination |-> Destination]
      taker == Taker(gsi)
      pin == <<taker, IF taker = 0 THEN 0 ELSE gsi - madt[taker].base>>
  IN  /\ redirection' = IF taker = 0 THEN redirection
                        ELSE [x \in DOMAIN redirection \cup {pin} |->
                                IF x = pin THEN entry ELSE redirection[x]]
      /\ irq_bitmap' = irq_bitmap \cup {gsi}

\* Mutant: an interrupt that took the place of another is forgotten.
RedirectForgetful ==
  /\ step = "redirect" /\ i \in Lines
  /\ SetIrqRedirection(i + 32, i, TRUE)
  /\ i' = i + 1
  /\ UNCHANGED <<firmware, step, lists, ioapics, pic, clock, deadline, timer>>

\* An interrupt whose number another one was connected to is left out.
Redirect ==
  /\ step = "redirect" /\ i \in Lines
  /\ IF i \in irq_bitmap
     THEN UNCHANGED <<redirection, irq_bitmap>>
     ELSE SetIrqRedirection(i + 32, i, TRUE)
  /\ i' = i + 1
  /\ UNCHANGED <<firmware, step, lists, ioapics, pic, clock, deadline, timer>>

\* The local APIC is enabled.
EnableApic ==
  /\ step = "redirect" /\ i \notin Lines
  /\ step' = "start"
  /\ UNCHANGED <<firmware, i, lists, ioapics, redirection, irq_bitmap, pic, clock, deadline,
                 timer>>

-----------------------------------------------------------------------------
(* apic_timer_init.                                                        *)

StartTimer ==
  /\ step = "start"
  /\ deadline' = clock + Sleep
  /\ step' = "sleep"
  /\ UNCHANGED <<firmware, i, lists, ioapics, redirection, irq_bitmap, pic, clock, timer>>

\* The HPET counts on.
HpetTick ==
  /\ step = "sleep"
  /\ clock < deadline + Late
  /\ clock' = clock + 1
  /\ UNCHANGED <<firmware, step, i, lists, ioapics, redirection, irq_bitmap, pic, deadline,
                 timer>>

\* Mutant: the wait ends one tick early.
SetTimerEarly ==
  /\ step = "sleep"
  /\ clock >= deadline - 1
  /\ timer' = [period |-> Ratio * clock, vector |-> 32]
  /\ step' = "done"
  /\ UNCHANGED <<firmware, i, lists, ioapics, redirection, irq_bitmap, pic, clock, deadline>>

\* hpet_msleep ends, and what the timer counted meanwhile becomes its period.
SetTimer ==
  /\ step = "sleep"
  /\ clock >= deadline
  /\ timer' = [period |-> Ratio * clock, vector |-> 32]
  /\ step' = "done"
  /\ UNCHANGED <<firmware, i, lists, ioapics, redirection, irq_bitmap, pic, clock, deadline>>

ApicStep ==
  \/ FindHpet \/ FindMadt
  \/ ParseEntry \/ ListIoapics \/ Redirect \/ EnableApic
  \/ StartTimer \/ SetTimer

-----------------------------------------------------------------------------
\* What the MADT says of an interrupt: its override, where it is connected,
\* and the I/O APIC that has the pin.
Overrides(irq) == {k \in DOMAIN madt : madt[k].type = 2 /\ madt[k].irq = irq}

Gsi(irq) == IF Overrides(irq) = {} THEN irq ELSE madt[Min(Overrides(irq))].gsi

Pins(k) == madt[k].base .. madt[k].base + madt[k].last

Level(irq) == Overrides(irq) # {} /\ madt[Min(Overrides(irq))].level

Low(irq) == Overrides(irq) # {} /\ madt[Min(Overrides(irq))].low

\* The I/O APICs that can take an interrupt: its pin is one of theirs, and its
\* number is not past the count of their pins.
Takers(gsi) ==
  {k \in DOMAIN madt : madt[k].type = 1 /\ gsi \in Pins(k) /\ gsi <= madt[k].last}

\* An earlier interrupt, which is not displaced itself, is connected where this
\* one would be.
Displaced[irq \in Lines] == \E r \in 0 .. irq - 1 : Gsi(r) = irq /\ ~Displaced[r]

(***************************************************************************)
(* The I/O APICs end up programmed as the MADT asks.  Every pin written to *)
(* exists and has the vector, polarity and trigger mode of an interrupt    *)
(* that is connected to it, except that active low makes it edge           *)
(* triggered.  Every interrupt has its pin written on the first I/O APIC   *)
(* that can take it, except one whose own number another one has taken,    *)
(* which never gets a pin, although nothing may be connected to its own.   *)
(***************************************************************************)
RoutedAsListed ==
  step \in {"start", "sleep", "done"} /\ i \notin Lines =>
    /\ \A x \in DOMAIN redirection :
         LET e == redirection[x]
         IN  /\ x[2] + madt[x[1]].base \in Pins(x[1])
             /\ \E irq \in Lines :
                  /\ Gsi(irq) = x[2] + madt[x[1]].base
                  /\ e.vector = 32 + irq /\ ~Displaced[irq]
                  /\ e.low = Low(irq) /\ e.level = (Level(irq) /\ ~Low(irq))
    /\ \A irq \in Lines :
         ~Displaced[irq] /\ Takers(Gsi(irq)) # {} =>
           LET k == Min(Takers(Gsi(irq)))
           IN  <<k, Gsi(irq) - madt[k].base>> \in DOMAIN redirection

(***************************************************************************)
(* On a firmware with an HPET and a MADT the boot core gets to its end,    *)
(* with a timer that is not faster than asked for: neither the walk        *)
(* through the MADT nor the wait for the HPET can hang.                    *)
(***************************************************************************)
TimerSet ==
  <>( \/ step = "done" /\ timer.period >= Ratio * Sleep
      \/ \E signature \in {"FACP", "HPET", "APIC"} : ~Present(signature) )
=============================================================================
