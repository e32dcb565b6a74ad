---------------------------- MODULE MCInterrupts ----------------------------
(***************************************************************************)
(* Interrupts on seven firmwares: one like QEMU's, two with two I/O APICs  *)
(* and entries of unknown type, one with cores of unknown type, and three  *)
(* that lack a table.                                                      *)
(***************************************************************************)
EXTENDS Interrupts

Lapic == [type |-> 0, size |-> 8]
Nmi == [type |-> 4, size |-> 6]
Unknown == [type |-> 9, size |-> 16]

Ioapic(base, last) == [type |-> 1, size |-> 12, base |-> base, last |-> last]

Moved(irq, gsi, low, level) ==
  [type |-> 2, size |-> 10, irq |-> irq, gsi |-> gsi, low |-> low, level |-> level]

Tables == <<"FACP", "APIC", "HPET">>

Qemu ==
  <<Lapic, Lapic, Ioapic(0, 23), Moved(0, 2, FALSE, FALSE), Moved(5, 5, FALSE, TRUE),
    Moved(9, 9, FALSE, TRUE), Nmi>>

\* The second I/O APIC takes interrupt 9, active low and level triggered.
Wide ==
  <<Lapic, Ioapic(0, 15), Unknown, Ioapic(16, 23), Moved(9, 18, TRUE, TRUE),
    Moved(3, 1, FALSE, FALSE)>>

\* The interrupts from 8 on are on the second I/O APIC; 0 displaces 2, and so
\* 4 stays.
Narrow == <<Ioapic(0, 7), Ioapic(8, 7), Unknown, Lapic, Moved(0, 2, FALSE, FALSE),
    Moved(2, 4, FALSE, TRUE)>>

\* The cores are listed in a way that apic_init does not know.
Unlisted == <<Unknown, Ioapic(0, 23)>>

MCFirmwares ==
  {[root |-> Tables, madt |-> m] : m \in {Qemu, Wide, Narrow, Unlisted}}
  \cup {[root |-> r, madt |-> Qemu] :
          r \in {<<"APIC", "HPET">>, <<"FACP", "APIC">>, <<"HPET", "FACP">>}}
=============================================================================
