----------------------------- MODULE Interrupts -----------------------------
(***************************************************************************)
(* A core from its boot code to its server, with the interrupts that the   *)
(* routing lets through: Routing composed with Traps.  The boot core goes  *)
(* through all of Routing, the others only calibrate their timer.          *)
(***************************************************************************)
EXTENDS Routing, Traps

vars == <<routing, traps>>

\* Only the boot core looks at the firmware.
Init ==
  /\ TrapsInit
  /\ RoutingInit(IF core = "bsp" THEN "fadt" ELSE "start")
  /\ core = "ap" => firmware = CHOOSE f \in Firmwares : TRUE

\* dufay_entry looks for the FADT.
Fadt ==
  /\ AtStep("fadt")
  /\ FindFadt
  /\ IF step' = "lost" THEN booted' = booted ELSE StepDone
  /\ UNCHANGED <<core, cpu, stack, gdt, tr, idt, star, gs, current, state, vector, interrupted,
                 called>>

\* hpet_init, apic_init and apic_timer_init, or apic_timer_init alone.
Apic ==
  /\ AtStep("apic") \/ AtStep("timer")
  /\ ApicStep
  /\ IF step' = "done" THEN StepDone ELSE booted' = booted
  /\ UNCHANGED <<core, cpu, stack, gdt, tr, idt, star, gs, current, state, vector, interrupted,
                 called>>

\* boot_aps finds the boot core in the MADT, which lists it first.
Gs ==
  /\ SetGs(lists[0] # <<>>)
  /\ UNCHANGED routing

\* The vectors that can arrive from outside: the timer, the pins that are not
\* masked, the spurious ones of the local APIC and of the legacy controllers.
Firing ==
  ({timer.vector, 255} \ {0})
  \cup {redirection[x].vector : x \in {y \in DOMAIN redirection : ~redirection[y].mask}}
  \cup (IF pic = 0 THEN {} ELSE {pic + 7})

Interrupt ==
  /\ cpu["rflags"] = IF_
  /\ \E v \in Firing : Deliver(v)
  /\ UNCHANGED routing

\* What the processor raises.
Exceptions == 0 .. 8 \cup 10 .. 14 \cup 16 .. 21 \cup 28 .. 30

\* The server may raise any; a handler of a system call may touch memory that
\* is not there.
Exception ==
  /\ \/ Running(UserCode) /\ \E v \in Exceptions : Deliver(v)
     \/ Running(Pushed(Len(Words))) /\ Deliver(14)
  /\ UNCHANGED routing

\* The system call yield.
Yield ==
  /\ Running(Pushed(Len(Words)))
  /\ Deliver(32)
  /\ UNCHANGED routing

Next ==
  \/ Fadt
  \/ Apic \/ Gs
  \/ HpetTick /\ UNCHANGED traps
  \/ Interrupt \/ Exception \/ Yield
  \/ TrapsStep /\ UNCHANGED routing

\* The core executes its instructions and the HPET counts.
Spec ==
  /\ Init /\ [][Next]_vars
  /\ WF_vars(Fadt) /\ WF_vars(Apic) /\ WF_vars(Gs) /\ WF_vars(HpetTick /\ UNCHANGED traps)
  /\ WF_vars(TrapsStep /\ UNCHANGED routing)

\* boot_aps can find the boot core.
BootListed == Present("APIC") /\ \E k \in DOMAIN madt : madt[k].type = 0

(***************************************************************************)
(* Every entry to the kernel and every return from it finds what it needs. *)
(* The set-up is complete by the time it is used: no interrupt comes       *)
(* without an IDT, or from the server without a TSS; no return loads a     *)
(* selector that the GDT does not have; neither a system call nor a timer  *)
(* tick reads cpu_local through a GS that was not set, or was cleared by   *)
(* gdt_init, except on the boot core of a firmware whose MADT is missing   *)
(* or lists no core, where boot_aps sets none.  And isr_handler_main sees  *)
(* what the processor pushed: the number, the code segment that decides on *)
(* swapgs, and all registers of what was interrupted.  For the exceptions  *)
(* 17, 21, 29 and 30, whose stubs do not expect the error code, only the   *)
(* number is right; those never return.                                    *)
(***************************************************************************)
EntrySound ==
  /\ state = "lost" => core = "bsp" /\ ~BootListed
  /\ state = "running" /\ vector # -1 =>
       /\ Field("isr_number") = vector
       /\ vector \notin HasError \ {8, 10, 11, 12, 13, 14} =>
            \A r \in Registers : Field(r) = interrupted[r]

(***************************************************************************)
(* Only the timer interrupts: apart from the two spurious vectors, every   *)
(* other source is masked, for no other vector has a handler, and none of  *)
(* the vectors is one of an exception, on which the core would halt.       *)
(***************************************************************************)
OnlyTimer == Firing \subseteq {32, 39, 255}
=============================================================================
