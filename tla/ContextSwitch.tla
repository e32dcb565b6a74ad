--------------------------- MODULE ContextSwitch ---------------------------
(***************************************************************************)
(* Interrupts, system calls and reschedule() on every core, between the    *)
(* boot code and the core's scheduling server.                             *)
(*                                                                         *)
(* The model keeps what a return must get right: where the core was, which *)
(* of the two GS bases is active, and whether interrupts are enabled.      *)
(* Nothing ever pushes onto delivery_stack (notification_send refuses) or  *)
(* onto thread_queue, so both pops fail and the scheduling server is the   *)
(* only context of a core; its notification queue is empty, and            *)
(* notification_dispatch changes nothing.                                  *)
(***************************************************************************)
EXTENDS Processors

VARIABLES
  at,        \* at[c]: the code that c executes
  from,      \* from[c]: the code that the last interrupt of c interrupted
  gs,        \* gs[c]: whose base GS holds, "user" or "kernel"
  current,   \* current[c]: current_context is set
  regs,      \* regs[c]: where the server resumes (context->regs)
  service,   \* cores whose local APIC has the timer interrupt in service
  lock       \* reschedule_lock: the core that holds it, or NoCore

cpu == <<at, from, gs, current, regs, service, lock>>
switching == <<cpu, context>>

NoCore == -1

(***************************************************************************)
(* boot: kernel code of no context.  user: the server.  entry, exit: the   *)
(* ends of a system call, with interrupts disabled, before swapgs and      *)
(* after cli.  call: its handler, with interrupts enabled.  isr: an        *)
(* interrupt handler waiting for reschedule_lock.  switch: holding it.     *)
(* fault: portal_resolve_fault.  halted: the hlt loop after a fault that   *)
(* no portal resolves.                                                     *)
(***************************************************************************)
Code == {"boot", "user", "entry", "call", "exit", "isr", "switch", "fault", "halted"}

Interruptible == {"boot", "user", "call"}

Other(base) == IF base = "user" THEN "kernel" ELSE "user"

SwitchInit ==
  /\ at = [c \in Cores |-> "boot"]
  /\ from = [c \in Cores |-> "boot"]
  /\ gs = [c \in Cores |-> "kernel"]
  /\ current = [c \in Cores |-> FALSE]
  /\ regs = [c \in Cores |-> "user"]
  /\ context = {}
  /\ service = {}
  /\ lock = NoCore

\* launch_server publishes the context of c's server (SmpBoot says when).
Launch(c) ==
  /\ c \notin context
  /\ context' = context \cup {c}
  /\ UNCHANGED <<at, from, gs, current, regs, service, lock>>

\* Mutant: GS is swapped on every interrupt.
EntrySwapAlways(c) == Other(gs[c])

\* isr_handler_main swaps GS when the interrupt came from user mode.
EntrySwap(c) == IF at[c] = "user" THEN Other(gs[c]) ELSE gs[c]

\* Interrupt 32: the stub and isr_handler_main as far as reschedule.
Trap(c) ==
  /\ from' = [from EXCEPT ![c] = at[c]]
  /\ gs' = [gs EXCEPT ![c] = EntrySwap(c)]
  /\ at' = [at EXCEPT ![c] = "isr"]
  /\ UNCHANGED <<current, regs, context, lock>>

\* The timer: it interrupts no core that has not acknowledged the last tick.
Tick(c) ==
  /\ at[c] \in Interruptible
  /\ c \notin service
  /\ service' = service \cup {c}
  /\ Trap(c)

\* The int $32 of the system call yield: the local APIC has no part in it.
Yield(c) ==
  /\ at[c] = "call"
  /\ Trap(c)
  /\ UNCHANGED service

\* A write to the EOI register; without effect when nothing is in service.
Acknowledge(c) == service' = service \ {c}

Lock(c) ==
  /\ at[c] = "isr"
  /\ lock = NoCore
  /\ lock' = c
  /\ at' = [at EXCEPT ![c] = "switch"]
  /\ UNCHANGED <<from, gs, current, regs, context, service>>

\* Return to code x: swapgs, if x is user code, and iretq.
ReturnTo(c, x) ==
  /\ at' = [at EXCEPT ![c] = x]
  /\ gs' = [gs EXCEPT ![c] = IF x = "user" THEN Other(@) ELSE @]

\* Mutant: the early return keeps the lock.
NothingToRunKeepsLock(c) ==
  /\ at[c] = "switch"
  /\ c \notin context
  /\ Acknowledge(c)
  /\ ReturnTo(c, from[c])
  /\ UNCHANGED <<from, current, regs, context, lock>>

\* reschedule finds no server, or one without a context: it returns to
\* isr_handler_main, which acknowledges the interrupt.
NothingToRun(c) ==
  /\ at[c] = "switch"
  /\ c \notin context
  /\ lock' = NoCore
  /\ Acknowledge(c)
  /\ ReturnTo(c, from[c])
  /\ UNCHANGED <<from, current, regs, context>>

\* Mutant: the next context is loaded before the current one is saved.
SwitchLoadsFirst(c) ==
  /\ at[c] = "switch"
  /\ c \in context
  /\ regs' = [regs EXCEPT ![c] = IF current[c] THEN from[c] ELSE @]
  /\ current' = [current EXCEPT ![c] = TRUE]
  /\ lock' = NoCore
  /\ Acknowledge(c)
  /\ ReturnTo(c, regs[c])
  /\ UNCHANGED <<from, context>>

\* Mutant: current_context is not recorded.
SwitchUnrecorded(c) ==
  /\ at[c] = "switch"
  /\ c \in context
  /\ regs' = [regs EXCEPT ![c] = IF current[c] THEN from[c] ELSE @]
  /\ UNCHANGED current
  /\ lock' = NoCore
  /\ Acknowledge(c)
  /\ ReturnTo(c, regs'[c])
  /\ UNCHANGED <<from, context>>

\* Mutant: the iretq of the switch leaves the interrupt in service.
SwitchUnacknowledged(c) ==
  /\ at[c] = "switch"
  /\ c \in context
  /\ regs' = [regs EXCEPT ![c] = IF current[c] THEN from[c] ELSE @]
  /\ current' = [current EXCEPT ![c] = TRUE]
  /\ lock' = NoCore
  /\ ReturnTo(c, regs'[c])
  /\ UNCHANGED <<from, context, service>>

\* reschedule saves the current context, if there is one, and loads the
\* server: where both are the same context, what was just saved.  Boot code
\* is not saved, and never resumes.  Since the switch does not return to
\* isr_handler_main, it acknowledges the interrupt itself.
Switch(c) ==
  /\ at[c] = "switch"
  /\ c \in context
  /\ regs' = [regs EXCEPT ![c] = IF current[c] THEN from[c] ELSE @]
  /\ current' = [current EXCEPT ![c] = TRUE]
  /\ lock' = NoCore
  /\ Acknowledge(c)
  /\ ReturnTo(c, regs'[c])
  /\ UNCHANGED <<from, context>>

\* A page fault of the server, in user mode or on user memory in a system call.
PageFault(c) ==
  /\ at[c] \in {"user", "call"}
  /\ from' = [from EXCEPT ![c] = at[c]]
  /\ gs' = [gs EXCEPT ![c] = EntrySwap(c)]
  /\ at' = [at EXCEPT ![c] = "fault"]
  /\ UNCHANGED <<current, regs, context, service, lock>>

\* isr_handler_main writes to the EOI register after an exception as well.
Resolve(c) ==
  /\ at[c] = "fault"
  /\ Acknowledge(c)
  /\ ReturnTo(c, from[c])
  /\ UNCHANGED <<from, current, regs, context, lock>>

Halt(c) ==
  /\ at[c] = "fault"
  /\ at' = [at EXCEPT ![c] = "halted"]
  /\ UNCHANGED <<from, gs, current, regs, context, service, lock>>

\* The syscall instruction masks interrupts (MSR_SFMASK).
Syscall(c) ==
  /\ at[c] = "user"
  /\ at' = [at EXCEPT ![c] = "entry"]
  /\ UNCHANGED <<from, gs, current, regs, context, service, lock>>

\* syscall_main: swapgs, switch stacks, sti.
Enter(c) ==
  /\ at[c] = "entry"
  /\ at' = [at EXCEPT ![c] = "call"]
  /\ gs' = [gs EXCEPT ![c] = Other(@)]
  /\ UNCHANGED <<from, current, regs, context, service, lock>>

\* syscall_handler returns; cli.
Leave(c) ==
  /\ at[c] = "call"
  /\ at' = [at EXCEPT ![c] = "exit"]
  /\ UNCHANGED <<from, gs, current, regs, context, service, lock>>

\* swapgs, sysret.
Sysret(c) ==
  /\ at[c] = "exit"
  /\ ReturnTo(c, "user")
  /\ UNCHANGED <<from, current, regs, context, service, lock>>

Handler(c) == NothingToRun(c) \/ Switch(c)

SwitchNext ==
  \E c \in Cores :
    \/ Launch(c) \/ Tick(c) \/ Yield(c) \/ Lock(c) \/ Handler(c)
    \/ PageFault(c) \/ Resolve(c) \/ Halt(c)
    \/ Syscall(c) \/ Enter(c) \/ Leave(c) \/ Sysret(c)

SwitchSpec == SwitchInit /\ [][SwitchNext]_switching

(***************************************************************************)
(* The timer keeps ticking, a core inside reschedule keeps running, and    *)
(* the spinlock starves nobody: a core holds it for one handler, and asks  *)
(* for it again only at its next tick, 20 ms later, or its next yield.     *)
(***************************************************************************)
FairSwitchSpec ==
  /\ SwitchSpec
  /\ \A c \in Cores : WF_switching(Tick(c)) /\ SF_switching(Lock(c)) /\ WF_switching(Handler(c))

-----------------------------------------------------------------------------
SwitchTypeOK ==
  /\ at \in [Cores -> Code]
  /\ from \in [Cores -> Interruptible]
  /\ gs \in [Cores -> {"user", "kernel"}]
  /\ current \in [Cores -> BOOLEAN]
  /\ regs \in [Cores -> {"user", "call"}]
  /\ context \subseteq Cores
  /\ service \subseteq Cores
  /\ lock \in Cores \cup {NoCore}

(***************************************************************************)
(* GS is the core's own in all kernel code that uses CORE_LOCAL and the    *)
(* server's in user mode: every way into the kernel and out of it, nested  *)
(* interrupts and context switches included, swaps exactly when needed.    *)
(***************************************************************************)
GsRight ==
  \A c \in Cores : gs[c] = IF at[c] \in {"user", "entry"} THEN "user" ELSE "kernel"

(***************************************************************************)
(* A context that is preempted resumes where it was, in the middle of a    *)
(* system call as well as in user mode, after a tick and after a fault.    *)
(***************************************************************************)
ResumesWhereItWas ==
  [][\A c \in Cores :
       /\ at[c] \in {"switch", "fault"} /\ at'[c] \notin {at[c], "halted"}
       /\ current[c]
       => at'[c] = from[c]]_switching

(***************************************************************************)
(* A core is in user code or in a system call only for its server, once    *)
(* current_context says so: syscall_handler would panic otherwise.         *)
(***************************************************************************)
CallsHaveContext ==
  \A c \in Cores : at[c] \in {"user", "entry", "call", "exit"} => current[c]

\* reschedule runs on one core at a time: reschedule_lock is held by exactly
\* the core inside it, and by none that halted or returned.
OneReschedule == \A c \in Cores : at[c] = "switch" <=> lock = c

(***************************************************************************)
(* A tick is acknowledged on every way out of its handler, the ones that   *)
(* do not return to isr_handler_main included: no code but the handler     *)
(* runs with the timer blocked, which would keep the core for good.        *)
(***************************************************************************)
TimerLive == \A c \in Cores : c \in service => at[c] \in {"isr", "switch"}

(***************************************************************************)
(* A core whose server has a context runs it in the end, however the cores *)
(* contend for reschedule_lock, and whichever of them halt.                *)
(***************************************************************************)
ReachesServer == \A c \in Cores : c \in context ~> current[c]
=============================================================================
