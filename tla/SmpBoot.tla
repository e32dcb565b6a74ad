------------------------------ MODULE SmpBoot -------------------------------
(***************************************************************************)
(* How the cores come up (kernel/arch/x86/smp.c, smp.real) and are handed  *)
(* to their scheduling servers (kernel/core/server.c, scheduler.c).        *)
(*                                                                         *)
(* The cores boot one another in a chain: chain_aps fills in a parameter   *)
(* block at a fixed address, wakes the next core and waits; the woken core *)
(* reads the block in its trampoline, releases the lock that its parent    *)
(* took, counts itself and goes on with the chain.  Meanwhile the boot     *)
(* core goes on to launch a scheduling server per core, and a timer tick   *)
(* on a core whose server is ready switches to it for good, because there  *)
(* is no current context to save the boot code in.                         *)
(*                                                                         *)
(* Core i is entry i of the MADT list and of logical_processor_locales.    *)
(***************************************************************************)
EXTENDS Integers

CONSTANT N   \* bootable_processor_cnt

\* There is a core, and the firmware lists the boot core first.
ASSUME NAssumption == N \in Nat \ {0}

Cores == 0 .. (N - 1)

Bsp == 0

VARIABLES
  pc,           \* pc[c]: what core c is executing
  cnt,          \* logical_processor_cnt
  lock,         \* core_init_lock is taken
  identity,     \* the first 2 MiB are mapped at address 0
  slot,         \* slot[c]: the entry chain_aps on core c is booting
  params,       \* parameter block: cpu_local and stack entry, owner of idtr
  local,        \* local[c]: the cpu_local and stack core c was started with
  idtr_ok,      \* idtr_ok[c]: the frame holding idtr was live when c read it
  irq,          \* irq[c]: interrupts are enabled
  gs,           \* gs[c]: the cpu_local CORE_LOCAL refers to (N: not set)
  launched,     \* the scheduling servers that have a context
  turn          \* the server launch_schedulers launches next

vars == <<pc, cnt, lock, identity, slot, params, local, idtr_ok, irq, gs, launched, turn>>

\* Places where a core executes boot code that belongs to the chain.
ChainPc == {"entry", "chain", "lock", "params", "ipi", "tramp", "tramp2",
            "boot", "boot2", "count", "wait", "relock"}

Init ==
  /\ pc = [c \in Cores |-> IF c = Bsp THEN "entry" ELSE "off"]
  /\ cnt = 0
  /\ lock = FALSE
  /\ identity = FALSE
  /\ slot = [c \in Cores |-> 0]
  /\ params = [slot |-> 0, idtr |-> Bsp]
  /\ local = [c \in Cores |-> N]
  /\ idtr_ok = [c \in Cores |-> TRUE]
  /\ irq = [c \in Cores |-> FALSE]
  /\ gs = [c \in Cores |-> N]
  /\ launched = {}
  /\ turn = 0

Goto(c, label) == pc' = [pc EXCEPT ![c] = label]

\* boot_aps: map the identity page, copy the trampoline, allocate the locales.
BootAps ==
  /\ pc[Bsp] = "entry"
  /\ identity' = TRUE
  /\ Goto(Bsp, "chain")
  /\ UNCHANGED <<cnt, lock, slot, params, local, idtr_ok, irq, gs, launched, turn>>

\* Where chain_aps returns to: the boot core goes on in dufay_entry, another
\* core falls into its hlt loop.
AfterChain(c) == IF c = Bsp THEN "launch" ELSE "halt"

\* chain_aps: every core is up, unmap the identity page.
ChainEnd(c) ==
  /\ pc[c] = "chain"
  /\ cnt >= N
  /\ identity' = FALSE
  /\ Goto(c, AfterChain(c))
  /\ UNCHANGED <<cnt, lock, slot, params, local, idtr_ok, irq, gs, launched, turn>>

\* chain_aps: the next entry is the executing core itself.
ChainSelf(c) ==
  /\ pc[c] = "chain"
  /\ cnt < N
  /\ cnt = c
  /\ gs' = [gs EXCEPT ![c] = cnt]
  /\ cnt' = cnt + 1
  /\ UNCHANGED <<pc, lock, identity, slot, params, local, idtr_ok, irq, launched, turn>>

\* Mutant: the entry of the executing core is booted again.
ChainNextSame(c) ==
  /\ pc[c] = "chain"
  /\ cnt < N
  /\ cnt # c
  /\ slot' = [slot EXCEPT ![c] = cnt - 1]
  /\ Goto(c, "lock")
  /\ UNCHANGED <<cnt, lock, identity, params, local, idtr_ok, irq, gs, launched, turn>>

\* chain_aps: set up the locale of the next entry, which is another core.
ChainNext(c) ==
  /\ pc[c] = "chain"
  /\ cnt < N
  /\ cnt # c
  /\ slot' = [slot EXCEPT ![c] = cnt]
  /\ Goto(c, "lock")
  /\ UNCHANGED <<cnt, lock, identity, params, local, idtr_ok, irq, gs, launched, turn>>

\* Mutant: the parameter block is left as it was.
TakeLockSkipsParams(c) ==
  /\ pc[c] = "lock"
  /\ ~lock
  /\ lock' = TRUE
  /\ Goto(c, "ipi")
  /\ UNCHANGED <<cnt, identity, slot, params, local, idtr_ok, irq, gs, launched, turn>>

\* First spinlock(&core_init_lock) of chain_aps.
TakeLock(c) ==
  /\ pc[c] = "lock"
  /\ ~lock
  /\ lock' = TRUE
  /\ Goto(c, "params")
  /\ UNCHANGED <<cnt, identity, slot, params, local, idtr_ok, irq, gs, launched, turn>>

\* Mutant: the block points at the cpu_local of the executing core.
WriteParamsOwn(c) ==
  /\ pc[c] = "params"
  /\ params' = [slot |-> c, idtr |-> c]
  /\ Goto(c, "ipi")
  /\ UNCHANGED <<cnt, lock, identity, slot, local, idtr_ok, irq, gs, launched, turn>>

WriteParams(c) ==
  /\ pc[c] = "params"
  /\ params' = [slot |-> slot[c], idtr |-> c]
  /\ Goto(c, "ipi")
  /\ UNCHANGED <<cnt, lock, identity, slot, local, idtr_ok, irq, gs, launched, turn>>

\* Mutant: chain_aps returns without waiting for the woken core.
SendIpiNoWait(c) ==
  /\ pc[c] = "ipi"
  /\ pc' = [pc EXCEPT ![c] = AfterChain(c), ![slot[c]] = "tramp"]
  /\ irq' = [irq EXCEPT ![slot[c]] = FALSE]
  /\ UNCHANGED <<cnt, lock, identity, slot, params, local, idtr_ok, gs, launched, turn>>

\* INIT and start-up interrupts: whatever the target was executing, it now
\* executes the trampoline with interrupts off.
SendIpi(c) ==
  /\ pc[c] = "ipi"
  /\ pc' = [pc EXCEPT ![c] = "wait", ![slot[c]] = "tramp"]
  /\ irq' = [irq EXCEPT ![slot[c]] = FALSE]
  /\ UNCHANGED <<cnt, lock, identity, slot, params, local, idtr_ok, gs, launched, turn>>

\* Second spinlock: wait for the woken core to release.
Relock(c) ==
  /\ pc[c] = "wait"
  /\ ~lock
  /\ lock' = TRUE
  /\ Goto(c, "relock")
  /\ UNCHANGED <<cnt, identity, slot, params, local, idtr_ok, irq, gs, launched, turn>>

\* Mutant: the identity page is unmapped whenever chain_aps returns.
UnlockUnmaps(c) ==
  /\ pc[c] = "relock"
  /\ lock' = FALSE
  /\ identity' = FALSE
  /\ Goto(c, AfterChain(c))
  /\ UNCHANGED <<cnt, slot, params, local, idtr_ok, irq, gs, launched, turn>>

Unlock(c) ==
  /\ pc[c] = "relock"
  /\ lock' = FALSE
  /\ Goto(c, AfterChain(c))
  /\ UNCHANGED <<cnt, identity, slot, params, local, idtr_ok, irq, gs, launched, turn>>

(***************************************************************************)
(* The woken core.                                                         *)
(***************************************************************************)
\* smp.real: enter long mode and load the IDT register from where the
\* parameter block points, the frame of the waking core's chain_aps.
TrampIdt(c) ==
  /\ pc[c] = "tramp"
  /\ idtr_ok' = [idtr_ok EXCEPT ![c] = pc[params.idtr] \in {"ipi", "wait", "relock"}]
  /\ Goto(c, "tramp2")
  /\ UNCHANGED <<cnt, lock, identity, slot, params, local, irq, gs, launched, turn>>

\* smp.real: read stack, entry point and cpu_local, jump to core_bootstrap.
TrampEnter(c) ==
  /\ pc[c] = "tramp2"
  /\ local' = [local EXCEPT ![c] = params.slot]
  /\ Goto(c, "boot")
  /\ UNCHANGED <<cnt, lock, identity, slot, params, idtr_ok, irq, gs, launched, turn>>

\* Mutant: the woken core does not release the lock.
BootReleaseForgotten(c) ==
  /\ pc[c] = "boot"
  /\ lock' = lock
  /\ Goto(c, "boot2")
  /\ UNCHANGED <<cnt, identity, slot, params, local, idtr_ok, irq, gs, launched, turn>>

\* core_bootstrap: system and GDT set-up, then release the parent's lock.
BootRelease(c) ==
  /\ pc[c] = "boot"
  /\ lock' = FALSE
  /\ Goto(c, "boot2")
  /\ UNCHANGED <<cnt, identity, slot, params, local, idtr_ok, irq, gs, launched, turn>>

\* core_bootstrap: GS base, timer, sti.
BootEnable(c) ==
  /\ pc[c] = "boot2"
  /\ gs' = [gs EXCEPT ![c] = local[c]]
  /\ irq' = [irq EXCEPT ![c] = TRUE]
  /\ Goto(c, "count")
  /\ UNCHANGED <<cnt, lock, identity, slot, params, local, idtr_ok, launched, turn>>

\* core_bootstrap: logical_processor_cnt++, then chain_aps.
BootCount(c) ==
  /\ pc[c] = "count"
  /\ cnt' = cnt + 1
  /\ Goto(c, "chain")
  /\ UNCHANGED <<lock, identity, slot, params, local, idtr_ok, irq, gs, launched, turn>>

(***************************************************************************)
(* launch_servers on the boot core, and the timer.                         *)
(***************************************************************************)
\* launch_schedulers: launch_server gives the next server its context, and
\* the shared link of the server is established.
Launch ==
  /\ pc[Bsp] = "launch"
  /\ turn < N
  /\ launched' = launched \cup {turn}
  /\ turn' = turn + 1
  /\ UNCHANGED <<pc, cnt, lock, identity, slot, params, local, idtr_ok, irq, gs>>

\* launch_schedulers: launch_server fails, the loop continues without it.
LaunchSkip ==
  /\ pc[Bsp] = "launch"
  /\ turn < N
  /\ turn' = turn + 1
  /\ UNCHANGED <<pc, cnt, lock, identity, slot, params, local, idtr_ok, irq, gs, launched>>

\* launch_schedulers: the shared link fails, the servers left are not launched.
LaunchAbort ==
  /\ pc[Bsp] = "launch"
  /\ turn < N
  /\ launched' = launched \cup {turn}
  /\ turn' = N
  /\ UNCHANGED <<pc, cnt, lock, identity, slot, params, local, idtr_ok, irq, gs>>

\* dufay_entry: sti and hlt.
LaunchEnd ==
  /\ pc[Bsp] = "launch"
  /\ turn = N
  /\ irq' = [irq EXCEPT ![Bsp] = TRUE]
  /\ Goto(Bsp, "halt")
  /\ UNCHANGED <<cnt, lock, identity, slot, params, local, idtr_ok, gs, launched, turn>>

\* A timer interrupt: reschedule finds the core's scheduling server with a
\* context and switches to it.  (Without a context it returns: no change.)
Tick(c) ==
  /\ irq[c]
  /\ pc[c] # "server"
  /\ gs[c] \in launched
  /\ Goto(c, "server")
  /\ UNCHANGED <<cnt, lock, identity, slot, params, local, idtr_ok, irq, gs, launched, turn>>

\* One step of the code core c executes.
Step(c) ==
  \/ ChainEnd(c) \/ ChainSelf(c) \/ ChainNext(c) \/ TakeLock(c)
  \/ WriteParams(c) \/ SendIpi(c) \/ Relock(c) \/ Unlock(c)
  \/ TrampIdt(c) \/ TrampEnter(c) \/ BootRelease(c) \/ BootEnable(c)
  \/ BootCount(c)

Next ==
  \/ \E c \in Cores : Step(c) \/ Tick(c)
  \/ BootAps \/ Launch \/ LaunchSkip \/ LaunchAbort \/ LaunchEnd

Spec == Init /\ [][Next]_vars

\* A core that runs keeps running and its timer keeps ticking.
FairSpec ==
  /\ Spec
  /\ WF_vars(BootAps) /\ WF_vars(Launch \/ LaunchSkip \/ LaunchAbort)
  /\ WF_vars(LaunchEnd)
  /\ \A c \in Cores : WF_vars(Step(c)) /\ WF_vars(Tick(c))

-----------------------------------------------------------------------------
TypeOK ==
  /\ pc \in [Cores -> ChainPc \cup {"off", "launch", "halt", "server"}]
  /\ cnt \in 0 .. N
  /\ lock \in BOOLEAN
  /\ identity \in BOOLEAN
  /\ slot \in [Cores -> Cores]
  /\ params \in [slot : Cores, idtr : Cores]
  /\ local \in [Cores -> 0 .. N]
  /\ idtr_ok \in [Cores -> BOOLEAN]
  /\ irq \in [Cores -> BOOLEAN]
  /\ gs \in [Cores -> 0 .. N]
  /\ launched \subseteq Cores
  /\ turn \in 0 .. N

(***************************************************************************)
(* The parameter block belongs to the core in the trampoline: it names     *)
(* that core's entry until the core has read it, although the waking core  *)
(* keeps no record of the hand-over but the lock.                          *)
(***************************************************************************)
ParamsOwned ==
  \A c \in Cores : pc[c] \in {"tramp", "tramp2"} => params.slot = c

(***************************************************************************)
(* No two cores run on the same stack or share a cpu_local, and CORE_LOCAL *)
(* of a core is its own entry.                                             *)
(***************************************************************************)
OwnLocale ==
  \A c \in Cores : local[c] \in {c, N} /\ gs[c] \in {c, N}

(***************************************************************************)
(* The identity mapping, without which the trampoline faults when it turns *)
(* paging on, is there as long as a core is in the trampoline.             *)
(***************************************************************************)
IdentityHeld ==
  \A c \in Cores : pc[c] \in {"tramp", "tramp2"} => identity

(***************************************************************************)
(* A core is woken once: no INIT interrupt hits a core that has started.   *)
(***************************************************************************)
WokenOnce ==
  [][\A c \in Cores : pc'[c] = "tramp" /\ pc[c] # "tramp" => pc[c] = "off"]_vars

(***************************************************************************)
(* The IDT register image that a woken core loads is read from a live      *)
(* stack frame, because chain_aps waits for the woken core before it       *)
(* returns, unless a tick has taken the waking core away for good.         *)
(***************************************************************************)
IdtrLive == \A c \in Cores : ~idtr_ok[c] => c > 0 /\ pc[c - 1] = "server"

(***************************************************************************)
(* Every core comes up, and every core whose scheduling server could be    *)
(* launched ends in it; the others idle.                                   *)
(***************************************************************************)
AllServed ==
  <>(\A c \in Cores : pc[c] = IF c \in launched THEN "server" ELSE "halt")

(***************************************************************************)
(* A tick has taken a core away before it has woken the next one, or with  *)
(* core_init_lock, which no core in boot code answers for any more.        *)
(***************************************************************************)
Cut ==
  \E c \in Cores :
    /\ pc[c] = "server"
    /\ \/ c + 1 \in Cores /\ pc[c + 1] = "off"
       \/ lock /\ \A d \in Cores :
            pc[d] \notin {"params", "ipi", "tramp", "tramp2", "boot", "relock"}

(***************************************************************************)
(* Ticks that land on boot code do harm in these two ways only: otherwise  *)
(* every core comes up and ends in its server.  In particular a core taken *)
(* away in chain_aps while it waits for the core it has woken, or after    *)
(* the last core is counted, blocks nobody.                                *)
(***************************************************************************)
ServedUnlessCut == <>Cut \/ AllServed
=============================================================================
