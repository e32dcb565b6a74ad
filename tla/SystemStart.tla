---------------------------- MODULE SystemStart ----------------------------
(***************************************************************************)
(* ServerLaunch and ContextSwitch together: launch_servers on the boot     *)
(* core, and on every core the interrupts, page faults and system calls    *)
(* through which its scheduling server is started and does its work.       *)
(*                                                                         *)
(* What ServerLaunch takes as one step of a server is here the handler of  *)
(* a system call, which a tick or a page fault may preempt before and      *)
(* after it, and the first step of a server is the switch that ends in it. *)
(* The application cores have enabled interrupts (SmpBoot says when), the  *)
(* boot core does when launch_servers is over.  Page faults are resolved   *)
(* (NeverHalts of Portal).                                                 *)
(***************************************************************************)
EXTENDS ServerLaunch, ContextSwitch

VARIABLE handled   \* handled[c]: the handler of the current system call has run

allvars == <<vars, cpu, handled>>

StartInit ==
  /\ Init
  /\ SwitchInit
  /\ handled = [c \in Cores |-> FALSE]

\* launch_servers, in the boot code of the boot core.
Launching ==
  /\ at[Boot] = "boot"
  /\ Kernel
  /\ UNCHANGED <<cpu, handled>>

\* Mutant: the boot core takes ticks while it launches.
TimerEarly(c) ==
  /\ Tick(c)
  /\ UNCHANGED <<vars, handled>>

\* A tick; the boot core takes none before the sti of dufay_entry.
Timer(c) ==
  /\ c = Boot => phase = "over"
  /\ Tick(c)
  /\ UNCHANGED <<vars, handled>>

\* reschedule resumes the server, or starts it.
Schedule(c) ==
  /\ Switch(c)
  /\ IF pc[c] = "off" THEN Start(c) ELSE UNCHANGED vars
  /\ UNCHANGED handled

\* The server touches a page that is not mapped yet.
Fault(c) ==
  /\ PageFault(c)
  /\ UNCHANGED <<vars, handled>>

\* The other steps of the handlers.
Interrupt(c) ==
  /\ Lock(c) \/ NothingToRun(c) \/ Resolve(c)
  /\ UNCHANGED <<vars, handled>>

\* The server makes its next system call, unless it has given up.
Call(c) ==
  /\ pc[c] # "failure"
  /\ Syscall(c) \/ Enter(c)
  /\ handled' = [handled EXCEPT ![c] = FALSE]
  /\ UNCHANGED vars

\* The handler of the system call that the server has come to.
Handle(c) ==
  /\ at[c] = "call" /\ ~handled[c]
  /\ DefineStack(c) \/ Join(c) \/ SetAction(c) \/ JoinMeta(c) \/ Unmute(c)
  /\ handled' = [handled EXCEPT ![c] = TRUE]
  /\ UNCHANGED cpu

\* In the loop of sched that is the system call yield.
HandleYield(c) ==
  /\ pc[c] = "loop" /\ ~handled[c]
  /\ Yield(c)
  /\ handled' = [handled EXCEPT ![c] = TRUE]
  /\ UNCHANGED vars

Return(c) ==
  /\ \/ handled[c] /\ Leave(c)
     \/ Sysret(c)
  /\ UNCHANGED <<vars, handled>>

Progress(c) == Call(c) \/ Handle(c) \/ HandleYield(c) \/ Return(c)

StartNext ==
  \/ Launching
  \/ \E c \in Cores : Timer(c) \/ Schedule(c) \/ Fault(c) \/ Interrupt(c) \/ Progress(c)

(***************************************************************************)
(* The boot core launches with interrupts disabled and nothing to wait     *)
(* for.  The timer keeps ticking, handlers run to their end, and the lock  *)
(* starves nobody, as in ContextSwitch.  A server gets to run between two  *)
(* ticks, 20 ms apart, and after the faults on its pages: however often it *)
(* is interrupted, it goes on.                                             *)
(***************************************************************************)
StartSpec ==
  /\ StartInit /\ [][StartNext]_allvars
  /\ WF_allvars(Launching)
  /\ \A c \in Cores :
       /\ WF_allvars(Timer(c)) /\ SF_allvars(Interrupt(c)) /\ WF_allvars(Schedule(c))
       /\ SF_allvars(Progress(c))
=============================================================================
