------------------------------- MODULE Traps -------------------------------
(***************************************************************************)
(* One core's descriptor tables and the frames that it enters and leaves   *)
(* the kernel with: x86_system_init, gdt_init, idt_init, the stubs of      *)
(* isr.asm and isr_handler_main, the registers that reschedule resumes,    *)
(* and syscall_main.                                                       *)
(*                                                                         *)
(* Every word is a number.  cpu holds the registers; its rip says where    *)
(* the core is, so that a return to a wrong address shows.  cpu also holds *)
(* user_stack and error, the fields of cpu_local that syscall_main uses.   *)
(* The stack is a sequence that ends at its lowest address; in the kernel  *)
(* rsp is the number of words on it.                                       *)
(***************************************************************************)
EXTENDS Integers, Sequences

\* The order of pushall, of popall and of the pops of reschedule and
\* syscall_main, and the layout of struct registers.
Pushes == <<"rax", "rbx", "rcx", "rdx", "rbp", "rdi", "rsi", "r8", "r9", "r10", "r11",
            "r12", "r13", "r14", "r15">>

Pops == <<"r15", "r14", "r13", "r12", "r11", "r10", "r9", "r8", "rsi", "rdi", "rbp",
          "rdx", "rcx", "rbx", "rax">>

Layout == Pops \o <<"isr_number", "error_code", "rip", "cs", "rflags", "rsp", "ss">>

\* Where the core is: in boot code, in the server, in syscall_main after the
\* n-th push or pop, or in isr_handler_main.
Boot == 1
UserCode == 100
Pushed(n) == 1000 + n
Popped(n) == 2000 + n
IsrHandler == 3000

\* Selectors, and rflags with interrupts enabled.
KernelCode == 40
KernelData == 48
UserData == 59
UserSeg == 67
IF_ == 512

Gprs == {Pushes[k] : k \in DOMAIN Pushes}

Registers == Gprs \cup {"rip", "cs", "rflags", "rsp", "ss"}

VARIABLES
  core,         \* "bsp" or "ap"
  booted,       \* how many steps of its boot code the core has taken
  cpu, stack,
  gdt,          \* the loaded GDT: what a selector stands for
  tr,           \* whether a task register is loaded
  idt,          \* whether the IDT is loaded
  star,         \* whether syscall_main is installed
  gs,           \* whether GS points to the core's cpu_local
  current,      \* whether current_context is set
  state,        \* "running", "halted" in isr_handler_main, or "lost"
  vector,       \* the interrupt being handled, or -1
  interrupted,  \* history: the registers that it interrupted
  called        \* history: the registers at the system call being served

traps == <<core, booted, cpu, stack, gdt, tr, idt, star, gs, current, state, vector,
           interrupted, called>>

\* What a selector stands for in the loader's GDT.
LoaderGdt == [s \in {KernelCode, KernelData} |-> [code |-> s = KernelCode, ring |-> 0]]

BootCpu == [r \in Registers \cup {"user_stack", "error"} |->
              CASE r = "rip" -> Boot [] r = "cs" -> KernelCode [] r = "ss" -> KernelData
                [] OTHER -> 0]

\* The order in which the boot core and the others set themselves up.
Program ==
  [bsp |-> <<"system", "fadt", "gdt", "idt", "apic", "gs", "sti">>,
   ap |-> <<"idt", "system", "gdt", "gs", "timer", "sti">>]

TrapsInit ==
  /\ core \in {"bsp", "ap"}
  /\ booted = 0
  /\ cpu = BootCpu /\ interrupted = BootCpu /\ called = BootCpu
  /\ stack = <<>>
  /\ gdt = LoaderGdt
  /\ tr = FALSE /\ idt = FALSE /\ star = FALSE /\ gs = FALSE /\ current = FALSE
  /\ state = "running"
  /\ vector = -1

-----------------------------------------------------------------------------
(* Boot code.                                                              *)

AtStep(name) ==
  state = "running" /\ booted < Len(Program[core]) /\ Program[core][booted + 1] = name

StepDone == booted' = booted + 1

SystemInit ==
  /\ AtStep("system") /\ StepDone
  /\ star' = TRUE
  /\ UNCHANGED <<core, cpu, stack, gdt, tr, idt, gs, current, state, vector, interrupted, called>>

\* gdt_init: the table and the TSS; loading the selector of GS clears its base.
GdtInit ==
  /\ AtStep("gdt") /\ StepDone
  /\ gdt' = [s \in {KernelCode, KernelData, 56, 64} |->
               [code |-> s \in {KernelCode, 64}, ring |-> IF s \in {56, 64} THEN 3 ELSE 0]]
  /\ tr' = TRUE
  /\ gs' = FALSE
  /\ cpu' = [cpu EXCEPT !["cs"] = KernelCode, !["ss"] = KernelData]
  /\ UNCHANGED <<core, stack, idt, star, current, state, vector, interrupted, called>>

\* idt_init on the boot core, the lidt of the trampoline on the others.
IdtInit ==
  /\ AtStep("idt") /\ StepDone
  /\ idt' = TRUE
  /\ UNCHANGED <<core, cpu, stack, gdt, tr, star, gs, current, state, vector, interrupted, called>>

\* chain_aps on the boot core, if it is listed, core_bootstrap on the others.
SetGs(listed) ==
  /\ AtStep("gs") /\ StepDone
  /\ gs' = (listed \/ core = "ap")
  /\ UNCHANGED <<core, cpu, stack, gdt, tr, idt, star, current, state, vector, interrupted, called>>

Sti ==
  /\ AtStep("sti") /\ StepDone
  /\ cpu' = [cpu EXCEPT !["rflags"] = IF_]
  /\ UNCHANGED <<core, stack, gdt, tr, idt, star, gs, current, state, vector, interrupted, called>>

-----------------------------------------------------------------------------
(* Interrupts and exceptions.                                              *)

\* The exceptions that push an error code, and the stubs that expect one.
HasError == {8, 10, 11, 12, 13, 14, 17, 21, 29, 30}

\* Mutant: the stub of the page fault pushes a zero as well.
ErrorStubsShort == {8, 10, 11, 12, 13}

ErrorStubs == {8, 10, 11, 12, 13, 14}

User == cpu["cs"] % 4 = 3

(***************************************************************************)
(* The core takes interrupt v.  From the server it changes to the stack of *)
(* the TSS and clears SS.  The processor pushes the five words and perhaps *)
(* an error code, the stub its words and the general registers.            *)
(***************************************************************************)
Deliver(v) ==
  LET below == IF User THEN <<>> ELSE SubSeq(stack, 1, cpu["rsp"])
      pushed == <<cpu["ss"], cpu["rsp"], cpu["rflags"], cpu["cs"], cpu["rip"]>>
                \o (IF v \in HasError THEN <<7>> ELSE <<>>)
                \o (IF v \in ErrorStubs THEN <<v>> ELSE <<0, v>>)
                \o [k \in DOMAIN Pushes |-> cpu[Pushes[k]]]
  IN  /\ state = "running" /\ vector = -1
      /\ IF idt /\ (User => tr)
         THEN /\ stack' = below \o pushed
              /\ cpu' = [cpu EXCEPT !["rip"] = IsrHandler, !["cs"] = KernelCode,
                                    !["ss"] = IF User THEN 0 ELSE cpu["ss"],
                                    !["rflags"] = 0, !["rsp"] = Len(below \o pushed)]
              /\ state' = state
         ELSE state' = "lost" /\ UNCHANGED <<stack, cpu>>
      /\ vector' = v
      /\ interrupted' = cpu
      /\ UNCHANGED <<core, booted, gdt, tr, idt, star, gs, current, called>>

\* The frame as struct registers, from its lowest address.
Frame == [k \in DOMAIN Layout |-> stack[cpu["rsp"] - k + 1]]

Field(name) == Frame[CHOOSE k \in DOMAIN Layout : Layout[k] = name]

\* Whether iretq can load the selectors.
Loadable(cs, ss) ==
  LET Is(s, code) == /\ s - (s % 8) \in DOMAIN gdt
                     /\ gdt[s - (s % 8)] = [code |-> code, ring |-> cs % 4]
  IN  /\ Is(cs, TRUE)
      /\ \/ ss = 0 /\ cs % 4 = 0
         \/ Is(ss, FALSE)

\* The general registers are popped from a struct registers, then iretq.
Resume(words) ==
  /\ IF Loadable(words[19], words[22])
     THEN /\ cpu' = [r \in DOMAIN cpu |->
                      CASE r \in Gprs -> words[CHOOSE k \in DOMAIN Pops : Pops[k] = r]
                        [] r = "rip" -> words[18] [] r = "cs" -> words[19]
                        [] r = "rflags" -> words[20] [] r = "rsp" -> words[21]
                        [] r = "ss" -> words[22] [] OTHER -> cpu[r]]
          /\ stack' = IF words[19] % 4 = 3 THEN <<>> ELSE SubSeq(stack, 1, words[21])
          /\ state' = state
     ELSE state' = "lost" /\ UNCHANGED <<cpu, stack>>
  /\ vector' = -1
  /\ interrupted' = BootCpu
  /\ UNCHANGED <<core, booted, gdt, tr, idt, star, gs, called>>

Handling(n) == state = "running" /\ vector # -1 /\ Field("isr_number") = n

\* An exception is reported and the core halts; so does a page fault that
\* no portal explains.
Halt ==
  /\ \E n \in 0 .. 31 : Handling(n)
  /\ state' = "halted"
  /\ UNCHANGED <<core, booted, cpu, stack, gdt, tr, idt, star, gs, current, vector, interrupted,
                 called>>

\* isr_handler_main returns: the page fault is resolved, or the interrupt has
\* no handler.
Return ==
  /\ \E n \in {14} \cup 33 .. 255 : Handling(n)
  /\ Resume(Frame)
  /\ UNCHANGED current

\* reschedule reads cpu_local; a GS that was not set leads anywhere.
WithLocal(words) ==
  IF gs THEN Resume(words)
  ELSE /\ state' = "lost"
       /\ UNCHANGED <<core, booted, cpu, stack, gdt, tr, idt, star, gs, vector, interrupted, called>>

\* reschedule finds no context.
RescheduleNothing ==
  /\ Handling(32)
  /\ ~current
  /\ WithLocal(Frame)
  /\ UNCHANGED current

\* The registers that a server starts with.
Initial ==
  [k \in DOMAIN Layout |->
     CASE Layout[k] = "rip" -> UserCode [] Layout[k] = "cs" -> UserSeg
       [] Layout[k] = "ss" -> UserData [] Layout[k] = "rflags" -> IF_
       [] Layout[k] = "rsp" -> 300 [] OTHER -> 0]

\* The server of the core is resumed: where it was interrupted, for it is the
\* only context, or at its start.
Switch ==
  /\ Handling(32)
  /\ WithLocal(IF current THEN Frame ELSE Initial)
  /\ current' = TRUE

-----------------------------------------------------------------------------
(* System calls.                                                           *)

Running(rip) == state = "running" /\ vector = -1 /\ cpu["rip"] = rip

\* The server computes: afterwards every register has a value of its own.
Compute ==
  /\ Running(UserCode)
  /\ cpu' = [r \in DOMAIN cpu |->
               IF r \in Gprs THEN 200 + CHOOSE k \in DOMAIN Pushes : Pushes[k] = r
               ELSE IF r = "rsp" THEN 300 ELSE cpu[r]]
  /\ UNCHANGED <<core, booted, stack, gdt, tr, idt, star, gs, current, state, vector, interrupted,
                 called>>

\* syscall, up to the sti of syscall_main.
Syscall ==
  /\ Running(UserCode)
  /\ IF star /\ gs
     THEN /\ cpu' = [cpu EXCEPT !["rcx"] = cpu["rip"], !["r11"] = cpu["rflags"],
                                !["cs"] = KernelCode, !["ss"] = KernelData,
                                !["user_stack"] = cpu["rsp"], !["rsp"] = 0,
                                !["rflags"] = IF_, !["rip"] = Pushed(0)]
          /\ state' = state
     ELSE state' = "lost" /\ cpu' = cpu
  /\ called' = cpu
  /\ UNCHANGED <<core, booted, stack, gdt, tr, idt, star, gs, current, vector, interrupted>>

\* What syscall_main pushes: a register, a field of cpu_local or a number.
Words ==
  <<cpu["rcx"], cpu["r11"], UserData, cpu["user_stack"], cpu["r11"], UserSeg, cpu["rcx"], 0, 0>>
  \o [k \in DOMAIN Pushes |-> cpu[Pushes[k]]]

PushWord ==
  \E n \in 0 .. Len(Words) - 1 :
    /\ Running(Pushed(n))
    /\ stack' = Append(SubSeq(stack, 1, cpu["rsp"]), Words[n + 1])
    /\ cpu' = [cpu EXCEPT !["rsp"] = @ + 1, !["rip"] = Pushed(n + 1)]
    /\ UNCHANGED <<core, booted, gdt, tr, idt, star, gs, current, state, vector, interrupted,
                   called>>

\* syscall_handler runs and leaves its result in cpu_local.
SyscallHandler ==
  /\ Running(Pushed(Len(Words)))
  /\ \E e \in 0 .. 1 :
       cpu' = [r \in DOMAIN cpu |-> CASE r \in Gprs -> 0 [] r = "error" -> e
                                      [] r = "rip" -> Popped(0) [] OTHER -> cpu[r]]
  /\ UNCHANGED <<core, booted, stack, gdt, tr, idt, star, gs, current, state, vector, interrupted,
                 called>>

\* Mutant: the words between the general registers and r11 are not skipped in full.
AfterPopsShort(n) == IF n = Len(Pops) THEN 6 ELSE 1

\* The words that instruction n of the return takes off the stack.
AfterPops(n) == IF n = Len(Pops) THEN 7 ELSE 1

\* The pops of syscall_main, the words it skips, r11 and rcx.
Unwind == Pops \o <<"skip", "r11", "rcx">>

PopWord ==
  \E n \in 0 .. Len(Unwind) - 1 :
    /\ Running(Popped(n))
    /\ cpu' = [r \in DOMAIN cpu |->
                 CASE r = Unwind[n + 1] -> stack[cpu["rsp"]]
                   [] r = "rsp" -> cpu["rsp"] - AfterPops(n)
                   [] r = "rip" -> Popped(n + 1) [] OTHER -> cpu[r]]
    /\ stack' = SubSeq(stack, 1, cpu["rsp"] - AfterPops(n))
    /\ UNCHANGED <<core, booted, gdt, tr, idt, star, gs, current, state, vector, interrupted,
                   called>>

\* From the cli to sysret.
Sysret ==
  /\ Running(Popped(Len(Unwind)))
  /\ cpu' = [cpu EXCEPT !["rdx"] = cpu["error"], !["rsp"] = cpu["user_stack"],
                        !["rip"] = cpu["rcx"], !["rflags"] = cpu["r11"],
                        !["cs"] = UserSeg, !["ss"] = UserData]
  /\ stack' = <<>>
  /\ called' = BootCpu
  /\ UNCHANGED <<core, booted, gdt, tr, idt, star, gs, current, state, vector, interrupted>>

TrapsStep ==
  \/ SystemInit \/ GdtInit \/ IdtInit \/ Sti
  \/ Halt \/ Return \/ RescheduleNothing \/ Switch
  \/ Compute \/ Syscall \/ PushWord \/ SyscallHandler \/ PopWord \/ Sysret

-----------------------------------------------------------------------------
(***************************************************************************)
(* What is interrupted goes on as if nothing had happened: when the core   *)
(* leaves isr_handler_main and does not start its server, every register   *)
(* is what it was, also where the interrupt fell between two pushes or     *)
(* pops of syscall_main.  And a system call gives the server its registers *)
(* back, except those that the instruction itself uses and rdx, which has  *)
(* the error; wherever timer ticks fall.                                   *)
(***************************************************************************)
RegistersKept ==
  [][ /\ vector # -1 /\ vector' = -1 /\ (current' => current) => cpu' = interrupted
      /\ cpu["rip"] = Popped(Len(Unwind)) /\ cpu'["cs"] = UserSeg =>
           \A r \in Registers \ {"rcx", "r11", "rdx"} : cpu'[r] = called[r] ]_traps
=============================================================================
