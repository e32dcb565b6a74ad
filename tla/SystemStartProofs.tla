------------------------- MODULE SystemStartProofs -------------------------
(***************************************************************************)
(* For any number of cores, stacks and boot modules.  Of ServerLaunch: no  *)
(* scheduling server gives up, and none takes notifications before it is   *)
(* ready.  Of ContextSwitch: GS is always the right one, reschedule runs   *)
(* on one core at a time, a system call always finds its context, and      *)
(* every tick is acknowledged.  And SystemStart implements both.  The      *)
(* launch stops only where every server that was launched is in its loop.  *)
(***************************************************************************)
EXTENDS SystemStart, TLAPS

\* What the proofs need of the types.
Types ==
  /\ phase \in {"register", "meta", "launch", "link", "io", "iolaunch", "over", "halted"}
  /\ next \in Nat /\ failFrom \in 0 .. N
  /\ context \subseteq Cores
  /\ pc \in [Cores -> {"off", "stacks", "join", "action", "meta", "unmute", "loop", "failure"}]
  /\ stacks \in [Cores -> Nat]
  /\ actions \in [Cores -> SUBSET {Enqueue, Dequeue}]
  /\ meta \in [Cores -> BOOLEAN] /\ active \in [Cores -> BOOLEAN]

(***************************************************************************)
(* Where the launch is: every server has its module before any is          *)
(* launched, the descriptors are shared before any context is published,   *)
(* and the first link is made before the second context is, and before the *)
(* launch is over.                                                         *)
(***************************************************************************)
Order ==
  /\ phase \notin {"register", "meta"} => <<Meta>> \in points
  /\ phase \in {"register", "meta"} => context = {}
  /\ phase = "meta" => next = 0
  /\ phase \in {"launch", "link"} => \A c \in context : c <= next
  /\ phase = "launch" => next \notin context
  /\ phase = "link" => next < failFrom
  /\ \A c \in context : c < failFrom
  /\ /\ failFrom > 0
     /\ \/ phase \in {"io", "iolaunch", "over", "halted"}
        \/ phase \in {"launch", "link"} /\ next > 0
     => LinkName0 \in points

\* The modules of the servers created so far.
Filed ==
  /\ phase \in {"register", "meta", "launch", "link"} => next < N
  /\ \A c \in Cores : phase # "register" \/ c < next => LinkName(c) \in files

\* Where a server is, and what it has set up by then.
Prepared ==
  \A c \in Cores :
    /\ pc[c] # "off" => c \in context /\ (c = Boot => phase = "over")
    /\ pc[c] = "off" => stacks[c] = 0
    /\ pc[c] = "stacks" => stacks[c] < Stacks
    /\ pc[c] \notin {"off", "stacks"} => stacks[c] = Stacks
    /\ pc[c] \in {"off", "stacks", "join"} => actions[c] = {}
    /\ pc[c] = "action" => actions[c] \in {{}, {Enqueue}}
    /\ pc[c] \in {"meta", "unmute", "loop"} => actions[c] = {Enqueue, Dequeue}
    /\ pc[c] \in {"unmute", "loop"} => meta[c]
    /\ active[c] => pc[c] = "loop"

Inv == Types /\ Order /\ Filed /\ Prepared /\ LinkBeforeJoin

LEMMA CoreZero == 0 \in Cores /\ Cores \subseteq Nat
  BY NAssumption DEF Cores

LEMMA InitInv == Init => Inv
  <1> SUFFICES ASSUME Init PROVE Inv
    OBVIOUS
  <1>1. Types
    BY LaunchAssumption DEF Init, Types
  <1>2. Order /\ Filed
    BY NAssumption DEF Init, Order, Filed, Cores
  <1>3. Prepared /\ LinkBeforeJoin
    BY DEF Init, Prepared, LinkBeforeJoin
  <1> QED BY <1>1, <1>2, <1>3 DEF Inv

\* Creating an IO server does not touch the record of a scheduling server.
LEMMA OtherName == ASSUME NEW c, NEW m PROVE LinkName(c) # <<m>>
  <1>1. Len(LinkName(c)) = 2 /\ Len(<<m>>) = 1
    BY DEF LinkName
  <1> QED BY <1>1

LEMMA FiledKept == ASSUME Inv, Kernel PROVE Filed'
  <1> USE DEF Inv
  <1>1. CASE Register
    <2>1. files' = files \cup {LinkName(next)}
      BY <1>1 DEF Register, CreateServer
    <2>2. next \in Nat /\ next < N /\ N \in Nat
      BY <1>1, NAssumption DEF Register, Types, Filed
    <2>3. CASE next + 1 < N
      BY <1>1, <2>1, <2>2, <2>3 DEF Register, Advance, Filed, Cores
    <2>4. CASE ~(next + 1 < N)
      BY <1>1, <2>1, <2>2, <2>4 DEF Register, Advance, Filed, Cores
    <2> QED BY <2>3, <2>4
  <1>2. CASE CreateMeta \/ LaunchServer
    BY <1>2 DEF CreateMeta, LaunchServer, Filed
  <1>3. CASE LaunchFails \/ EstablishLink
    BY <1>3, LaunchAssumption DEF LaunchFails, EstablishLink, Advance, Types, Filed
  <1>4. CASE RegisterIo
    <2>1. \A c \in Cores : LinkName(c) \in files
      BY <1>4 DEF RegisterIo, Filed
    <2>2. \A c \in Cores : LinkName(c) # <<modules[next + 1]>>
      BY OtherName
    <2>3. \A c \in Cores : LinkName(c) \in files'
      BY <1>4, <2>1, <2>2 DEF RegisterIo, CreateServer
    <2> QED BY ZenonT(60), <1>4, <2>3 DEF RegisterIo, Filed
  <1>5. CASE LaunchIo \/ LaunchFaults \/ IoOver
    BY <1>5 DEF LaunchIo, LaunchFaults, IoOver, Filed
  <1> QED BY <1>1, <1>2, <1>3, <1>4, <1>5 DEF Kernel

\* A share point, once made, remains.
LEMMA PointsGrow == ASSUME Kernel PROVE points \subseteq points'
  BY DEF Kernel, Register, CreateMeta, LaunchServer, LaunchFails, EstablishLink,
         RegisterIo, LaunchIo, LaunchFaults, IoOver

LEMMA KernelInv == ASSUME Inv, Kernel PROVE Inv'
  <1> USE DEF Inv
  <1>1. /\ UNCHANGED <<pc, link, stacks, actions, meta, active>>
        /\ failFrom' = failFrom
    BY DEF Kernel, Register, CreateMeta, LaunchServer, LaunchFails, EstablishLink,
           RegisterIo, LaunchIo, LaunchFaults, IoOver, server
  <1>2. context \subseteq context' /\ (phase = "over" => phase' = "over")
    BY DEF Kernel, Register, CreateMeta, LaunchServer, LaunchFails, EstablishLink,
           RegisterIo, LaunchIo, LaunchFaults, IoOver
  <1>3. Prepared' /\ LinkBeforeJoin' /\ Filed'
    BY <1>1, <1>2, FiledKept DEF Prepared, LinkBeforeJoin
  <1>9. CASE Register
    <2>1. Types'
      BY <1>9, <1>1 DEF Register, Advance, Types
    <2>2. Order'
      BY <1>9, <1>1 DEF Register, Advance, Types, Order
    <2> QED BY <2>1, <2>2, <1>3
  <1>4. CASE CreateMeta
    <2>1. Types' /\ Order'
      BY <1>4, <1>1 DEF CreateMeta, Types, Order
    <2> QED BY <2>1, <1>3
  <1>5. CASE LaunchServer
    <2>1. next \in Cores
      BY <1>5, NAssumption DEF LaunchServer, Types, Cores
    <2>2. Types' /\ Order'
      BY <1>5, <1>1, <2>1, CoreZero DEF LaunchServer, Types, Order
    <2> QED BY <2>2, <1>3
  <1>6. CASE LaunchFails
    <2>1. \A c \in context : c \in Nat /\ c < next
      BY <1>6, CoreZero DEF LaunchFails, Types, Order
    <2>2. Types'
      BY <1>6, <1>1 DEF LaunchFails, Advance, Types
    <2>5. next >= failFrom
      BY <1>6, NAssumption DEF LaunchFails, Types, Filed, Cores
    <2>3. failFrom > 0 => LinkName0 \in points
      BY <1>6, <2>5, LaunchAssumption DEF LaunchFails, Types, Order
    <2>4. Order'
      BY <1>6, <1>1, <2>1, <2>3, LaunchAssumption DEF LaunchFails, Advance, Types, Order
    <2> QED BY <2>2, <2>4, <1>3
  <1>7. CASE EstablishLink
    <2>1. Types'
      BY <1>7, <1>1 DEF EstablishLink, Advance, Types
    <2>2. LinkName0 \in points'
      <3>1. CASE next = 0
        <4>1. LinkName(next) = LinkName0
          BY <3>1 DEF LinkName, LinkName0
        <4> QED BY <1>7, <4>1 DEF EstablishLink
      <3>2. CASE next # 0
        <4>1. next > 0 /\ failFrom > 0
          BY <1>7, <3>2 DEF EstablishLink, Types, Order
        <4>2. LinkName0 \in points
          BY <1>7, <4>1 DEF EstablishLink, Order
        <4> QED BY <1>7, <4>2 DEF EstablishLink
      <3> QED BY <3>1, <3>2
    <2>3. Order'
      <3>1. <<Meta>> \in points' /\ context' = context /\ phase = "link"
        BY <1>7 DEF EstablishLink, Order
      <3>2. \A d \in context : d \in Nat /\ d <= next /\ d < failFrom
        BY <3>1, CoreZero DEF Types, Order
      <3>3. CASE next + 1 < N
        BY <1>7, <1>1, <2>2, <3>1, <3>2, <3>3 DEF EstablishLink, Advance, Types, Order
      <3>4. CASE ~(next + 1 < N)
        BY <1>7, <1>1, <2>2, <3>1, <3>2, <3>4 DEF EstablishLink, Advance, Types, Order
      <3> QED BY <3>3, <3>4
    <2> QED BY <2>1, <2>3, <1>3
  <1>8. CASE RegisterIo \/ LaunchIo \/ LaunchFaults \/ IoOver
    <2>1. /\ phase \in {"io", "iolaunch"} /\ phase' \in {"io", "iolaunch", "over", "halted"}
          /\ next' \in {next, next + 1}
          /\ UNCHANGED <<context, points>>
      BY <1>8 DEF RegisterIo, LaunchIo, LaunchFaults, IoOver
    <2>2. Types' /\ Order'
      BY <2>1, <1>1 DEF Types, Order
    <2> QED BY <2>2, <1>3
  <1> QED BY <1>4, <1>5, <1>6, <1>7, <1>8, <1>9 DEF Kernel

\* The link that a running server joins exists.
LEMMA LinkThere ==
  ASSUME Inv, NEW c \in Cores, pc[c] # "off" PROVE LinkName0 \in points /\ <<Meta>> \in points
  <1>1. c \in context /\ (c = 0 => phase = "over")
    BY DEF Inv, Prepared, Boot
  <1>2. failFrom > 0 /\ c \in Nat
    BY <1>1, CoreZero DEF Inv, Order, Types
  <1>3. <<Meta>> \in points
    BY <1>1 DEF Inv, Order
  <1>4. LinkName0 \in points
    BY <1>1, <1>2 DEF Inv, Order, Types
  <1> QED BY <1>3, <1>4

LEMMA ServerInv == ASSUME Inv, NEW c \in Cores, Server(c) PROVE Inv'
  <1> USE DEF Inv
  <1>1. UNCHANGED kernel
    BY DEF Server, Start, DefineStack, Join, SetAction, JoinMeta, Unmute
  <1>2. Order' /\ Filed'
    BY <1>1 DEF kernel, Order, Filed
  <1>3. CASE Start(c)
    <2>5. Types'
      BY <1>1, <1>3, LaunchAssumption DEF Start, Goto, kernel, Types
    <2>1. /\ pc'[c] = "stacks" /\ pc[c] = "off"
          /\ \A d \in Cores \ {c} : pc'[d] = pc[d]
          /\ c \in context /\ (c = Boot => phase = "over")
          /\ UNCHANGED <<stacks, actions, meta, active>>
      BY <1>3 DEF Start, Goto, Types
    <2>2. 0 < Stacks
      BY LaunchAssumption
    <2>3. stacks[c] = 0 /\ ~active[c] /\ actions[c] = {}
      BY <2>1 DEF Prepared
    <2>6. Prepared'
      BY <1>1, <2>1, <2>2, <2>3 DEF kernel, Prepared
    <2>7. LinkBeforeJoin'
      BY <1>3, LaunchAssumption DEF Start, Goto, Types, LinkBeforeJoin
    <2> QED BY <1>2, <2>5, <2>6, <2>7
  <1>4. CASE DefineStack(c)
    <2>5. Types'
      BY <1>1, <1>4, LaunchAssumption DEF DefineStack, PushStack, Goto, kernel, Types
    <2>1. /\ stacks'[c] = stacks[c] + 1
          /\ stacks[c] \in Nat /\ stacks[c] < Stacks
          /\ \A d \in Cores \ {c} : stacks'[d] = stacks[d] /\ pc'[d] = pc[d]
          /\ pc'[c] = IF stacks[c] + 1 < Stacks THEN "stacks" ELSE "join"
      BY <1>4 DEF DefineStack, PushStack, Goto, Types, Prepared
    <2>2. UNCHANGED <<actions, meta, active>> /\ pc[c] = "stacks"
      BY <1>4 DEF DefineStack, PushStack
    <2>6. Prepared'
      <3>1. ~active[c] /\ actions[c] = {} /\ c \in context /\ (c = Boot => phase = "over")
        BY <2>2 DEF Prepared
      <3>2. /\ pc'[c] \in {"stacks", "join"}
            /\ pc'[c] = "stacks" => stacks'[c] < Stacks
            /\ pc'[c] = "join" => stacks'[c] = Stacks
        BY <2>1, LaunchAssumption
      <3>3. context' = context /\ phase' = phase
        BY <1>1 DEF kernel
      <3>4. \A d \in Cores \ {c} : stacks'[d] = stacks[d] /\ pc'[d] = pc[d]
        BY <2>1
      <3> QED BY SMTT(30), <2>2, <3>1, <3>2, <3>3, <3>4 DEF Prepared
    <2>7. LinkBeforeJoin'
      BY <1>4, LaunchAssumption DEF DefineStack, PushStack, Goto, Types, LinkBeforeJoin
    <2> QED BY <1>2, <2>5, <2>6, <2>7
  <1>5. CASE Join(c)
    <2>1. LinkName0 \in points
      BY <1>5, LinkThere DEF Join
    <2>5. Types'
      BY <1>1, <1>5, <2>1 DEF Join, Goto, kernel, Types
    <2>6. Prepared'
      BY <1>1, <1>5, <2>1 DEF Join, Goto, kernel, Types, Prepared
    <2>7. LinkBeforeJoin'
      BY <1>5, <2>1 DEF Join, Goto, Types, LinkBeforeJoin
    <2> QED BY <1>2, <2>5, <2>6, <2>7
  <1>6. CASE SetAction(c)
    <2>1. IsValid(Enqueue) = 0 /\ IsValid(Dequeue) = 0
      BY LaunchAssumption DEF IsValid
    <2>2. /\ actions' = [actions EXCEPT ![c] =
                           @ \cup {IF actions[c] = {} THEN Enqueue ELSE Dequeue}]
          /\ Goto(c, IF actions[c] = {} THEN "action" ELSE "meta")
      BY <1>6, <2>1 DEF SetAction, StoreAction
    <2>5. Types'
      BY <1>1, <1>6, <2>2 DEF SetAction, StoreAction, Goto, kernel, Types
    <2>3. \/ /\ actions'[c] = {Enqueue}
             /\ pc' = [pc EXCEPT ![c] = "action"]
          \/ /\ actions'[c] = {Enqueue, Dequeue}
             /\ pc' = [pc EXCEPT ![c] = "meta"]
      <3>1. pc[c] = "action" /\ actions[c] \in {{}, {Enqueue}}
        BY <1>6 DEF SetAction, StoreAction, Prepared
      <3>2. CASE actions[c] = {}
        BY <2>2, <3>2 DEF Goto, Types
      <3>3. CASE actions[c] = {Enqueue}
        <4>1. actions[c] # {}
          BY <3>3
        <4>2. actions'[c] = {Enqueue} \cup {Dequeue}
          BY <2>2, <3>3, <4>1 DEF Types
        <4> QED BY ZenonT(60), <2>2, <4>1, <4>2 DEF Goto
      <3> QED BY <3>1, <3>2, <3>3
    <2>4. \A d \in Cores \ {c} : actions'[d] = actions[d]
      BY <2>2 DEF Types
    <2>6. Prepared'
      BY <1>1, <1>6, <2>3, <2>4 DEF SetAction, StoreAction, kernel, Types, Prepared
    <2>7. LinkBeforeJoin'
      BY <1>6, <2>2 DEF SetAction, StoreAction, Goto, Types, LinkBeforeJoin
    <2> QED BY <1>2, <2>5, <2>6, <2>7
  <1>7. CASE JoinMeta(c)
    <2>1. <<Meta>> \in points
      BY <1>7, LinkThere DEF JoinMeta
    <2>5. Types'
      BY <1>1, <1>7, <2>1 DEF JoinMeta, Goto, kernel, Types
    <2>6. Prepared'
      BY ZenonT(60), <1>1, <1>7, <2>1 DEF JoinMeta, Goto, kernel, Types, Prepared
    <2>7. LinkBeforeJoin'
      BY <1>7, <2>1 DEF JoinMeta, Goto, Types, LinkBeforeJoin
    <2> QED BY <1>2, <2>5, <2>6, <2>7
  <1>8. CASE Unmute(c)
    <2>5. Types'
      BY <1>1, <1>8 DEF Unmute, Activate, Goto, kernel, Types
    <2>6. Prepared'
      BY <1>1, <1>8 DEF Unmute, Activate, Goto, kernel, Types, Prepared
    <2>7. LinkBeforeJoin'
      BY <1>8 DEF Unmute, Activate, Goto, Types, LinkBeforeJoin
    <2> QED BY <1>2, <2>5, <2>6, <2>7
  <1> QED BY <1>3, <1>4, <1>5, <1>6, <1>7, <1>8 DEF Server

LEMMA InvHolds == Spec => []Inv
  <1>1. Inv /\ [Next]_vars => Inv'
    <2> SUFFICES ASSUME Inv, [Next]_vars PROVE Inv'
      OBVIOUS
    <2>1. CASE UNCHANGED vars
      BY <2>1 DEF vars, kernel, server, Inv, Types, Order, Filed, Prepared, LinkBeforeJoin
    <2>2. CASE Next
      BY <2>2, KernelInv, ServerInv DEF Next
    <2> QED BY <2>1, <2>2
  <1> QED BY <1>1, InitInv, PTL DEF Spec

\* No server of any machine finds its share point missing.
THEOREM LaunchOrder == Spec => []LinkBeforeJoin
  BY InvHolds, PTL DEF Inv

\* A server whose queue is active has its handlers, stacks and descriptors.
THEOREM ReadyWhenUnmuted == Spec => []UnmutedReady
  <1>1. Inv => UnmutedReady
    BY DEF Inv, Prepared, UnmutedReady
  <1> QED BY <1>1, InvHolds, PTL

-----------------------------------------------------------------------------
LEMMA NoCoreOutside == NoCore \notin Cores
  BY NAssumption DEF NoCore, Cores

(***************************************************************************)
(* What ties an interrupt handler to the code below it: boot code has no   *)
(* context, all other code has one, and only the server faults.            *)
(***************************************************************************)
Below ==
  \A c \in Cores :
    /\ at[c] = "boot" => ~current[c]
    /\ at[c] \in {"isr", "switch"} => (current[c] <=> from[c] # "boot")
    /\ at[c] \in {"fault", "halted"} => current[c] /\ from[c] # "boot"

CpuInv ==
  /\ SwitchTypeOK /\ GsRight /\ CallsHaveContext /\ OneReschedule
  /\ TimerLive /\ Below

\* Each step of a core other than c leaves c's part of the state alone, so
\* what an action does to the state is said once, core by core.
LEMMA CpuInitInv == SwitchInit => CpuInv
  BY NoCoreOutside
  DEF SwitchInit, CpuInv, SwitchTypeOK, GsRight, CallsHaveContext, OneReschedule,
      TimerLive, Below, Code, Interruptible

LEMMA LaunchInv == ASSUME CpuInv, NEW c \in Cores, Launch(c) PROVE CpuInv'
  BY DEF Launch, CpuInv, SwitchTypeOK, GsRight, CallsHaveContext, OneReschedule,
         TimerLive, Below

LEMMA TickInv == ASSUME CpuInv, NEW c \in Cores, Tick(c) \/ Yield(c) PROVE CpuInv'
  <1>1. /\ at[c] \in Interruptible /\ Trap(c)
        /\ service' \in {service, service \cup {c}}
    BY DEF Tick, Yield, Interruptible
  <1>2. SwitchTypeOK'
    BY <1>1 DEF Trap, CpuInv, SwitchTypeOK, EntrySwap, Other, Code, Interruptible
  <1>3. GsRight'
    BY <1>1 DEF Trap, CpuInv, SwitchTypeOK, GsRight, EntrySwap, Other, Interruptible
  <1>4. CallsHaveContext' /\ OneReschedule' /\ TimerLive'
    BY <1>1
    DEF Trap, CpuInv, SwitchTypeOK, CallsHaveContext, OneReschedule, TimerLive,
        Interruptible
  <1>5. Below'
    BY <1>1 DEF Trap, CpuInv, SwitchTypeOK, CallsHaveContext, Below, Interruptible
  <1> QED BY <1>2, <1>3, <1>4, <1>5 DEF CpuInv

LEMMA LockInv == ASSUME CpuInv, NEW c \in Cores, Lock(c) PROVE CpuInv'
  <1>1. SwitchTypeOK'
    BY DEF Lock, CpuInv, SwitchTypeOK, Code
  <1>2. GsRight' /\ CallsHaveContext' /\ TimerLive' /\ Below'
    BY DEF Lock, CpuInv, SwitchTypeOK, GsRight, CallsHaveContext, TimerLive, Below
  <1>3. OneReschedule'
    BY NoCoreOutside DEF Lock, CpuInv, SwitchTypeOK, OneReschedule
  <1> QED BY <1>1, <1>2, <1>3 DEF CpuInv

LEMMA NothingToRunInv == ASSUME CpuInv, NEW c \in Cores, NothingToRun(c) PROVE CpuInv'
  <1>1. SwitchTypeOK'
    BY DEF NothingToRun, ReturnTo, Acknowledge, CpuInv, SwitchTypeOK, Other,
           Code, Interruptible
  <1>2. GsRight'
    BY DEF NothingToRun, ReturnTo, CpuInv, SwitchTypeOK, GsRight, Other, Interruptible
  <1>3. CallsHaveContext' /\ Below'
    BY DEF NothingToRun, ReturnTo, CpuInv, SwitchTypeOK, CallsHaveContext, Below,
           Interruptible
  <1>4. OneReschedule'
    BY NoCoreOutside
    DEF NothingToRun, ReturnTo, CpuInv, SwitchTypeOK, OneReschedule, Interruptible
  <1>5. TimerLive'
    BY DEF NothingToRun, ReturnTo, Acknowledge, CpuInv, SwitchTypeOK, TimerLive
  <1> QED BY <1>1, <1>2, <1>3, <1>4, <1>5 DEF CpuInv

LEMMA SwitchInv == ASSUME CpuInv, NEW c \in Cores, Switch(c) PROVE CpuInv'
  <1>1. regs' \in [Cores -> {"user", "call"}]
    BY DEF Switch, CpuInv, SwitchTypeOK, Below, Interruptible
  <1>2. regs'[c] \in {"user", "call"}
    BY <1>1
  <1>3. SwitchTypeOK'
    BY <1>1, <1>2 DEF Switch, ReturnTo, Acknowledge, CpuInv, SwitchTypeOK, Other, Code
  <1>4. GsRight'
    BY <1>2 DEF Switch, ReturnTo, CpuInv, SwitchTypeOK, GsRight, Other
  <1>5. CallsHaveContext' /\ Below'
    BY <1>2 DEF Switch, ReturnTo, CpuInv, SwitchTypeOK, CallsHaveContext, Below
  <1>6. OneReschedule'
    BY <1>2, NoCoreOutside DEF Switch, ReturnTo, CpuInv, SwitchTypeOK, OneReschedule
  <1>7. TimerLive'
    BY <1>2 DEF Switch, ReturnTo, Acknowledge, CpuInv, SwitchTypeOK, TimerLive
  <1> QED BY <1>3, <1>4, <1>5, <1>6, <1>7 DEF CpuInv

LEMMA FaultInv ==
  ASSUME CpuInv, NEW c \in Cores, PageFault(c) \/ Resolve(c) \/ Halt(c) PROVE CpuInv'
  <1>1. CASE PageFault(c)
    <2>1. SwitchTypeOK' /\ GsRight'
      BY <1>1
      DEF PageFault, CpuInv, SwitchTypeOK, GsRight, EntrySwap, Other, Code,
          Interruptible
    <2>2. CallsHaveContext' /\ OneReschedule' /\ TimerLive' /\ Below'
      BY <1>1
      DEF PageFault, CpuInv, SwitchTypeOK, CallsHaveContext, OneReschedule,
          TimerLive, Below
    <2> QED BY <2>1, <2>2 DEF CpuInv
  <1>2. CASE Resolve(c)
    <2>1. SwitchTypeOK' /\ GsRight'
      BY <1>2
      DEF Resolve, ReturnTo, Acknowledge, CpuInv, SwitchTypeOK, GsRight, Below,
          Other, Code, Interruptible
    <2>2. CallsHaveContext' /\ OneReschedule' /\ Below'
      BY <1>2
      DEF Resolve, ReturnTo, CpuInv, SwitchTypeOK, CallsHaveContext, OneReschedule, Below,
          Interruptible
    <2>3. TimerLive'
      BY <1>2 DEF Resolve, ReturnTo, Acknowledge, CpuInv, SwitchTypeOK, TimerLive
    <2> QED BY <2>1, <2>2, <2>3 DEF CpuInv
  <1>3. CASE Halt(c)
    BY <1>3
    DEF Halt, CpuInv, SwitchTypeOK, GsRight, CallsHaveContext, OneReschedule,
        TimerLive, Below, Code
  <1> QED BY <1>1, <1>2, <1>3

LEMMA SyscallInv ==
  ASSUME CpuInv, NEW c \in Cores, Syscall(c) \/ Enter(c) \/ Leave(c) \/ Sysret(c)
  PROVE  CpuInv'
  <1>1. SwitchTypeOK'
    BY DEF Syscall, Enter, Leave, Sysret, ReturnTo, CpuInv, SwitchTypeOK,
           Other, Code
  <1>2. GsRight'
    BY DEF Syscall, Enter, Leave, Sysret, ReturnTo, CpuInv, SwitchTypeOK,
           GsRight, Other
  <1>3. CallsHaveContext' /\ OneReschedule' /\ TimerLive' /\ Below'
    BY DEF Syscall, Enter, Leave, Sysret, ReturnTo, CpuInv, SwitchTypeOK,
           CallsHaveContext, OneReschedule, TimerLive, Below
  <1> QED BY <1>1, <1>2, <1>3 DEF CpuInv

LEMMA CpuInvHolds == SwitchSpec => []CpuInv
  <1>1. CpuInv /\ [SwitchNext]_switching => CpuInv'
    <2> SUFFICES ASSUME CpuInv, [SwitchNext]_switching PROVE CpuInv'
      OBVIOUS
    <2>1. CASE UNCHANGED switching
      BY <2>1
      DEF switching, cpu, CpuInv, SwitchTypeOK, GsRight, CallsHaveContext, OneReschedule,
          TimerLive, Below
    <2>2. CASE SwitchNext
      BY <2>2, LaunchInv, TickInv, LockInv, NothingToRunInv, SwitchInv, FaultInv,
         SyscallInv
      DEF SwitchNext, Handler
    <2> QED BY <2>1, <2>2
  <1> QED BY <1>1, CpuInitInv, PTL DEF SwitchSpec

\* On any number of cores every way into and out of the kernel leaves GS with
\* the base that the code running next expects.
THEOREM GsSafe == SwitchSpec => []GsRight
  BY CpuInvHolds, PTL DEF CpuInv

\* The body of reschedule is a critical section on any number of cores.
THEOREM RescheduleExclusive == SwitchSpec => []OneReschedule
  BY CpuInvHolds, PTL DEF CpuInv

\* syscall_handler never meets a core without a current_context.
THEOREM CallsSafe == SwitchSpec => []CallsHaveContext
  BY CpuInvHolds, PTL DEF CpuInv

\* On any number of cores no code but the handler runs with the timer blocked.
THEOREM TicksAcknowledged == SwitchSpec => []TimerLive
  BY CpuInvHolds, PTL DEF CpuInv

\* reschedule and the page-fault handler return a context to the code that was
\* interrupted, on any number of cores.
THEOREM Resumes == SwitchSpec => ResumesWhereItWas
  <1>1. CpuInv /\ [SwitchNext]_switching =>
          [\A c \in Cores :
             /\ at[c] \in {"switch", "fault"} /\ at'[c] \notin {at[c], "halted"}
             /\ current[c]
             => at'[c] = from[c]]_switching
    <2> SUFFICES ASSUME CpuInv, SwitchNext, NEW c \in Cores,
                        at[c] \in {"switch", "fault"}, at'[c] \notin {at[c], "halted"},
                        current[c]
                 PROVE  at'[c] = from[c]
      BY DEF switching, cpu
    <2>1. PICK d \in Cores :
            \/ Launch(d) \/ Tick(d) \/ Yield(d) \/ Lock(d) \/ Handler(d)
            \/ PageFault(d) \/ Resolve(d) \/ Halt(d)
            \/ Syscall(d) \/ Enter(d) \/ Leave(d) \/ Sysret(d)
      BY DEF SwitchNext
    <2>2. CASE Handler(d)
      BY <2>2 DEF Handler, NothingToRun, Switch, ReturnTo, CpuInv, SwitchTypeOK
    <2>3. CASE Resolve(d) \/ Sysret(d)
      BY <2>3 DEF Resolve, Sysret, ReturnTo, CpuInv, SwitchTypeOK
    <2>4. CASE \/ Launch(d) \/ Tick(d) \/ Yield(d) \/ Lock(d)
               \/ PageFault(d) \/ Halt(d)
      BY <2>4
      DEF Launch, Tick, Yield, Trap, Lock, PageFault, Halt, CpuInv,
          SwitchTypeOK, Interruptible
    <2>5. CASE Syscall(d) \/ Enter(d) \/ Leave(d)
      BY <2>5 DEF Syscall, Enter, Leave, CpuInv, SwitchTypeOK
    <2> QED BY ZenonT(40), <2>1, <2>2, <2>3, <2>4, <2>5
  <1> QED BY <1>1, CpuInvHolds, PTL DEF SwitchSpec, ResumesWhereItWas

-----------------------------------------------------------------------------
\* With its context launch_servers publishes one core's server, and no other
\* step of it touches what ContextSwitch has.
LEMMA KernelLaunches ==
  ASSUME Inv, Kernel, UNCHANGED cpu
  PROVE  (\E c \in Cores : Launch(c)) \/ UNCHANGED switching
  <1>1. CASE LaunchServer
    <2>1. next \in Cores
      BY <1>1, NAssumption DEF LaunchServer, Inv, Types, Filed, Cores
    <2>2. next \notin context
      BY <1>1 DEF LaunchServer, Inv, Order
    <2>3. Launch(next)
      BY Zenon, <1>1, <2>2 DEF LaunchServer, Launch, cpu
    <2> QED BY Zenon, <2>1, <2>3
  <1>2. CASE Register \/ CreateMeta \/ LaunchFails \/ EstablishLink
    BY Zenon, <1>2 DEF Register, CreateMeta, LaunchFails, EstablishLink, cpu, switching
  <1>3. CASE RegisterIo \/ LaunchIo \/ LaunchFaults \/ IoOver
    BY Zenon, <1>3 DEF RegisterIo, LaunchIo, LaunchFaults, IoOver, cpu, switching
  <1> QED BY Zenon, <1>1, <1>2, <1>3 DEF Kernel

\* A step of the whole is a step of the launch, or none.
LEMMA LaunchStep == [StartNext]_allvars => [Next]_vars
  <1> SUFFICES ASSUME StartNext PROVE Next \/ UNCHANGED vars
    BY Zenon DEF allvars
  <1>1. CASE Launching
    BY Zenon, <1>1 DEF Launching, Next
  <1>2. ASSUME NEW c \in Cores, Handle(c) PROVE Next
    BY Zenon, <1>2 DEF Handle, Next, Server
  <1>3. ASSUME NEW c \in Cores, Schedule(c) PROVE Next \/ UNCHANGED vars
    BY Zenon, <1>3 DEF Schedule, Next, Server
  <1>4. ASSUME NEW c \in Cores,
               \/ Timer(c) \/ Fault(c) \/ Interrupt(c)
               \/ Call(c) \/ HandleYield(c) \/ Return(c)
        PROVE  UNCHANGED vars
    BY Zenon, <1>4 DEF Timer, Fault, Interrupt, Call, HandleYield, Return
  <1> QED BY Zenon, <1>1, <1>2, <1>3, <1>4 DEF StartNext, Progress

\* And a step of ContextSwitch, or none.
LEMMA CpuStep == Inv /\ [StartNext]_allvars => [SwitchNext]_switching
  <1> SUFFICES ASSUME Inv, [StartNext]_allvars PROVE SwitchNext \/ UNCHANGED switching
    BY Zenon
  <1>1. CASE UNCHANGED allvars
    BY Zenon, <1>1 DEF allvars, vars, kernel, cpu, switching
  <1>2. CASE Launching
    BY Zenon, <1>2, KernelLaunches DEF Launching, SwitchNext
  <1>3. ASSUME NEW c \in Cores, Handle(c) PROVE UNCHANGED switching
    BY Zenon, <1>3
    DEF Handle, DefineStack, Join, SetAction, JoinMeta, Unmute, kernel, cpu, switching
  <1>4. ASSUME NEW c \in Cores, Timer(c) \/ Schedule(c) \/ Fault(c) \/ Interrupt(c)
        PROVE  SwitchNext
    BY Zenon, <1>4 DEF Timer, Schedule, Fault, Interrupt, SwitchNext, Handler
  <1>5. ASSUME NEW c \in Cores, Call(c) \/ HandleYield(c) \/ Return(c) PROVE SwitchNext
    BY Zenon, <1>5 DEF Call, HandleYield, Return, SwitchNext
  <1> QED BY Zenon, <1>1, <1>2, <1>3, <1>4, <1>5 DEF StartNext, Progress

(***************************************************************************)
(* With interrupts, page faults and system calls in their way, on any      *)
(* number of cores, launch_servers and the servers still do what           *)
(* ServerLaunch says of them.                                              *)
(***************************************************************************)
THEOREM LaunchImplemented == StartSpec => Spec
  BY LaunchStep, PTL DEF StartSpec, StartInit, Spec

(***************************************************************************)
(* And the cores do what ContextSwitch says: a context is published once,  *)
(* for a core that has none.                                               *)
(***************************************************************************)
THEOREM SwitchImplemented == StartSpec => SwitchSpec
  <1>1. StartInit => SwitchInit
    BY Zenon DEF StartInit
  <1> QED BY <1>1, LaunchImplemented, InvHolds, CpuStep, PTL DEF StartSpec, SwitchSpec

(***************************************************************************)
(* No server gives up, wherever ticks and page faults interrupt its system *)
(* calls and the launch of the others.                                     *)
(***************************************************************************)
THEOREM StartLaunches == StartSpec => []LinkBeforeJoin
  BY LaunchImplemented, LaunchOrder, PTL

\* And none takes notifications before it is ready.
THEOREM StartReady == StartSpec => []UnmutedReady
  BY LaunchImplemented, ReadyWhenUnmuted, PTL

-----------------------------------------------------------------------------
(* What can stop the launch.                                               *)

(***************************************************************************)
(* How the launch goes on: the servers before the first that fails have a  *)
(* context once the loop is past them, the loop over the modules stays     *)
(* inside the list, and only an IO server halts the boot core.             *)
(***************************************************************************)
Reached ==
  /\ modules \in Seq(STRING)
  /\ phase = "launch" => \A c \in Cores : c < next /\ c < failFrom => c \in context
  /\ phase = "link" => \A c \in Cores : c <= next /\ c < failFrom => c \in context
  /\ phase \in {"io", "iolaunch", "over", "halted"} =>
       \A c \in Cores : c < failFrom => c \in context
  /\ phase = "io" => next <= Len(modules)
  /\ phase = "iolaunch" => next < Len(modules)
  /\ phase = "halted" => modules # <<>>

LEMMA ReachedInit == Init => Reached
  BY LaunchAssumption DEF Init, Reached

\* The loop over the cores ends behind the last.
LEMMA AdvanceTo ==
  ASSUME next \in Nat, next < N, NEW a, NEW b, a # b, Advance(a, b)
  PROVE  \/ phase' = a /\ next' = next + 1 /\ next + 1 < N
         \/ phase' = b /\ next' = 0 /\ \A c \in Cores : c <= next
  BY NAssumption DEF Advance, Cores

LEMMA ReachedKernel == ASSUME Inv, Reached, Kernel PROVE Reached'
  <1>0. next \in Nat /\ Len(modules) \in Nat /\ modules' = modules /\ failFrom' = failFrom
    <2>1. next \in Nat /\ modules \in Seq(STRING)
      BY Zenon DEF Inv, Types, Reached
    <2>2. Len(modules) \in Nat
      BY <2>1
    <2>3. modules' = modules /\ failFrom' = failFrom
      BY Zenon DEF Kernel, Register, CreateMeta, LaunchServer, LaunchFails, EstablishLink,
         RegisterIo, LaunchIo, LaunchFaults, IoOver
    <2> QED BY Zenon, <2>1, <2>2, <2>3
  <1>1. CASE Register
    <2>1. phase' \in {"register", "meta"}
      BY <1>1 DEF Register, Advance
    <2> QED BY <1>0, <2>1 DEF Reached
  <1>2. CASE CreateMeta
    <2>1. phase' = "launch" /\ next' = 0 /\ context' = context
      BY <1>2 DEF CreateMeta, Inv, Order
    <2> QED BY <1>0, <2>1 DEF Reached, Cores
  <1>3. CASE LaunchServer
    <2>1. phase = "launch" /\ phase' = "link" /\ next' = next /\ context' = context \cup {next}
      BY <1>3 DEF LaunchServer
    <2> QED BY <1>0, <2>1 DEF Reached, Cores
  <1>4. CASE LaunchFails
    <2>1. phase = "launch" /\ Advance("launch", "io") /\ context' = context
      BY <1>4 DEF LaunchFails
    <2>2. next >= failFrom
      <3>1. next < N /\ phase # "register"
        BY <2>1 DEF Inv, Filed
      <3>2. next \in Cores
        BY <1>0, <3>1, NAssumption DEF Cores
      <3>3. LinkName(next) \in files
        BY Zenon, <3>1, <3>2 DEF Inv, Filed
      <3> QED BY Zenon, <1>4, <3>3 DEF LaunchFails
    <2>3. next < N
      BY <2>1 DEF Inv, Filed
    <2>4. \/ phase' = "launch" /\ next' = next + 1
          \/ phase' = "io" /\ next' = 0 /\ \A c \in Cores : c <= next
      BY <1>0, <2>1, <2>3, AdvanceTo
    <2>5. failFrom \in Nat
      BY NAssumption DEF Inv, Types
    <2> QED BY <1>0, <2>1, <2>2, <2>4, <2>5 DEF Reached, Cores
  <1>5. CASE EstablishLink
    <2>1. phase = "link" /\ Advance("launch", "io") /\ context' = context
      BY <1>5 DEF EstablishLink
    <2>2. next < N
      BY <2>1 DEF Inv, Filed
    <2>3. \/ phase' = "launch" /\ next' = next + 1
          \/ phase' = "io" /\ next' = 0 /\ \A c \in Cores : c <= next
      BY <1>0, <2>1, <2>2, AdvanceTo
    <2> QED BY <1>0, <2>1, <2>3 DEF Reached, Cores
  <1>6. CASE RegisterIo
    BY <1>0, <1>6 DEF RegisterIo, Reached
  <1>7. CASE LaunchIo
    <2>1. /\ phase = "iolaunch" /\ context' = context
          /\ (phase' = "io" /\ next' = next + 1) \/ phase' = "over"
      BY <1>7 DEF LaunchIo
    <2> QED BY <1>0, <2>1 DEF Reached
  <1>8. CASE LaunchFaults
    <2>1. phase = "iolaunch" /\ phase' = "halted" /\ context' = context
      BY <1>8 DEF LaunchFaults
    <2>2. Len(modules) # 0
      BY <1>0, <2>1 DEF Reached
    <2>3. modules # <<>>
      BY <2>2
    <2> QED BY <1>0, <2>1, <2>3 DEF Reached
  <1>9. CASE IoOver
    BY <1>0, <1>9 DEF IoOver, Reached
  <1> QED BY Zenon, <1>1, <1>2, <1>3, <1>4, <1>5, <1>6, <1>7, <1>8, <1>9 DEF Kernel

LEMMA ReachedHolds == Spec => []Reached
  <1>1. Inv /\ Reached /\ [Next]_vars => Reached'
    <2> SUFFICES ASSUME Inv, Reached, [Next]_vars PROVE Reached'
      BY Zenon
    <2>1. ASSUME UNCHANGED kernel PROVE Reached'
      BY Zenon, <2>1 DEF kernel, Reached
    <2>2. ASSUME NEW c \in Cores, Server(c) PROVE UNCHANGED kernel
      BY Zenon, <2>2 DEF Server, Start, DefineStack, Join, SetAction, JoinMeta, Unmute
    <2> QED BY Zenon, <2>1, <2>2, ReachedKernel DEF Next, vars
  <1> QED BY <1>1, ReachedInit, InvHolds, PTL DEF Spec

\* launch_servers, and server c, have a next step.
KernelMoves ==
  \/ phase \in {"register", "meta", "launch", "link", "iolaunch"}
  \/ phase = "io" /\ next <= Len(modules)

ServerMoves(c) ==
  \/ pc[c] \in {"stacks", "join", "action", "meta", "unmute"}
  \/ pc[c] = "off" /\ c \in context /\ (c = Boot => phase = "over")

(***************************************************************************)
(* Where the launch stops, all is done: launch_servers is over or has      *)
(* halted the boot core on an IO server, and every scheduling server       *)
(* before the first that failed is in its loop, that of the halted boot    *)
(* core excepted.                                                          *)
(***************************************************************************)
StopsServed ==
  /\ KernelMoves \/ phase = "over" \/ (phase = "halted" /\ modules # <<>>)
  /\ ~KernelMoves =>
       \A c \in Cores :
         ServerMoves(c) \/ c >= failFrom \/ pc[c] = "loop" \/ (c = Boot /\ modules # <<>>)

\* On any number of cores, and with any boot modules.
THEOREM LaunchComplete == Spec => []StopsServed
  <1>1. Inv /\ Reached => StopsServed
    <2> SUFFICES ASSUME Inv, Reached PROVE StopsServed
      BY Zenon
    <2>1. KernelMoves \/ phase = "over" \/ (phase = "halted" /\ modules # <<>>)
      BY DEF Inv, Types, Reached, KernelMoves
    <2>2. ASSUME ~KernelMoves, NEW c \in Cores, ~ServerMoves(c), c < failFrom, pc[c] # "loop"
          PROVE  c = Boot /\ modules # <<>>
      <3>1. phase \in {"over", "halted"} /\ (phase = "halted" => modules # <<>>)
        BY Zenon, <2>1, <2>2
      <3>2. c \in context
        BY Zenon, <2>2, <3>1 DEF Reached
      <3>3. pc[c] = "off"
        BY Zenon, <2>2 DEF ServerMoves, Inv, Types, LinkBeforeJoin
      <3> QED BY Zenon, <2>2, <3>1, <3>2, <3>3 DEF ServerMoves
    <2>3. \A c \in Cores : ~(c >= failFrom) => c < failFrom
      BY NAssumption DEF Inv, Types, Cores
    <2> QED BY Zenon, <2>1, <2>2, <2>3 DEF StopsServed
  <1> QED BY <1>1, InvHolds, ReachedHolds, PTL

-----------------------------------------------------------------------------
Part == [register |-> 0, meta |-> 1, launch |-> 2, link |-> 2, io |-> 3, iolaunch |-> 3,
         over |-> 4, halted |-> 4]
Way == [off |-> 0, stacks |-> 1, join |-> 2, action |-> 3, meta |-> 4, unmute |-> 5, loop |-> 6,
        failure |-> 6]

\* launch_servers goes on to a later part, to a later server, or with one.
KernelAdvances ==
  \/ Part[phase'] > Part[phase]
  \/ Part[phase'] = Part[phase] /\ next' = next + 1
  \/ /\ <<phase, phase'>> \in {<<"launch", "link">>, <<"io", "iolaunch">>}
     /\ next' = next

\* Server c goes on, or has one more stack or action.
ServerAdvances(c) ==
  \/ Way[pc'[c]] > Way[pc[c]]
  \/ pc'[c] = pc[c] /\ stacks'[c] = stacks[c] + 1 /\ stacks'[c] < Stacks
  \/ pc'[c] = pc[c] /\ actions[c] = {} /\ actions'[c] = {Enqueue}

LaunchAdvances ==
  \/ KernelAdvances /\ UNCHANGED server
  \/ \E c \in Cores :
       /\ ServerAdvances(c) /\ UNCHANGED kernel
       /\ \A d \in Cores \ {c} : pc'[d] = pc[d]

(***************************************************************************)
(* No step of launch_servers or of a server repeats one, and its loops are *)
(* bounded (Filed, Reached): the launch has only finitely many steps,      *)
(* whatever the interleaving, and so stops.                                *)
(***************************************************************************)
THEOREM LaunchBounded == Spec => [][LaunchAdvances]_vars
  <1>1. ASSUME Inv, Kernel PROVE KernelAdvances /\ UNCHANGED server
    <2>1. UNCHANGED server
      BY Zenon, <1>1 DEF Kernel, Register, CreateMeta, LaunchServer, LaunchFails,
         EstablishLink, RegisterIo, LaunchIo, LaunchFaults, IoOver
    <2>2. CASE Register
      BY <2>2 DEF Register, Advance, KernelAdvances, Part
    <2>3. CASE LaunchFails \/ EstablishLink
      BY <2>3 DEF LaunchFails, EstablishLink, Advance, KernelAdvances, Part
    <2>4. CASE LaunchIo
      BY <2>4 DEF LaunchIo, KernelAdvances, Part
    <2>5. CASE LaunchServer \/ RegisterIo
      BY Zenon, <2>5 DEF LaunchServer, RegisterIo, KernelAdvances
    <2>6. CASE CreateMeta \/ LaunchFaults \/ IoOver
      BY <2>6 DEF CreateMeta, LaunchFaults, IoOver, KernelAdvances, Part
    <2> QED BY Zenon, <1>1, <2>1, <2>2, <2>3, <2>4, <2>5, <2>6 DEF Kernel
  <1>2. ASSUME Inv, NEW c \in Cores, Server(c)
        PROVE  /\ ServerAdvances(c) /\ UNCHANGED kernel
               /\ \A d \in Cores \ {c} : pc'[d] = pc[d]
    <2>1. UNCHANGED kernel
      BY Zenon, <1>2 DEF Server, Start, DefineStack, Join, SetAction, JoinMeta, Unmute
    <2>2. PICK l : pc' = [pc EXCEPT ![c] = l]
      BY Zenon, <1>2 DEF Server, Start, DefineStack, Join, SetAction, JoinMeta, Unmute, Goto
    <2>3. pc'[c] = l /\ \A d \in Cores \ {c} : pc'[d] = pc[d]
      BY <1>2, <2>2 DEF Inv, Types
    <2> SUFFICES ServerAdvances(c)
      BY Zenon, <2>1, <2>3
    <2>4. CASE Start(c) \/ Join(c) \/ JoinMeta(c) \/ Unmute(c)
      <3>1. <<pc[c], pc'[c]>> \in {<<"off", "stacks">>, <<"join", "action">>,
              <<"join", "failure">>, <<"meta", "unmute">>, <<"unmute", "loop">>}
        BY <1>2, <2>4 DEF Start, Join, JoinMeta, Unmute, Goto, Inv, Types
      <3> QED BY <3>1 DEF ServerAdvances, Way
    <2>5. CASE DefineStack(c)
      <3>1. /\ pc[c] = "stacks" /\ stacks'[c] = stacks[c] + 1
            /\ pc'[c] = IF stacks[c] + 1 < Stacks THEN "stacks" ELSE "join"
        BY <1>2, <2>5 DEF DefineStack, PushStack, Goto, Inv, Types
      <3> QED BY <3>1 DEF ServerAdvances, Way
    <2>6. CASE SetAction(c)
      <3>1. CASE actions[c] = {} /\ pc'[c] = "action"
        <4>1. pc[c] = "action" /\ actions'[c] = {Enqueue}
          BY <1>2, <2>6, <3>1 DEF SetAction, StoreAction, Goto, Inv, Types
        <4> QED BY Zenon, <3>1, <4>1 DEF ServerAdvances
      <3>2. CASE ~(actions[c] = {} /\ pc'[c] = "action")
        <4>1. pc[c] = "action" /\ pc'[c] \in {"meta", "failure"}
          BY <1>2, <2>6, <3>2 DEF SetAction, Goto, Inv, Types
        <4> QED BY <4>1 DEF ServerAdvances, Way
      <3> QED BY Zenon, <3>1, <3>2
    <2> QED BY Zenon, <1>2, <2>4, <2>5, <2>6 DEF Server
  <1>3. Inv /\ [Next]_vars => [LaunchAdvances]_vars
    BY Zenon, <1>1, <1>2 DEF Next, LaunchAdvances
  <1> QED BY <1>3, InvHolds, PTL DEF Spec

-----------------------------------------------------------------------------
(***************************************************************************)
(* What launch_servers and the cores mean by a server that runs is the     *)
(* same: it is the core's current_context exactly from its start on, and   *)
(* one that has not started is nowhere in a system call.                   *)
(***************************************************************************)
Together ==
  \A c \in Cores :
    /\ current[c] <=> pc[c] # "off"
    /\ pc[c] = "off" => at[c] \in {"boot", "isr", "switch"}

\* Whatever interrupts the launch, on any number of cores.
THEOREM StartTogether == StartSpec => []Together
  <1> DEFINE Starts == \A c \in Cores : current[c] <=> pc[c] # "off"
  <1>1. StartInit => Starts
    BY DEF StartInit, Init, SwitchInit
  <1>2. Inv /\ CpuInv /\ Starts /\ [StartNext]_allvars => Starts'
    <2> SUFFICES ASSUME Inv, CpuInv, Starts, [StartNext]_allvars PROVE Starts'
      BY Zenon
    <2>1. CASE UNCHANGED <<pc, current>>
      BY Zenon, <2>1
    <2>2. ASSUME NEW c \in Cores, Schedule(c) PROVE Starts'
      <3>1. current' = [current EXCEPT ![c] = TRUE] /\ current \in [Cores -> BOOLEAN]
        BY Zenon, <2>2 DEF Schedule, Switch, CpuInv, SwitchTypeOK
      <3>2. CASE pc[c] = "off"
        <4>1. pc' = [pc EXCEPT ![c] = "stacks"] /\ DOMAIN pc = Cores
          BY Zenon, <2>2, <3>2 DEF Schedule, Start, Goto, Inv, Types
        <4> QED BY <3>1, <4>1
      <3>3. CASE pc[c] # "off"
        <4>1. pc' = pc
          BY Zenon, <2>2, <3>3 DEF Schedule, vars, server
        <4> QED BY <3>1, <3>3, <4>1
      <3> QED BY Zenon, <3>2, <3>3
    <2>3. ASSUME NEW c \in Cores, Handle(c) PROVE Starts'
      <3>1. PICK l : pc' = [pc EXCEPT ![c] = l] /\ l # "off" /\ pc[c] # "off"
        BY <2>3 DEF Handle, DefineStack, Join, SetAction, JoinMeta, Unmute, Goto
      <3>2. current' = current /\ DOMAIN pc = Cores
        BY Zenon, <2>3 DEF Handle, cpu, Inv, Types
      <3> QED BY <3>1, <3>2
    <2>4. CASE Launching
      <3>1. UNCHANGED <<server, cpu>>
        BY Zenon, <2>4 DEF Launching, Kernel, Register, CreateMeta, LaunchServer, LaunchFails,
           EstablishLink, RegisterIo, LaunchIo, LaunchFaults, IoOver
      <3> QED BY Zenon, <2>1, <3>1 DEF server, cpu
    <2>5. ASSUME NEW c \in Cores,
                 Timer(c) \/ Fault(c) \/ Interrupt(c) \/ Call(c) \/ HandleYield(c) \/ Return(c)
          PROVE  UNCHANGED <<pc, current>>
      <3>1. pc' = pc
        BY Zenon, <2>5 DEF Timer, Fault, Interrupt, Call, HandleYield, Return, vars, server
      <3>2. current' = current
        BY Zenon, <2>5 DEF Timer, Fault, Interrupt, Call, HandleYield, Return, Tick, Trap, Yield,
           PageFault, Lock, NothingToRun, Resolve, Syscall, Enter, Leave, Sysret
      <3> QED BY Zenon, <3>1, <3>2
    <2>6. CASE UNCHANGED allvars
      BY Zenon, <2>1, <2>6 DEF allvars, vars, server, cpu
    <2> QED BY Zenon, <2>1, <2>2, <2>3, <2>4, <2>5, <2>6 DEF StartNext, Progress
  <1>3. CpuInv /\ Starts => Together
    BY DEF CpuInv, SwitchTypeOK, Code, CallsHaveContext, Below, Together
  <1> QED BY <1>1, <1>2, <1>3, LaunchImplemented, InvHolds, SwitchImplemented, CpuInvHolds,
             PTL DEF StartSpec

\* The cores keep the promises of ContextSwitch while servers are launched.
THEOREM StartSwitches ==
  StartSpec => [](GsRight /\ CallsHaveContext /\ OneReschedule /\ TimerLive)
  BY SwitchImplemented, CpuInvHolds, PTL DEF CpuInv

\* And the launch stops only with every server served.
THEOREM StartServes == StartSpec => []StopsServed
  BY LaunchImplemented, LaunchComplete, PTL
=============================================================================
