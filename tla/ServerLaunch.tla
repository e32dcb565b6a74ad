---------------------------- MODULE ServerLaunch ----------------------------
(***************************************************************************)
(* launch_servers of kernel/core/server.c on the boot core, and the        *)
(* scheduling servers it launches (servers/sched), which start on the      *)
(* other cores as soon as their context is published, while the boot core  *)
(* is still launching.                                                     *)
(*                                                                         *)
(* Server c is that of core c; the boot core is core 0, the first of the   *)
(* MADT, and runs its own server only when the launch is over and it       *)
(* enables interrupts.  Portals are reduced to whether the share point     *)
(* exists (Portal has the rest).  Hash tables and bitmaps do not fail;     *)
(* launching fails from some server on, or for no server.  One boot module *)
(* is the scheduler; the list holds the others that launch_servers knows.  *)
(***************************************************************************)
EXTENDS Processors, Sequences

CONSTANTS
  Stacks,       \* notification stacks a server defines (4)
  Max,          \* NOTIFICATION_MAX
  Enqueue, Dequeue,   \* SCHED_NOTIFY_ENQUEUE, SCHED_NOTIFY_DEQUEUE
  ModuleLists   \* possible lists of boot modules to start as IO servers

Boot == 0

ASSUME LaunchAssumption ==
  /\ Stacks \in Nat \ {0}
  /\ Max \in Nat
  /\ {Enqueue, Dequeue} \subseteq 1 .. Max
  /\ ModuleLists \subseteq Seq(STRING)

VARIABLES
  phase, next,  \* where launch_servers is, and its loop index
  modules,      \* the boot modules that are IO servers
  failFrom,     \* the first server whose launch fails
  files,        \* names of the servers whose record points to a module
  points,       \* names of share points
  pc,           \* pc[c]: where server c is
  link,         \* link[c]: the share point that server c has joined
  stacks, actions, meta, active   \* per server: what it has set up

kernel == <<phase, next, modules, failFrom, files, context, points>>
server == <<pc, link, stacks, actions, meta, active>>
vars == <<kernel, server>>

Meta == "SCHEDULER META"

NoLink == "none"

\* Mutant: servers are counted from one.
LinkNameFromOne(c) == <<"SCHEDULER CORE", c + 1>>

\* The name of server c, and of its link.
LinkName(c) == <<"SCHEDULER CORE", c>>

\* The name that main() of every server joins.
LinkName0 == <<"SCHEDULER CORE", 0>>

Init ==
  /\ phase = "register" /\ next = 0
  /\ modules \in ModuleLists
  /\ failFrom \in 0 .. N
  /\ files = {} /\ context = {} /\ points = {}
  /\ pc = [c \in Cores |-> "off"]
  /\ link = [c \in Cores |-> <<NoLink>>]
  /\ stacks = [c \in Cores |-> 0]
  /\ actions = [c \in Cores |-> {}]
  /\ meta = [c \in Cores |-> FALSE]
  /\ active = [c \in Cores |-> FALSE]

-----------------------------------------------------------------------------
(* The boot core.                                                          *)

\* create_server overwrites the record of the server: the module is lost.
CreateServer(name, records) == records \ {name}

\* The loop over the cores goes on, or launch_schedulers to what follows it.
Advance(loop, after) ==
  /\ next' = IF next + 1 < N THEN next + 1 ELSE 0
  /\ phase' = IF next + 1 < N THEN loop ELSE after

\* A scheduling server is created, and its module recorded.
Register ==
  /\ phase = "register"
  /\ files' = CreateServer(LinkName(next), files) \cup {LinkName(next)}
  /\ Advance("register", "meta")
  /\ UNCHANGED <<modules, failFrom, context, points, server>>

\* Mutant: the descriptors are not shared.
CreateMetaPrivate ==
  /\ phase = "meta"
  /\ phase' = "launch"
  /\ UNCHANGED <<next, modules, failFrom, files, context, points, server>>

\* The descriptors are shared.
CreateMeta ==
  /\ phase = "meta"
  /\ points' = points \cup {<<Meta>>}
  /\ phase' = "launch"
  /\ UNCHANGED <<next, modules, failFrom, files, context, server>>

\* launch_server reads the module and publishes the context as its last step.
LaunchServer ==
  /\ phase = "launch"
  /\ next < failFrom /\ LinkName(next) \in files
  /\ context' = context \cup {next}
  /\ phase' = "link"
  /\ UNCHANGED <<next, modules, failFrom, files, points, server>>

\* launch_server fails: the server gets no link either.
LaunchFails ==
  /\ phase = "launch"
  /\ next >= failFrom \/ LinkName(next) \notin files
  /\ Advance("launch", "io")
  /\ UNCHANGED <<modules, failFrom, files, context, points, server>>

\* sched_establish_shared_link
EstablishLink ==
  /\ phase = "link"
  /\ points' = points \cup {LinkName(next)}
  /\ Advance("launch", "io")
  /\ UNCHANGED <<modules, failFrom, files, context, server>>

\* An IO server: its module is recorded, and then the server created.
RegisterIo ==
  /\ phase = "io"
  /\ next < Len(modules)
  /\ files' = CreateServer(<<modules[next + 1]>>, files \cup {<<modules[next + 1]>>})
  /\ phase' = "iolaunch"
  /\ UNCHANGED <<next, modules, failFrom, context, points, server>>

\* notification_is_valid
IsValid(not) == IF not < 1 \/ not > Max THEN -1 ELSE 0

\* notification_send goes on where the result of notification_is_valid is
\* not zero, and where there are a sender and a target.
Accepted(sender, not) == sender /\ IsValid(not) # 0

\* The IO server is launched and the scheduler notified, the last server
\* launched being the master; launch_servers returns when either fails.  What
\* launch_server reads through a null pointer to the module may make it fail.
LaunchIo ==
  /\ phase = "iolaunch"
  /\ LET sent == /\ <<modules[next + 1]>> \in files /\ failFrom = N
                 /\ Accepted(N - 1 \in context, Enqueue)
     IN  /\ phase' = IF sent THEN "io" ELSE "over"
         /\ next' = IF sent THEN next + 1 ELSE next
  /\ UNCHANGED <<modules, failFrom, files, context, points, server>>

\* Or the read faults, once the identity mapping is gone: the core halts.
LaunchFaults ==
  /\ phase = "iolaunch"
  /\ <<modules[next + 1]>> \notin files
  /\ phase' = "halted"
  /\ UNCHANGED <<next, modules, failFrom, files, context, points, server>>

IoOver ==
  /\ phase = "io"
  /\ next = Len(modules)
  /\ phase' = "over"
  /\ UNCHANGED <<next, modules, failFrom, files, context, points, server>>

Kernel ==
  \/ Register \/ CreateMeta \/ LaunchServer \/ LaunchFails \/ EstablishLink
  \/ RegisterIo \/ LaunchIo \/ LaunchFaults \/ IoOver

-----------------------------------------------------------------------------
(* Server c: main of servers/sched/init.c, then sched.                     *)

Goto(c, l) == pc' = [pc EXCEPT ![c] = l]

\* The system call notification_define_stack.
PushStack(c) == stacks' = [stacks EXCEPT ![c] = @ + 1]

\* The system call notification_action, for a valid number.
StoreAction(c, not) == actions' = [actions EXCEPT ![c] = @ \cup {not}]

\* The system call notification_unmute.
Activate(c) == active' = [active EXCEPT ![c] = TRUE]

\* A tick of core c switches to the server.
Start(c) ==
  /\ pc[c] = "off"
  /\ c \in context
  /\ c = Boot => phase = "over"
  /\ Goto(c, "stacks")
  /\ UNCHANGED <<kernel, link, stacks, actions, meta, active>>

DefineStack(c) ==
  /\ pc[c] = "stacks"
  /\ PushStack(c)
  /\ Goto(c, IF stacks[c] + 1 < Stacks THEN "stacks" ELSE "join")
  /\ UNCHANGED <<kernel, link, actions, meta, active>>

\* Every server joins the link of core 0.
Join(c) ==
  /\ pc[c] = "join"
  /\ IF LinkName0 \in points
     THEN link' = [link EXCEPT ![c] = LinkName0] /\ Goto(c, "action")
     ELSE UNCHANGED link /\ Goto(c, "failure")
  /\ UNCHANGED <<kernel, stacks, actions, meta, active>>

\* notification_action, for enqueue and then for dequeue.
SetAction(c) ==
  /\ pc[c] = "action"
  /\ LET not == IF actions[c] = {} THEN Enqueue ELSE Dequeue
     IN  IF IsValid(not) = -1
         THEN Goto(c, "failure") /\ UNCHANGED actions
         ELSE /\ StoreAction(c, not)
              /\ Goto(c, IF actions[c] = {} THEN "action" ELSE "meta")
  /\ UNCHANGED <<kernel, link, stacks, meta, active>>

\* A failure to join the descriptors is only logged.
JoinMeta(c) ==
  /\ pc[c] = "meta"
  /\ meta' = [meta EXCEPT ![c] = <<Meta>> \in points]
  /\ Goto(c, "unmute")
  /\ UNCHANGED <<kernel, link, stacks, actions, active>>

Unmute(c) ==
  /\ pc[c] = "unmute"
  /\ Activate(c)
  /\ Goto(c, "loop")
  /\ UNCHANGED <<kernel, link, stacks, actions, meta>>

Server(c) ==
  Start(c) \/ DefineStack(c) \/ Join(c) \/ SetAction(c) \/ JoinMeta(c) \/ Unmute(c)

Next == Kernel \/ \E c \in Cores : Server(c)

Spec == Init /\ [][Next]_vars

\* The boot core launches with interrupts disabled and nothing to wait for,
\* and the timer gives each core its server (ReachesServer of ContextSwitch).
FairSpec == Spec /\ WF_vars(Kernel) /\ \A c \in Cores : WF_vars(Server(c))

-----------------------------------------------------------------------------
TypeOK ==
  /\ phase \in {"register", "meta", "launch", "link", "io", "iolaunch", "over", "halted"}
  /\ modules \in ModuleLists
  /\ next \in Nat /\ failFrom \in 0 .. N
  /\ files \subseteq {LinkName(c) : c \in Cores}
  /\ context \subseteq Cores
  /\ points \subseteq {<<Meta>>} \cup {LinkName(c) : c \in Cores}
  /\ pc \in [Cores -> {"off", "stacks", "join", "action", "meta", "unmute", "loop", "failure"}]
  /\ stacks \in [Cores -> 0 .. Stacks]
  /\ actions \in [Cores -> SUBSET {Enqueue, Dequeue}]
  /\ meta \in [Cores -> BOOLEAN] /\ active \in [Cores -> BOOLEAN]

(***************************************************************************)
(* No server gives up: the share point a server joins exists by then,      *)
(* although the server starts in the middle of launch_schedulers, between  *)
(* the publication of its context and the creation of its link.            *)
(***************************************************************************)
LinkBeforeJoin == \A c \in Cores : pc[c] # "failure"

(***************************************************************************)
(* Notifications are delivered to a server only once it can take them:     *)
(* with both handlers set, all stacks defined, and the descriptors that    *)
(* the enqueue handler walks through joined.                               *)
(***************************************************************************)
UnmutedReady ==
  \A c \in Cores :
    active[c] => actions[c] = {Enqueue, Dequeue} /\ stacks[c] = Stacks /\ meta[c]

(***************************************************************************)
(* Every scheduling server before the first whose launch fails reaches the *)
(* loop in which it refills the queue and yields; that of the boot core    *)
(* may not when the list of modules has an IO server, since launching that *)
(* one may halt the core.                                                  *)
(***************************************************************************)
ReachesLoop ==
  \A c \in Cores :
    <>(c >= failFrom \/ pc[c] = "loop" \/ (c = Boot /\ modules # <<>>))
=============================================================================
