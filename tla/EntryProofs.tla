---------------------------- MODULE EntryProofs ----------------------------
(***************************************************************************)
(* Entries to the kernel and returns from it, on every firmware: what      *)
(* every interrupt, exception and system call finds, saves and gives back. *)
(* The inductive invariant EntryInv rests on two facts about the routing   *)
(* of interrupts, Quiet and FoundIfListed, which InterruptsProofs shows.   *)
(***************************************************************************)
EXTENDS Interrupts, TLAPS

\* What the routing never leaves: the vector of the timer, the place of the
\* legacy controllers, and the mask of every pin written so far.
Quiet ==
  /\ timer.vector \in {0, 32}
  /\ pic \in {0, 32}
  /\ \A x \in DOMAIN redirection : redirection[x].mask = TRUE

\* The registers, with what syscall_main and the processor store besides.
Cpus == [Registers \cup {"user_stack", "error"} -> Int]

FullGdt ==
  [s \in {KernelCode, KernelData, 56, 64} |->
     [code |-> s \in {KernelCode, 64}, ring |-> IF s \in {56, 64} THEN 3 ELSE 0]]

\* What a core has set up before it enables interrupts.
Ready == gdt = FullGdt /\ tr /\ idt /\ star /\ (gs \/ (core = "bsp" /\ ~BootListed))

\* What it has set up after so many steps of its boot code.
SetUp ==
  /\ core = "bsp" =>
       /\ booted \in 0 .. 7
       /\ booted >= 1 => star
       /\ booted >= 3 => gdt = FullGdt /\ tr
       /\ booted >= 4 => idt
       /\ booted >= 5 => step = "done"
       /\ booted >= 6 => gs \/ ~BootListed
  /\ core = "ap" =>
       /\ booted \in 0 .. 6
       /\ booted >= 1 => idt
       /\ booted >= 2 => star
       /\ booted >= 3 => gdt = FullGdt /\ tr
       /\ booted >= 4 => gs
  /\ core \in {"bsp", "ap"}

Steps == IF core = "bsp" THEN 7 ELSE 6

\* At the end of the boot code, and in the server.
Idle == [BootCpu EXCEPT !["rflags"] = IF_]

InServer(c) ==
  /\ c \in Cpus
  /\ c["rip"] = UserCode /\ c["cs"] = UserSeg /\ c["ss"] = UserData /\ c["rflags"] = IF_

\* The general registers once the processor has executed syscall, and the words
\* that syscall_main pushes.
AtCall(r) ==
  IF r = "rcx" THEN called["rip"] ELSE IF r = "r11" THEN called["rflags"] ELSE called[r]

CallHead ==
  <<called["rip"], called["rflags"], UserData, called["rsp"], called["rflags"], UserSeg,
    called["rip"], 0, 0>>

CallWord(k) == IF k <= 9 THEN CallHead[k] ELSE AtCall(Pushes[k - 9])

\* In syscall_main with so many of these words still on the stack.
InSyscall(c, left) ==
  /\ InServer(called)
  /\ c \in Cpus
  /\ c["cs"] = KernelCode /\ c["ss"] = KernelData /\ c["rflags"] = IF_
  /\ c["rsp"] = left /\ left <= Len(stack)
  /\ c["user_stack"] = called["rsp"]
  /\ \A k \in 1 .. left : stack[k] = CallWord(k)

Pushing(c, n) ==
  /\ n \in 0 .. 24
  /\ c["rip"] = Pushed(n)
  /\ InSyscall(c, n)
  /\ \A r \in Gprs : c[r] = AtCall(r)

Left(n) == IF n <= 15 THEN 24 - n ELSE 18 - n

Popping(c, n) ==
  /\ n \in 0 .. 18
  /\ c["rip"] = Popped(n)
  /\ InSyscall(c, Left(n))
  /\ \A k \in 1 .. 15 : k <= n => c[Pops[k]] = AtCall(Pops[k])

\* Where an interrupt can find the core.
Context(c) ==
  \/ c = Idle
  \/ InServer(c)
  \/ \E n \in 0 .. 24 : Pushing(c, n)
  \/ \E n \in 0 .. 18 : Popping(c, n)

\* What isr_handler_main finds: the number and the registers that were
\* interrupted; only the lower part when an error code is not expected.
Saved(r) == IF r = "isr_number" THEN vector ELSE interrupted[r]

Regular == vector \notin {17, 21, 29, 30}

Entered ==
  /\ cpu["rsp"] = Len(stack) /\ Len(stack) >= 22
  /\ cpu["rip"] = IsrHandler
  /\ \A r \in {"user_stack", "error"} : cpu[r] = interrupted[r]
  /\ \A k \in 1 .. 22 :
       k <= 16 \/ (Regular /\ k # 17) => stack[(Len(stack) - k) + 1] = Saved(Layout[k])

EntryInv ==
  /\ SetUp
  /\ cpu \in Cpus /\ interrupted \in Cpus /\ called \in Cpus
  /\ stack \in Seq(Int) /\ vector \in Int
  /\ state \in {"running", "halted", "lost"}
  /\ state = "lost" => core = "bsp" /\ ~BootListed
  /\ cpu["rip"] = Popped(18) => cpu["cs"] # UserSeg
  /\ booted < Steps => cpu = BootCpu /\ vector = -1
  /\ state = "running" /\ booted = Steps /\ vector = -1 => Context(cpu)
  /\ state = "running" /\ booted = Steps /\ vector # -1 => Context(interrupted) /\ Entered

\* A boot core that boot_aps does not find is not listed.
FoundIfListed ==
  step = "done" /\ core = "bsp" /\ lists[0] = <<>> => ~BootListed

\* The order of the pushes and of the pops.
LEMMA Order ==
  /\ DOMAIN Pushes = 1 .. 15 /\ DOMAIN Pops = 1 .. 15
  /\ Len(Pushes) = 15 /\ Len(Pops) = 15
  /\ \A k \in 1 .. 15 : Pops[k] = Pushes[16 - k] /\ Pops[k] \in Gprs /\ Pushes[k] \in Gprs
  /\ \A r \in Gprs : (\E k \in 1 .. 15 : Pops[k] = r) /\ (\E k \in 1 .. 15 : Pushes[k] = r)
  <1>1. DOMAIN Pushes = 1 .. 15 /\ DOMAIN Pops = 1 .. 15 /\ Len(Pushes) = 15 /\ Len(Pops) = 15
    BY DEF Pushes, Pops
  <1>2. \A k \in 1 .. 15 : Pops[k] = Pushes[16 - k]
    BY DEF Pushes, Pops
  <1>3. \A k \in 1 .. 15 : Pushes[k] \in Gprs
    BY <1>1 DEF Gprs
  <1>4. \A k \in 1 .. 15 : 16 - k \in 1 .. 15 /\ 16 - (16 - k) = k
    OBVIOUS
  <1>5. \A r \in Gprs : \E k \in 1 .. 15 : Pushes[k] = r
    BY <1>1 DEF Gprs
  <1>6. \A r \in Gprs : \E k \in 1 .. 15 : Pops[k] = r
    BY <1>2, <1>4, <1>5
  <1>7. \A k \in 1 .. 15 : Pops[k] \in Gprs
    BY <1>2, <1>3, <1>4
  <1> QED BY Zenon, <1>1, <1>2, <1>3, <1>5, <1>6, <1>7

\* The names of the registers are different.
LEMMA GprNames ==
  ASSUME NEW r \in Gprs
  PROVE  r \notin {"rip", "cs", "rflags", "rsp", "ss", "user_stack", "error", "isr_number",
                   "error_code", "skip"}
  <1>1. PICK k \in 1 .. 15 : Pushes[k] = r
    BY Zenon, Order
  <1> QED BY <1>1 DEF Pushes

LEMMA GprsAre == "rcx" \in Gprs /\ "r11" \in Gprs /\ "rdx" \in Gprs
  <1>1. Pushes[3] = "rcx" /\ Pushes[11] = "r11" /\ Pushes[4] = "rdx"
    BY DEF Pushes
  <1>2. 3 \in 1 .. 15 /\ 11 \in 1 .. 15 /\ 4 \in 1 .. 15
    OBVIOUS
  <1> QED BY Zenon, <1>1, <1>2, Order

\* A sequence of n words, and two after each other.
Long(s, n) == n \in Nat /\ Len(s) = n /\ DOMAIN s = 1 .. n

Joined(u, s, t, n, m) ==
  (\A k \in 1 .. n : u[k] = s[k]) /\ (\A k \in 1 .. m : u[n + k] = t[k])

LEMMA PartsOf ==
  ASSUME NEW s, NEW t, NEW n, NEW m, Long(s, n), Long(t, m)
  PROVE  Long(s \o t, n + m) /\ Joined(s \o t, s, t, n, m)
  BY DEF Long, Joined

\* struct registers.
LEMMA LayoutIs ==
  /\ DOMAIN Layout = 1 .. 22
  /\ \A k \in 1 .. 15 : Layout[k] = Pops[k]
  /\ Layout[16] = "isr_number" /\ Layout[17] = "error_code" /\ Layout[18] = "rip"
  /\ Layout[19] = "cs" /\ Layout[20] = "rflags" /\ Layout[21] = "rsp" /\ Layout[22] = "ss"
  <1> DEFINE rest == <<"isr_number", "error_code", "rip", "cs", "rflags", "rsp", "ss">>
  <1>1. DOMAIN rest = 1 .. 7 /\ Len(rest) = 7
    OBVIOUS
  <1>2. /\ rest[1] = "isr_number" /\ rest[2] = "error_code" /\ rest[3] = "rip" /\ rest[4] = "cs"
        /\ rest[5] = "rflags" /\ rest[6] = "rsp" /\ rest[7] = "ss"
    OBVIOUS
  <1>3. Layout = Pops \o rest
    BY DEF Layout
  <1> HIDE DEF rest
  <1>4. /\ DOMAIN Layout = 1 .. 15 + 7
        /\ \A k \in 1 .. 15 : Layout[k] = Pops[k]
        /\ \A k \in 1 .. 7 : Layout[15 + k] = rest[k]
    <2>1. Long(Pops, 15) /\ Long(rest, 7)
      BY <1>1, Order DEF Long
    <2>2. Long(Layout, 15 + 7) /\ Joined(Layout, Pops, rest, 15, 7)
      BY Zenon, <1>3, <2>1, PartsOf
    <2> QED BY Zenon, <2>2 DEF Long, Joined
  <1> QED BY <1>2, <1>4

\* The way out of syscall_main.
LEMMA UnwindIs ==
  /\ Len(Unwind) = 18
  /\ \A k \in 1 .. 15 : Unwind[k] = Pops[k]
  /\ Unwind[16] = "skip" /\ Unwind[17] = "r11" /\ Unwind[18] = "rcx"
  <1> DEFINE rest == <<"skip", "r11", "rcx">>
  <1>1. DOMAIN rest = 1 .. 3 /\ Len(rest) = 3
    OBVIOUS
  <1>2. rest[1] = "skip" /\ rest[2] = "r11" /\ rest[3] = "rcx"
    OBVIOUS
  <1>3. Unwind = Pops \o rest
    BY DEF Unwind
  <1> HIDE DEF rest
  <1>4. /\ Len(Unwind) = 15 + 3
        /\ \A k \in 1 .. 15 : Unwind[k] = Pops[k]
        /\ \A k \in 1 .. 3 : Unwind[15 + k] = rest[k]
    <2>1. Long(Pops, 15) /\ Long(rest, 3)
      BY <1>1, Order DEF Long
    <2>2. Long(Unwind, 15 + 3) /\ Joined(Unwind, Pops, rest, 15, 3)
      BY Zenon, <1>3, <2>1, PartsOf
    <2> QED BY Zenon, <2>2 DEF Long, Joined
  <1> QED BY <1>2, <1>4

\* What syscall_main pushes.
LEMMA WordsParts ==
  /\ Len(Words) = 24
  /\ \A k \in 1 .. 9 : Words[k] = <<cpu["rcx"], cpu["r11"], UserData, cpu["user_stack"], cpu["r11"],
                                    UserSeg, cpu["rcx"], 0, 0>>[k]
  /\ \A k \in 1 .. 15 : Words[9 + k] = cpu[Pushes[k]]
  <1> DEFINE head == <<cpu["rcx"], cpu["r11"], UserData, cpu["user_stack"], cpu["r11"], UserSeg,
                       cpu["rcx"], 0, 0>>
             rest == [k \in DOMAIN Pushes |-> cpu[Pushes[k]]]
  <1>1. Long(head, 9)
    BY DEF Long
  <1>2. Long(rest, 15) /\ \A k \in 1 .. 15 : rest[k] = cpu[Pushes[k]]
    BY Order DEF Long
  <1>3. Words = head \o rest
    BY DEF Words
  <1> HIDE DEF head, rest
  <1>4. PICK h, t : h = head /\ t = rest
    BY Zenon
  <1>5. Long(h \o t, 9 + 15) /\ Joined(h \o t, h, t, 9, 15)
    BY Zenon, <1>1, <1>2, <1>4, PartsOf
  <1>6. Long(Words, 9 + 15) /\ Joined(Words, head, rest, 9, 15)
    BY Zenon, <1>3, <1>4, <1>5
  <1>7. Len(Words) = 24
    BY <1>6 DEF Long
  <1> QED BY Zenon, <1>2, <1>6, <1>7 DEF Joined, head

LEMMA WordsAre ==
  ASSUME cpu["user_stack"] = called["rsp"], \A r \in Gprs : cpu[r] = AtCall(r),
         NEW k \in 1 .. 24
  PROVE  Words[k] = CallWord(k)
  <1>1. cpu["rcx"] = called["rip"] /\ cpu["r11"] = called["rflags"]
    BY GprsAre DEF AtCall
  <1>2. CASE k <= 9
    <2>1. k \in 1 .. 9
      BY <1>2
    <2> QED BY Zenon, <1>1, <1>2, <2>1, WordsParts DEF CallWord, CallHead
  <1>3. CASE k > 9
    <2>1. k - 9 \in 1 .. 15 /\ 9 + (k - 9) = k /\ ~(k <= 9)
      BY <1>3
    <2>2. Words[9 + (k - 9)] = AtCall(Pushes[k - 9])
      BY Zenon, <2>1, WordsParts, Order
    <2> QED BY Zenon, <2>1, <2>2 DEF CallWord
  <1> QED BY <1>2, <1>3

LEMMA FiveWords ==
  ASSUME NEW c \in Cpus, NEW p \in Int, NEW q \in Int, NEW a \in Int, NEW z \in Int,
         NEW l \in Int
  PROVE  [c EXCEPT !["rip"] = p, !["cs"] = q, !["ss"] = a, !["rflags"] = z, !["rsp"] = l] \in Cpus
  <1>1. PICK D : D = Registers \cup {"user_stack", "error"}
    BY Zenon
  <1>2. c \in [D -> Int]
    BY Zenon, <1>1 DEF Cpus
  <1>3. [c EXCEPT !["rip"] = p, !["cs"] = q, !["ss"] = a, !["rflags"] = z, !["rsp"] = l]
          \in [D -> Int]
    BY Zenon, <1>2
  <1> QED BY Zenon, <1>1, <1>3 DEF Cpus

LEMMA BootTypes == BootCpu \in Cpus /\ Idle \in Cpus
  <1>1. BootCpu \in Cpus
    BY DEF BootCpu, Cpus, Boot, KernelCode, KernelData
  <1>2. Idle \in Cpus
    <2>1. PICK b, n : b = BootCpu /\ n = IF_
      BY Zenon
    <2>2. n \in Int
      BY <2>1 DEF IF_
    <2>3. [b EXCEPT !["rflags"] = n] \in Cpus
      BY Zenon, <1>1, <2>1, <2>2 DEF Cpus
    <2> QED BY Zenon, <2>1, <2>3 DEF Idle
  <1> QED BY Zenon, <1>1, <1>2

LEMMA IdleIs ==
  /\ Idle["rip"] = Boot /\ Idle["cs"] = KernelCode /\ Idle["ss"] = KernelData
  /\ Idle["rflags"] = IF_ /\ Idle["rsp"] = 0
  BY DEF Idle, BootCpu, Registers

\* Where an interrupt finds the core, the selectors fit and interrupts are
\* enabled; in the kernel the stack is as high as rsp says.
LEMMA ContextFields ==
  ASSUME stack \in Seq(Int), NEW c, Context(c)
  PROVE  /\ c \in Cpus /\ c["rflags"] = IF_
         /\ \/ c["cs"] = UserSeg /\ c["ss"] = UserData
            \/ c["cs"] = KernelCode /\ c["ss"] = KernelData /\ c["rsp"] \in 0 .. Len(stack)
  <1>0. Len(stack) \in Nat
    OBVIOUS
  <1>1. CASE c = Idle
    BY <1>0, <1>1, BootTypes, IdleIs
  <1>2. CASE InServer(c)
    BY Zenon, <1>2 DEF InServer
  <1>3. ASSUME NEW n \in 0 .. 24, Pushing(c, n)
        PROVE  c \in Cpus /\ c["rflags"] = IF_ /\ c["cs"] = KernelCode /\ c["ss"] = KernelData
               /\ c["rsp"] \in 0 .. Len(stack)
    <2>1. InSyscall(c, n)
      BY Zenon, <1>3 DEF Pushing
    <2> QED BY <1>0, <2>1 DEF InSyscall
  <1>4. ASSUME NEW n \in 0 .. 18, Popping(c, n)
        PROVE  c \in Cpus /\ c["rflags"] = IF_ /\ c["cs"] = KernelCode /\ c["ss"] = KernelData
               /\ c["rsp"] \in 0 .. Len(stack)
    <2>1. InSyscall(c, Left(n))
      BY Zenon, <1>4 DEF Popping
    <2>2. Left(n) \in Nat
      BY DEF Left
    <2> QED BY <1>0, <2>1, <2>2 DEF InSyscall
  <1> QED BY Zenon, <1>1, <1>2, <1>3, <1>4 DEF Context

\* What is below the frame of an interrupt is enough to go on.
LEMMA SyscallStays ==
  ASSUME NEW c, NEW left \in Nat, InSyscall(c, left), called' = called,
         left <= Len(stack'), \A k \in 1 .. left : stack'[k] = stack[k]
  PROVE  InSyscall(c, left)'
  <1>1. \A k \in 1 .. left : CallWord(k)' = CallWord(k)
    BY Zenon DEF CallWord, CallHead, AtCall
  <1>2. \A k \in 1 .. left : stack'[k] = CallWord(k)'
    BY Zenon, <1>1 DEF InSyscall
  <1> QED BY Zenon, <1>2 DEF InSyscall, InServer

LEMMA ContextStays ==
  ASSUME NEW c, Context(c), called' = called,
         c["cs"] = KernelCode =>
           c["rsp"] <= Len(stack') /\ \A k \in 1 .. c["rsp"] : stack'[k] = stack[k]
  PROVE  Context(c)'
  <1>1. CASE c = Idle
    BY Zenon, <1>1 DEF Context, Idle
  <1>2. CASE InServer(c)
    BY Zenon, <1>2 DEF Context, InServer
  <1>3. ASSUME NEW n \in 0 .. 24, Pushing(c, n)
        PROVE  Pushing(c, n)'
    <2>1. InSyscall(c, n) /\ n \in Nat
      BY <1>3 DEF Pushing
    <2>2. InSyscall(c, n)'
      BY Zenon, <2>1, SyscallStays DEF InSyscall
    <2>3. \A r : AtCall(r)' = AtCall(r)
      BY Zenon DEF AtCall
    <2> QED BY Zenon, <1>3, <2>2, <2>3 DEF Pushing
  <1>4. ASSUME NEW n \in 0 .. 18, Popping(c, n)
        PROVE  Popping(c, n)'
    <2>1. InSyscall(c, Left(n)) /\ Left(n) \in Nat
      BY <1>4 DEF Popping, Left
    <2>2. InSyscall(c, Left(n))'
      BY Zenon, <2>1, SyscallStays DEF InSyscall
    <2>3. \A r : AtCall(r)' = AtCall(r)
      BY Zenon DEF AtCall
    <2> QED BY Zenon, <1>4, <2>2, <2>3 DEF Popping, Left
  <1> QED BY Zenon, <1>1, <1>2, <1>3, <1>4 DEF Context

LEMMA ReadyAtEnd ==
  ASSUME SetUp, booted = Steps
  PROVE  Ready
  BY DEF SetUp, Ready, Steps

\* The words that an interrupt leaves on the stack: five, the n-th, and those
\* of pushall.
Framed(u, h, b, g, n, y) ==
  /\ Long(u, n + 15)
  /\ \A k \in 1 .. 5 : u[k] = h[k]
  /\ u[n] = b[y]
  /\ \A k \in 1 .. 15 : u[n + k] = g[k]

LEMMA FrameWords ==
  ASSUME NEW h, NEW e, NEW b, NEW g, NEW x, NEW y,
         Long(h, 5), Long(e, x), Long(b, y), Long(g, 15), y >= 1
  PROVE  Framed(h \o e \o b \o g, h, b, g, 5 + x + y, y)
  <1> DEFINE u1 == h \o e
             u2 == u1 \o b
             u == u2 \o g
  <1>1. Long(u1, 5 + x) /\ Joined(u1, h, e, 5, x)
    BY Zenon, PartsOf
  <1> HIDE DEF u1
  <1>2. Long(u2, 5 + x + y) /\ Joined(u2, u1, b, 5 + x, y)
    BY Zenon, <1>1, PartsOf
  <1> HIDE DEF u2
  <1>3. Long(u, 5 + x + y + 15) /\ Joined(u, u2, g, 5 + x + y, 15)
    BY Zenon, <1>2, PartsOf
  <1> HIDE DEF u
  <1>4. x \in Nat /\ y \in Nat
    BY DEF Long
  <1>5. \A k \in 1 .. 5 : u[k] = h[k]
    BY <1>1, <1>2, <1>3, <1>4 DEF Joined
  <1>6. u[5 + x + y] = b[y]
    BY <1>2, <1>3, <1>4 DEF Joined
  <1>7. u = h \o e \o b \o g
    BY Zenon DEF u, u1, u2
  <1> QED BY Zenon, <1>3, <1>5, <1>6, <1>7 DEF Joined, Framed

\* What Deliver pushes.
PushedBy(v) ==
  <<cpu["ss"], cpu["rsp"], cpu["rflags"], cpu["cs"], cpu["rip"]>>
  \o (IF v \in HasError THEN <<7>> ELSE <<>>)
  \o (IF v \in ErrorStubs THEN <<v>> ELSE <<0, v>>)
  \o [k \in DOMAIN Pushes |-> cpu[Pushes[k]]]

Irregular == {17, 21, 29, 30}

\* One register of the frame that the processor and the stub build.
Found(v, r) == IF r = "isr_number" THEN v ELSE cpu[r]

\* isr_handler_main can find the number and the registers from the top.
LEMMA PushedFrame ==
  ASSUME cpu \in Cpus, NEW v \in Int
  PROVE  /\ PushedBy(v) \in Seq(Int)
         /\ \E n \in 7 .. 8 :
              /\ Long(PushedBy(v), n + 15)
              /\ \A k \in 1 .. 22 :
                   k <= 16 \/ (v \notin Irregular /\ k # 17) =>
                     PushedBy(v)[(n + 15 - k) + 1] = Found(v, Layout[k])
  <1> DEFINE h == <<cpu["ss"], cpu["rsp"], cpu["rflags"], cpu["cs"], cpu["rip"]>>
             e == IF v \in HasError THEN <<7>> ELSE <<>>
             b == IF v \in ErrorStubs THEN <<v>> ELSE <<0, v>>
             g == [k \in DOMAIN Pushes |-> cpu[Pushes[k]]]
             x == IF v \in HasError THEN 1 ELSE 0
             y == IF v \in ErrorStubs THEN 1 ELSE 2
  <1>1. \A r \in Registers : cpu[r] \in Int
    BY DEF Cpus
  <1>2. {"ss", "rsp", "rflags", "cs", "rip"} \subseteq Registers /\ Gprs \subseteq Registers
    BY Zenon DEF Registers
  <1>3. h \in Seq(Int) /\ Long(h, 5)
    <2>1. cpu["ss"] \in Int /\ cpu["rsp"] \in Int /\ cpu["rflags"] \in Int /\ cpu["cs"] \in Int
          /\ cpu["rip"] \in Int
      BY Zenon, <1>1, <1>2
    <2> QED BY <2>1 DEF Long
  <1>4. e \in Seq(Int) /\ Long(e, x)
    <2>1. <<7>> \in Seq(Int) /\ Long(<<7>>, 1) /\ <<>> \in Seq(Int) /\ Long(<<>>, 0)
      BY DEF Long
    <2> QED BY Zenon, <2>1
  <1>5. b \in Seq(Int) /\ Long(b, y) /\ b[y] = v
    <2>1. /\ <<v>> \in Seq(Int) /\ Long(<<v>>, 1) /\ <<v>>[1] = v
          /\ <<0, v>> \in Seq(Int) /\ Long(<<0, v>>, 2) /\ <<0, v>>[2] = v
      BY DEF Long
    <2> QED BY Zenon, <2>1
  <1>6. g \in Seq(Int) /\ Long(g, 15)
    <2>1. \A k \in 1 .. 15 : cpu[Pushes[k]] \in Int
      BY Zenon, <1>1, <1>2, Order
    <2> QED BY <2>1, Order DEF Long
  <1>7. \A k \in 1 .. 15 : g[k] = cpu[Pushes[k]]
    BY Zenon, Order
  <1>8. /\ h[1] = cpu["ss"] /\ h[2] = cpu["rsp"] /\ h[3] = cpu["rflags"] /\ h[4] = cpu["cs"]
        /\ h[5] = cpu["rip"]
    OBVIOUS
  <1>9. /\ x \in Nat /\ y \in Nat /\ y >= 1 /\ 5 + x + y \in 7 .. 8
        /\ v \notin Irregular => 5 + x + y = 7
    BY DEF HasError, ErrorStubs, Irregular
  <1>10. PushedBy(v) = h \o e \o b \o g
    BY Zenon DEF PushedBy
  <1> HIDE DEF h, e, b, g, x, y
  <1>11. PICK n : n = 5 + x + y
    BY Zenon
  <1>12. /\ Long(PushedBy(v), n + 15)
         /\ \A k \in 1 .. 5 : PushedBy(v)[k] = h[k]
         /\ PushedBy(v)[n] = v
         /\ \A k \in 1 .. 15 : PushedBy(v)[n + k] = cpu[Pushes[k]]
    <2>1. PICK ch, ce, cb, cg, cx, cy : ch = h /\ ce = e /\ cb = b /\ cg = g /\ cx = x /\ cy = y
      BY Zenon
    <2>2. Framed(ch \o ce \o cb \o cg, ch, cb, cg, 5 + cx + cy, cy)
      BY Zenon, <1>3, <1>4, <1>5, <1>6, <1>9, <2>1, FrameWords
    <2>3. Framed(PushedBy(v), h, b, g, n, y)
      BY Zenon, <1>10, <1>11, <2>1, <2>2
    <2> QED BY Zenon, <1>5, <1>7, <2>3 DEF Framed
  <1>13. n \in 7 .. 8 /\ (v \notin Irregular => n = 7)
    BY Zenon, <1>9, <1>11
  <1>14. PushedBy(v) \in Seq(Int)
    <2>1. h \o e \in Seq(Int)
      BY <1>3, <1>4
    <2>2. h \o e \o b \in Seq(Int)
      BY <1>5, <2>1
    <2>3. h \o e \o b \o g \in Seq(Int)
      BY <1>6, <2>2
    <2> QED BY Zenon, <1>10, <2>3
  <1>15. ASSUME NEW k \in 1 .. 22, k <= 16 \/ (v \notin Irregular /\ k # 17)
         PROVE  PushedBy(v)[(n + 15 - k) + 1] = Found(v, Layout[k])
    <2>1. CASE k <= 15
      <3>1. (n + 15 - k) + 1 = n + (16 - k) /\ 16 - k \in 1 .. 15 /\ k \in 1 .. 15
        BY <1>13, <2>1
      <3>2. Layout[k] = Pushes[16 - k] /\ Layout[k] # "isr_number"
        BY Zenon, <3>1, Order, LayoutIs, GprNames
      <3> QED BY Zenon, <1>12, <3>1, <3>2 DEF Found
    <2>2. CASE k = 16
      <3>1. (n + 15 - k) + 1 = n
        BY <1>13, <2>2
      <3> QED BY Zenon, <1>12, <2>2, <3>1, LayoutIs DEF Found
    <2>3. CASE k > 17 /\ v \notin Irregular
      <3>1. (n + 15 - k) + 1 = 23 - k /\ 23 - k \in 1 .. 5 /\ k \in 18 .. 22
        BY <1>13, <2>3
      <3>2. PushedBy(v)[23 - k] = h[23 - k]
        BY Zenon, <1>12, <3>1
      <3>3. h[23 - k] = cpu[Layout[k]] /\ Layout[k] # "isr_number"
        BY <1>8, <3>1, LayoutIs
      <3> QED BY Zenon, <3>1, <3>2, <3>3 DEF Found
    <2> QED BY <1>15, <2>1, <2>2, <2>3
  <1> QED BY Zenon, <1>12, <1>13, <1>14, <1>15

\* The parts of the invariant that only the boot code and the outcome touch.
LEMMA SetUpStays ==
  ASSUME SetUp, UNCHANGED <<core, booted, gdt, tr, idt, star, gs>>, UNCHANGED routing
  PROVE  SetUp' /\ Steps' = Steps /\ BootListed' = BootListed
  <1>1. UNCHANGED <<firmware, step, core, booted, gdt, tr, idt, star, gs>>
    BY Zenon DEF routing
  <1>2. BootListed' = BootListed
    BY Zenon, <1>1 DEF BootListed, Present, madt
  <1>3. SetUp' /\ Steps' = Steps
    BY <1>1, <1>2 DEF SetUp, FullGdt, Steps
  <1> QED BY Zenon, <1>2, <1>3

\* Taking an interrupt leaves its frame on top of what was interrupted.
LEMMA DeliverEnters ==
  ASSUME EntryInv, booted = Steps, NEW v \in Nat, Deliver(v), UNCHANGED routing
  PROVE  EntryInv'
  <1> DEFINE below == IF User THEN <<>> ELSE SubSeq(stack, 1, cpu["rsp"])
  <1>1. /\ state = "running" /\ vector = -1 /\ vector' = v /\ interrupted' = cpu
        /\ UNCHANGED <<core, booted, gdt, tr, idt, star, gs, called>>
    BY Zenon DEF Deliver
  <1>2. SetUp /\ cpu \in Cpus /\ stack \in Seq(Int) /\ Context(cpu) /\ called \in Cpus
    BY Zenon, <1>1 DEF EntryInv
  <1>3. idt /\ tr
    BY Zenon, <1>2, ReadyAtEnd DEF Ready
  <1>4. /\ stack' = below \o PushedBy(v)
        /\ cpu' = [cpu EXCEPT !["rip"] = IsrHandler, !["cs"] = KernelCode,
                              !["ss"] = IF User THEN 0 ELSE cpu["ss"],
                              !["rflags"] = 0, !["rsp"] = Len(below \o PushedBy(v))]
        /\ state' = state
    BY Zenon, <1>3 DEF Deliver, PushedBy
  <1>5. /\ cpu["cs"] = UserSeg \/ (cpu["cs"] = KernelCode /\ cpu["rsp"] \in 0 .. Len(stack))
    <2>1. PICK c : c = cpu
      BY Zenon
    <2> QED BY Zenon, <1>2, <2>1, ContextFields
  <1>6. /\ below \in Seq(Int) /\ Long(below, Len(below))
        /\ cpu["cs"] = KernelCode =>
             Len(below) = cpu["rsp"] /\ \A k \in 1 .. Len(below) : below[k] = stack[k]
    <2>1. CASE cpu["cs"] = UserSeg
      <3>1. below = <<>> /\ cpu["cs"] # KernelCode
        BY <2>1 DEF User, UserSeg, KernelCode
      <3>2. <<>> \in Seq(Int) /\ Long(<<>>, Len(<<>>))
        BY DEF Long
      <3> QED BY Zenon, <3>1, <3>2
    <2>2. CASE cpu["cs"] = KernelCode /\ cpu["rsp"] \in 0 .. Len(stack)
      <3>1. below = SubSeq(stack, 1, cpu["rsp"])
        BY <2>2 DEF User, KernelCode
      <3>2. PICK n : n = cpu["rsp"]
        BY Zenon
      <3>3. /\ SubSeq(stack, 1, n) \in Seq(Int) /\ Len(SubSeq(stack, 1, n)) = n
            /\ \A k \in 1 .. n : SubSeq(stack, 1, n)[k] = stack[k]
            /\ DOMAIN SubSeq(stack, 1, n) = 1 .. n /\ n \in Nat
        <4>1. stack \in Seq(Int) /\ n \in 0 .. Len(stack)
          BY Zenon, <1>2, <2>2, <3>2
        <4> QED BY SMTT(40), <4>1
      <3> QED BY Zenon, <3>1, <3>2, <3>3 DEF Long
    <2> QED BY Zenon, <1>5, <2>1, <2>2
  <1> HIDE DEF below
  <1>7. PICK n \in 7 .. 8 :
          /\ Long(PushedBy(v), n + 15)
          /\ \A k \in 1 .. 22 :
               k <= 16 \/ (v \notin Irregular /\ k # 17) =>
                 PushedBy(v)[(n + 15 - k) + 1] = Found(v, Layout[k])
    <2>1. v \in Int
      OBVIOUS
    <2> QED BY Zenon, <1>2, <2>1, PushedFrame
  <1>8. PushedBy(v) \in Seq(Int) /\ v \in Int
    <2>1. v \in Int
      OBVIOUS
    <2> QED BY Zenon, <1>2, <2>1, PushedFrame
  <1>9. PICK m : m = Len(below)
    BY Zenon
  <1>10. Long(stack', m + (n + 15)) /\ Joined(stack', below, PushedBy(v), m, n + 15)
    <2>1. PICK p, q : p = below /\ q = PushedBy(v)
      BY Zenon
    <2>2. Long(p, m) /\ Long(q, n + 15)
      BY Zenon, <1>6, <1>7, <1>9, <2>1
    <2>3. Long(p \o q, m + (n + 15)) /\ Joined(p \o q, p, q, m, n + 15)
      BY Zenon, <2>2, PartsOf
    <2> QED BY Zenon, <1>4, <2>1, <2>3
  <1>11. stack' \in Seq(Int) /\ Len(stack') = m + (n + 15) /\ m \in Nat /\ m = Len(below)
    BY <1>4, <1>6, <1>8, <1>9, <1>10 DEF Long
  <1>12. /\ cpu' \in Cpus /\ cpu'["rsp"] = Len(stack') /\ cpu'["rip"] = IsrHandler
         /\ cpu'["cs"] = KernelCode
         /\ \A r \in {"user_stack", "error"} : cpu'[r] = cpu[r]
    <2>1. PICK c, a, l : c = cpu /\ a = (IF User THEN 0 ELSE cpu["ss"]) /\ l = Len(stack')
      BY Zenon
    <2>2. a \in Int /\ l \in Int
      <3>1. cpu["ss"] \in Int
        BY <1>2 DEF Cpus, Registers
      <3> QED BY <1>11, <2>1, <3>1
    <2>3. cpu' = [c EXCEPT !["rip"] = IsrHandler, !["cs"] = KernelCode, !["ss"] = a,
                           !["rflags"] = 0, !["rsp"] = l]
      BY Zenon, <1>4, <2>1
    <2>4. /\ DOMAIN c = Registers \cup {"user_stack", "error"}
          /\ c \in [Registers \cup {"user_stack", "error"} -> Int]
      BY <1>2, <2>1 DEF Cpus
    <2>5. {"rip", "cs", "ss", "rflags", "rsp"} \subseteq Registers
      BY Zenon DEF Registers
    <2>6. cpu' \in Cpus
      <3>1. PICK p, q : p = IsrHandler /\ q = KernelCode
        BY Zenon
      <3>2. p \in Int /\ q \in Int
        BY <3>1 DEF IsrHandler, KernelCode
      <3>3. cpu' = [c EXCEPT !["rip"] = p, !["cs"] = q, !["ss"] = a, !["rflags"] = 0, !["rsp"] = l]
        BY Zenon, <2>3, <3>1
      <3>4. c \in Cpus /\ 0 \in Int
        BY <1>2, <2>1
      <3> QED BY Zenon, <2>2, <3>2, <3>3, <3>4, FiveWords
    <2> QED BY <2>1, <2>3, <2>4, <2>5, <2>6
  <1>13. Entered'
    <2>1. ASSUME NEW k \in 1 .. 22, k <= 16 \/ (Regular' /\ k # 17)
          PROVE  stack'[(Len(stack') - k) + 1] = Saved(Layout[k])'
      <3>1. v \notin Irregular \/ k <= 16
        BY Zenon, <1>1, <2>1 DEF Regular, Irregular
      <3>2. PushedBy(v)[(n + 15 - k) + 1] = Found(v, Layout[k])
        BY <1>7, <2>1, <3>1
      <3>3. (n + 15 - k) + 1 \in 1 .. n + 15 /\ (Len(stack') - k) + 1 = m + ((n + 15 - k) + 1)
        BY <1>11
      <3>4. Found(v, Layout[k]) = Saved(Layout[k])'
        BY Zenon, <1>1 DEF Found, Saved, Layout, Pops
      <3> QED BY Zenon, <1>10, <3>2, <3>3, <3>4 DEF Joined
    <2>2. Len(stack') >= 22
      BY <1>11
    <2> QED BY Zenon, <1>1, <1>12, <2>1, <2>2 DEF Entered, Layout, Pops
  <1>14. Context(interrupted)'
    <2>1. PICK c : c = cpu
      BY Zenon
    <2>2. c["cs"] = KernelCode =>
            c["rsp"] <= Len(stack') /\ \A k \in 1 .. c["rsp"] : stack'[k] = stack[k]
      <3> SUFFICES ASSUME c["cs"] = KernelCode
                   PROVE  c["rsp"] <= Len(stack') /\ \A k \in 1 .. c["rsp"] : stack'[k] = stack[k]
        BY Zenon
      <3>1. c["rsp"] = m /\ \A k \in 1 .. m : below[k] = stack[k]
        BY Zenon, <1>6, <1>9, <2>1
      <3>2. m <= Len(stack')
        BY <1>11
      <3> QED BY Zenon, <1>10, <3>1, <3>2 DEF Joined
    <2>3. Context(c)'
      BY Zenon, <1>1, <1>2, <2>1, <2>2, ContextStays
    <2> QED BY Zenon, <1>1, <2>1, <2>3
  <1>15. SetUp' /\ Steps' = Steps /\ BootListed' = BootListed
    BY Zenon, <1>1, <1>2, SetUpStays
  <1>16. /\ booted' = Steps' /\ ~(booted' < Steps') /\ vector' # -1 /\ state' = "running"
         /\ cpu'["rip"] # Popped(18)
    BY <1>1, <1>4, <1>12, <1>15 DEF Steps, IsrHandler, Popped
  <1> QED BY Zenon, <1>1, <1>2, <1>8, <1>11, <1>12, <1>13, <1>14, <1>15, <1>16 DEF EntryInv

\* isr_handler_main reads the number and the registers from the frame.
LEMMA FrameIs ==
  ASSUME Entered
  PROVE  /\ DOMAIN Frame = 1 .. 22
         /\ \A k \in 1 .. 22 : k <= 16 \/ (Regular /\ k # 17) => Frame[k] = Saved(Layout[k])
  <1>1. DOMAIN Layout = 1 .. 22
    BY Zenon, LayoutIs
  <1> QED BY Zenon, <1>1 DEF Entered, Frame

LEMMA FieldsRight ==
  ASSUME Entered
  PROVE  /\ Field("isr_number") = vector
         /\ Regular => \A r \in Registers : Field(r) = interrupted[r]
  <1>1. ASSUME NEW name, NEW j \in 1 .. 22, Layout[j] = name
        PROVE  \E k \in 1 .. 22 : Layout[k] = name /\ Field(name) = Frame[k]
    BY Zenon, <1>1, LayoutIs DEF Field
  <1>2. Field("isr_number") = vector
    <2>1. 16 \in 1 .. 22
      OBVIOUS
    <2>2. PICK k \in 1 .. 22 : Layout[k] = "isr_number" /\ Field("isr_number") = Frame[k]
      <3>1. Layout[16] = "isr_number"
        BY Zenon, LayoutIs
      <3> QED BY Zenon, <1>1, <2>1, <3>1
    <2>3. k \notin 17 .. 22
      BY <2>2, LayoutIs
    <2>4. k <= 16
      BY <2>3
    <2> QED BY Zenon, <2>2, <2>4, FrameIs DEF Saved
  <1>3. ASSUME Regular, NEW r \in Registers
        PROVE  Field(r) = interrupted[r]
    <2>1. r # "isr_number" /\ r # "error_code"
      <3>1. CASE r \in Gprs
        BY Zenon, <3>1, GprNames
      <3> QED BY <3>1 DEF Registers
    <2>2. \E j \in 1 .. 22 : Layout[j] = r
      <3>1. CASE r \in Gprs
        <4>1. PICK j \in 1 .. 15 : Pops[j] = r
          BY Zenon, <3>1, Order
        <4>2. j \in 1 .. 22
          OBVIOUS
        <4> QED BY Zenon, <4>1, <4>2, LayoutIs
      <3>2. CASE r \in {"rip", "cs", "rflags", "rsp", "ss"}
        <4>1. 18 \in 1 .. 22 /\ 19 \in 1 .. 22 /\ 20 \in 1 .. 22 /\ 21 \in 1 .. 22 /\ 22 \in 1 .. 22
          OBVIOUS
        <4> QED BY Zenon, <3>2, <4>1, LayoutIs
      <3> QED BY Zenon, <3>1, <3>2 DEF Registers
    <2>3. PICK k \in 1 .. 22 : Layout[k] = r /\ Field(r) = Frame[k]
      BY Zenon, <1>1, <2>2
    <2>4. k # 17
      BY Zenon, <2>1, <2>3, LayoutIs
    <2> QED BY Zenon, <1>3, <2>1, <2>3, <2>4, FrameIs DEF Saved
  <1> QED BY Zenon, <1>2, <1>3

\* iretq can load the selectors of the kernel and those of a server.
LEMMA Loads ==
  ASSUME gdt = FullGdt
  PROVE  Loadable(KernelCode, KernelData) /\ Loadable(UserSeg, UserData)
  <1>1. DOMAIN gdt = {40, 48, 56, 64}
    BY DEF FullGdt, KernelCode, KernelData
  <1>2. /\ gdt[40] = [code |-> TRUE, ring |-> 0] /\ gdt[48] = [code |-> FALSE, ring |-> 0]
        /\ gdt[56] = [code |-> FALSE, ring |-> 3] /\ gdt[64] = [code |-> TRUE, ring |-> 3]
    <2>1. \A s \in {40, 48, 56, 64} :
            gdt[s] = [code |-> s \in {40, 64}, ring |-> IF s \in {56, 64} THEN 3 ELSE 0]
      BY Zenon DEF FullGdt, KernelCode, KernelData
    <2>2. /\ 40 # 56 /\ 40 # 64 /\ 48 # 40 /\ 48 # 56 /\ 48 # 64 /\ 56 # 40 /\ 56 # 64
      OBVIOUS
    <2>3. /\ (40 \in {40, 64}) = TRUE /\ (48 \in {40, 64}) = FALSE
          /\ (56 \in {40, 64}) = FALSE /\ (64 \in {40, 64}) = TRUE
      OBVIOUS
    <2>4. /\ (IF 40 \in {56, 64} THEN 3 ELSE 0) = 0 /\ (IF 48 \in {56, 64} THEN 3 ELSE 0) = 0
          /\ (IF 56 \in {56, 64} THEN 3 ELSE 0) = 3 /\ (IF 64 \in {56, 64} THEN 3 ELSE 0) = 3
      BY Zenon, <2>2
    <2>5. gdt[40] = [code |-> 40 \in {40, 64}, ring |-> IF 40 \in {56, 64} THEN 3 ELSE 0]
      BY Zenon, <2>1
    <2>6. gdt[48] = [code |-> 48 \in {40, 64}, ring |-> IF 48 \in {56, 64} THEN 3 ELSE 0]
      BY Zenon, <2>1
    <2>7. gdt[56] = [code |-> 56 \in {40, 64}, ring |-> IF 56 \in {56, 64} THEN 3 ELSE 0]
      BY Zenon, <2>1
    <2>8. gdt[64] = [code |-> 64 \in {40, 64}, ring |-> IF 64 \in {56, 64} THEN 3 ELSE 0]
      BY Zenon, <2>1
    <2>9. gdt[40] = [code |-> TRUE, ring |-> 0]
      BY Zenon, <2>3, <2>4, <2>5
    <2>10. gdt[48] = [code |-> FALSE, ring |-> 0]
      BY Zenon, <2>3, <2>4, <2>6
    <2>11. gdt[56] = [code |-> FALSE, ring |-> 3]
      BY Zenon, <2>3, <2>4, <2>7
    <2>12. gdt[64] = [code |-> TRUE, ring |-> 3]
      BY Zenon, <2>3, <2>4, <2>8
    <2> QED BY Zenon, <2>9, <2>10, <2>11, <2>12
  <1>3. /\ 40 - (40 % 8) = 40 /\ 48 - (48 % 8) = 48 /\ 67 - (67 % 8) = 64 /\ 59 - (59 % 8) = 56
        /\ 40 % 4 = 0 /\ 67 % 4 = 3
    OBVIOUS
  <1> QED BY Zenon, <1>1, <1>2, <1>3 DEF Loadable, KernelCode, KernelData, UserSeg, UserData

\* Where a general register is in struct registers, and that the general
\* registers of words are those of c.
PopIndex(r) == CHOOSE k \in DOMAIN Pops : Pops[k] = r

Holds(words, c) == \A k \in 1 .. 15 : words[k] = c[Pops[k]]

LEMMA PopsAll ==
  ASSUME NEW words, NEW c, Holds(words, c), NEW r \in Gprs
  PROVE  words[PopIndex(r)] = c[r]
  <1>1. \E k \in DOMAIN Pops : Pops[k] = r
    BY Zenon, Order
  <1>2. PICK k : k = PopIndex(r)
    BY Zenon
  <1>3. k \in DOMAIN Pops /\ Pops[k] = r
    BY Zenon, <1>1, <1>2 DEF PopIndex
  <1>4. words[k] = c[r]
    BY Zenon, <1>3, Order DEF Holds
  <1> QED BY Zenon, <1>2, <1>4

LEMMA Resumed ==
  ASSUME NEW words, NEW c \in Cpus, cpu \in Cpus, Resume(words), Loadable(c["cs"], c["ss"]),
         Holds(words, c),
         words[18] = c["rip"], words[19] = c["cs"], words[20] = c["rflags"],
         words[21] = c["rsp"], words[22] = c["ss"],
         \A r \in {"user_stack", "error"} : cpu[r] = c[r]
  PROVE  /\ cpu' = c /\ state' = state /\ vector' = -1 /\ interrupted' = BootCpu
         /\ stack' = IF c["cs"] % 4 = 3 THEN <<>> ELSE SubSeq(stack, 1, c["rsp"])
         /\ UNCHANGED <<core, booted, gdt, tr, idt, star, gs, called>>
  <1>1. Loadable(words[19], words[22])
    BY Zenon
  <1>2. /\ cpu' = [r \in DOMAIN cpu |->
                     CASE r \in Gprs -> words[PopIndex(r)]
                       [] r = "rip" -> words[18] [] r = "cs" -> words[19]
                       [] r = "rflags" -> words[20] [] r = "rsp" -> words[21]
                       [] r = "ss" -> words[22] [] OTHER -> cpu[r]]
        /\ stack' = IF words[19] % 4 = 3 THEN <<>> ELSE SubSeq(stack, 1, words[21])
        /\ state' = state
    BY Zenon, <1>1 DEF Resume, PopIndex
  <1>3. /\ vector' = -1 /\ interrupted' = BootCpu
        /\ UNCHANGED <<core, booted, gdt, tr, idt, star, gs, called>>
    BY Zenon DEF Resume
  <1>4. DOMAIN cpu = Registers \cup {"user_stack", "error"} /\ DOMAIN c = DOMAIN cpu
    BY Zenon DEF Cpus
  <1>5. ASSUME NEW r \in DOMAIN cpu
        PROVE  cpu'[r] = c[r]
    <2>1. CASE r \in Gprs
      <3>1. r \notin {"rip", "cs", "rflags", "rsp", "ss"}
        BY Zenon, <2>1, GprNames
      <3>2. words[PopIndex(r)] = c[r]
        BY Zenon, <2>1, PopsAll
      <3>3. cpu'[r] = words[PopIndex(r)]
        BY <1>2, <2>1, <3>1
      <3> QED BY Zenon, <3>2, <3>3
    <2>2. CASE r \notin Gprs
      <3>1. r \in {"rip", "cs", "rflags", "rsp", "ss", "user_stack", "error"}
        BY Zenon, <1>4, <2>2 DEF Registers
      <3> QED BY <1>2, <2>2, <3>1
    <2> QED BY Zenon, <2>1, <2>2
  <1>6. cpu' = c
    <2>1. cpu' = [r \in DOMAIN cpu |-> cpu'[r]]
      BY <1>2
    <2>2. c = [r \in DOMAIN cpu |-> c[r]]
      BY Zenon, <1>4 DEF Cpus
    <2> QED BY Zenon, <1>5, <2>1, <2>2
  <1> QED BY Zenon, <1>2, <1>3, <1>6

\* A frame goes back to what was interrupted.
LEMMA ResumeKeeps ==
  ASSUME EntryInv, booted = Steps, state = "running", vector # -1, Regular, Resume(Frame),
         UNCHANGED routing
  PROVE  cpu' = interrupted /\ EntryInv'
  <1>1. /\ SetUp /\ cpu \in Cpus /\ interrupted \in Cpus /\ called \in Cpus /\ stack \in Seq(Int)
        /\ Context(interrupted) /\ Entered
    BY Zenon DEF EntryInv
  <1>2. PICK c, words : c = interrupted /\ words = Frame
    BY Zenon
  <1>3. /\ c["rflags"] = IF_
        /\ \/ c["cs"] = UserSeg /\ c["ss"] = UserData
           \/ c["cs"] = KernelCode /\ c["ss"] = KernelData /\ c["rsp"] \in 0 .. Len(stack)
    BY Zenon, <1>1, <1>2, ContextFields
  <1>4. Loadable(c["cs"], c["ss"])
    <2>1. gdt = FullGdt
      BY Zenon, <1>1, ReadyAtEnd DEF Ready
    <2> QED BY Zenon, <1>3, <2>1, Loads
  <1>5. \A k \in 1 .. 22 : k # 16 /\ k # 17 => words[k] = c[Layout[k]]
    <2> SUFFICES ASSUME NEW k \in 1 .. 22, k # 16, k # 17
                 PROVE  words[k] = c[Layout[k]]
      BY Zenon
    <2>1. Frame[k] = Saved(Layout[k])
      BY Zenon, <1>1, FrameIs
    <2>2. Layout[k] # "isr_number"
      <3>1. CASE k \in 1 .. 15
        BY Zenon, <3>1, Order, LayoutIs, GprNames
      <3>2. CASE k \in 18 .. 22
        BY <3>2, LayoutIs
      <3> QED BY <3>1, <3>2
    <2> QED BY Zenon, <1>2, <2>1, <2>2 DEF Saved
  <1>6. Holds(words, c)
    <2>1. \A k \in 1 .. 15 : k \in 1 .. 22 /\ k # 16 /\ k # 17
      OBVIOUS
    <2> QED BY Zenon, <1>5, <2>1, LayoutIs DEF Holds
  <1>7. /\ words[18] = c["rip"] /\ words[19] = c["cs"] /\ words[20] = c["rflags"]
        /\ words[21] = c["rsp"] /\ words[22] = c["ss"]
    <2>1. /\ words[18] = c[Layout[18]] /\ words[19] = c[Layout[19]] /\ words[20] = c[Layout[20]]
          /\ words[21] = c[Layout[21]] /\ words[22] = c[Layout[22]]
      BY <1>5
    <2> QED BY Zenon, <2>1, LayoutIs
  <1>8. \A r \in {"user_stack", "error"} : cpu[r] = c[r]
    BY Zenon, <1>1, <1>2 DEF Entered
  <1>9. /\ cpu' = c /\ state' = state /\ vector' = -1 /\ interrupted' = BootCpu
        /\ stack' = IF c["cs"] % 4 = 3 THEN <<>> ELSE SubSeq(stack, 1, c["rsp"])
        /\ UNCHANGED <<core, booted, gdt, tr, idt, star, gs, called>>
    BY Zenon, <1>1, <1>2, <1>4, <1>6, <1>7, <1>8, Resumed
  <1>10. /\ stack' \in Seq(Int)
         /\ c["cs"] = KernelCode =>
              c["rsp"] <= Len(stack') /\ \A k \in 1 .. c["rsp"] : stack'[k] = stack[k]
    <2>1. CASE c["cs"] = UserSeg
      BY <1>9, <2>1 DEF UserSeg, KernelCode
    <2>2. CASE c["cs"] = KernelCode /\ c["rsp"] \in 0 .. Len(stack)
      <3>1. stack' = SubSeq(stack, 1, c["rsp"])
        BY <1>9, <2>2 DEF KernelCode
      <3> QED BY <1>1, <2>2, <3>1
    <2> QED BY Zenon, <1>3, <2>1, <2>2
  <1>11. Context(cpu)'
    <2>1. Context(c)'
      BY Zenon, <1>1, <1>2, <1>9, <1>10, ContextStays
    <2> QED BY Zenon, <1>9, <2>1
  <1>12. SetUp' /\ Steps' = Steps /\ BootListed' = BootListed
    BY Zenon, <1>1, <1>9, SetUpStays
  <1>13. cpu'["rip"] = Popped(18) => cpu'["cs"] # UserSeg
    <2>1. CASE InServer(c)
      BY <1>9, <2>1 DEF InServer, UserCode, Popped
    <2>2. CASE ~InServer(c)
      <3>1. c["cs"] = KernelCode
        BY Zenon, <1>1, <1>2, <2>2, IdleIs DEF Context, Pushing, Popping, InSyscall
      <3> QED BY <1>9, <3>1 DEF KernelCode, UserSeg
    <2> QED BY Zenon, <2>1, <2>2
  <1>14. booted' = Steps' /\ ~(booted' < Steps') /\ vector' = -1 /\ -1 \in Int /\ state' = "running"
    BY <1>9, <1>12 DEF Steps
  <1> QED
    BY Zenon, <1>1, <1>2, <1>9, <1>10, <1>11, <1>12, <1>13, <1>14, BootTypes DEF EntryInv

\* A server starts with its first registers.
LEMMA ResumeStarts ==
  ASSUME EntryInv, booted = Steps, state = "running", Resume(Initial), UNCHANGED routing
  PROVE  EntryInv'
  <1>1. SetUp /\ cpu \in Cpus /\ called \in Cpus
    BY Zenon DEF EntryInv
  <1>2. PICK c, words :
          /\ words = Initial
          /\ c = [r \in Registers \cup {"user_stack", "error"} |->
                    IF r = "rip" THEN UserCode ELSE IF r = "cs" THEN UserSeg
                    ELSE IF r = "ss" THEN UserData ELSE IF r = "rflags" THEN IF_
                    ELSE IF r = "rsp" THEN 300
                    ELSE IF r \in {"user_stack", "error"} THEN cpu[r] ELSE 0]
    BY Zenon
  <1>3. c \in Cpus
    <2>1. cpu["user_stack"] \in Int /\ cpu["error"] \in Int
      BY <1>1 DEF Cpus
    <2> QED BY <1>2, <2>1 DEF Cpus, UserCode, UserSeg, UserData, IF_
  <1>4. /\ c["rip"] = UserCode /\ c["cs"] = UserSeg /\ c["ss"] = UserData /\ c["rflags"] = IF_
        /\ c["rsp"] = 300
        /\ \A r \in {"user_stack", "error"} : cpu[r] = c[r]
    BY <1>2 DEF Registers
  <1>5. \A r \in Gprs : c[r] = 0
    BY <1>2, GprNames DEF Registers
  <1>6. Holds(words, c)
    <2> SUFFICES ASSUME NEW k \in 1 .. 15 PROVE words[k] = c[Pops[k]]
      BY Zenon DEF Holds
    <2>0. k \in 1 .. 22
      OBVIOUS
    <2>1. k \in DOMAIN Layout /\ Layout[k] = Pops[k] /\ Pops[k] \in Gprs
      BY Zenon, <2>0, Order, LayoutIs
    <2>2. Layout[k] \notin {"rip", "cs", "ss", "rflags", "rsp"}
      BY Zenon, <2>1, GprNames
    <2>3. words[k] = 0
      BY <1>2, <2>1, <2>2 DEF Initial
    <2> QED BY Zenon, <1>5, <2>1, <2>3
  <1>7. /\ words[18] = UserCode /\ words[19] = UserSeg /\ words[20] = IF_ /\ words[21] = 300
        /\ words[22] = UserData
    BY <1>2, LayoutIs DEF Initial
  <1>8. /\ words[18] = c["rip"] /\ words[19] = c["cs"] /\ words[20] = c["rflags"]
        /\ words[21] = c["rsp"] /\ words[22] = c["ss"] /\ Resume(words)
    BY Zenon, <1>2, <1>4, <1>7
  <1>9. Loadable(c["cs"], c["ss"])
    <2>1. gdt = FullGdt
      BY Zenon, <1>1, ReadyAtEnd DEF Ready
    <2> QED BY Zenon, <1>4, <2>1, Loads
  <1>10. /\ cpu' = c /\ state' = state /\ vector' = -1 /\ interrupted' = BootCpu
         /\ stack' = IF c["cs"] % 4 = 3 THEN <<>> ELSE SubSeq(stack, 1, c["rsp"])
         /\ UNCHANGED <<core, booted, gdt, tr, idt, star, gs, called>>
    BY Zenon, <1>1, <1>3, <1>4, <1>6, <1>9, <1>8, Resumed
  <1>11. stack' \in Seq(Int)
    BY <1>4, <1>10 DEF UserSeg
  <1>12. Context(cpu)'
    BY Zenon, <1>3, <1>4, <1>10 DEF Context, InServer
  <1>13. SetUp' /\ Steps' = Steps /\ BootListed' = BootListed
    BY Zenon, <1>1, <1>10, SetUpStays
  <1>14. /\ cpu'["rip"] # Popped(18) /\ booted' = Steps' /\ ~(booted' < Steps') /\ vector' = -1
         /\ -1 \in Int /\ state' = "running"
    BY <1>4, <1>10, <1>13 DEF Steps, UserCode, Popped
  <1> QED BY Zenon, <1>1, <1>3, <1>10, <1>11, <1>12, <1>13, <1>14, BootTypes DEF EntryInv

-----------------------------------------------------------------------------
(* The boot code.                                                          *)

\* Which step of its program a core is at.
LEMMA AtSteps ==
  ASSUME SetUp, NEW name, AtStep(name)
  PROVE  /\ booted < Steps /\ state = "running"
         /\ core = "bsp" =>
              /\ name = "system" => booted = 0
              /\ name = "fadt" => booted = 1
              /\ name = "gdt" => booted = 2
              /\ name = "idt" => booted = 3
              /\ name = "apic" => booted = 4
              /\ name = "gs" => booted = 5
              /\ name = "sti" => booted = 6
              /\ name # "timer"
         /\ core = "ap" =>
              /\ name = "idt" => booted = 0
              /\ name = "system" => booted = 1
              /\ name = "gdt" => booted = 2
              /\ name = "gs" => booted = 3
              /\ name = "timer" => booted = 4
              /\ name = "sti" => booted = 5
              /\ name # "fadt" /\ name # "apic"
  <1>1. state = "running" /\ booted < Len(Program[core]) /\ Program[core][booted + 1] = name
    BY Zenon DEF AtStep
  <1>2. CASE core = "bsp"
    <2>1. Program[core] = <<"system", "fadt", "gdt", "idt", "apic", "gs", "sti">>
      BY <1>2 DEF Program
    <2>2. booted \in 0 .. 6 /\ Steps = 7
      BY <1>1, <1>2, <2>1 DEF SetUp, Steps
    <2> QED BY <1>1, <1>2, <2>1, <2>2
  <1>3. CASE core = "ap"
    <2>1. Program[core] = <<"idt", "system", "gdt", "gs", "timer", "sti">>
      BY <1>3 DEF Program
    <2>2. booted \in 0 .. 5 /\ Steps = 6
      BY <1>1, <1>3, <2>1 DEF SetUp, Steps
    <2> QED BY <1>1, <1>3, <2>1, <2>2
  <1> QED BY Zenon, <1>2, <1>3 DEF SetUp

\* The outcome of a step of the boot code, given what it leaves set up.
LEMMA BootStep ==
  ASSUME EntryInv, booted < Steps, SetUp', Steps' = Steps, BootListed' = BootListed,
         UNCHANGED <<core, stack, state, vector, interrupted, called>>,
         \/ booted' < Steps /\ cpu' = cpu
         \/ booted' = Steps /\ cpu' = Idle
  PROVE  EntryInv'
  <1>1. cpu = BootCpu /\ vector = -1
    BY Zenon DEF EntryInv
  <1>2. CASE booted' < Steps /\ cpu' = cpu
    <2>1. booted' # Steps
      BY <1>2 DEF Steps
    <2> QED BY Zenon, <1>1, <1>2, <2>1 DEF EntryInv
  <1>3. CASE booted' = Steps /\ cpu' = Idle
    <2>1. ~(booted' < Steps)
      BY <1>3 DEF Steps
    <2>2. Idle["cs"] # UserSeg
      BY IdleIs DEF KernelCode, UserSeg
    <2>3. Context(cpu)'
      BY Zenon, <1>3 DEF Context, Idle
    <2>4. cpu' \in Cpus /\ (cpu'["rip"] = Popped(18) => cpu'["cs"] # UserSeg)
      BY Zenon, <1>3, <2>2, BootTypes
    <2> QED BY Zenon, <1>1, <2>1, <2>3, <2>4 DEF EntryInv
  <1> QED BY Zenon, <1>2, <1>3

LEMMA FirmwareStays ==
  ASSUME ApicStep \/ FindFadt \/ HpetTick \/ UNCHANGED routing
  PROVE  firmware' = firmware /\ BootListed' = BootListed
  <1>1. firmware' = firmware
    BY Zenon DEF ApicStep, FindFadt, FindHpet, FindMadt, Find, ParseEntry, ListIoapics, Redirect,
       EnableApic, StartTimer, SetTimer, HpetTick, routing
  <1> QED BY Zenon, <1>1 DEF BootListed, Present, madt

LEMMA BootKeeps ==
  ASSUME EntryInv, FoundIfListed,
         \/ Fadt \/ Apic \/ Gs
         \/ (SystemInit \/ GdtInit \/ IdtInit \/ Sti) /\ UNCHANGED routing
  PROVE  EntryInv'
  <1>1. SetUp /\ (booted < Steps => cpu = BootCpu)
    BY Zenon DEF EntryInv
  <1>2. CASE Fadt
    <2>1. /\ AtStep("fadt") /\ FindFadt
          /\ UNCHANGED <<core, cpu, stack, gdt, tr, idt, star, gs, state, vector, interrupted,
                         called>>
          /\ booted' = booted \/ booted' = booted + 1
      BY Zenon, <1>2 DEF Fadt, StepDone
    <2>2. booted < Steps /\ core = "bsp" /\ booted = 1
      BY Zenon, <1>1, <2>1, AtSteps DEF SetUp
    <2>3. BootListed' = BootListed
      BY Zenon, <2>1, FirmwareStays
    <2>4. SetUp' /\ Steps' = Steps /\ booted' < Steps
      BY <1>1, <2>1, <2>2 DEF SetUp, Steps, FullGdt
    <2> QED BY Zenon, <2>1, <2>2, <2>3, <2>4, BootStep
  <1>3. CASE Apic
    <2>1. /\ AtStep("apic") \/ AtStep("timer")
          /\ ApicStep
          /\ UNCHANGED <<core, cpu, stack, gdt, tr, idt, star, gs, state, vector, interrupted,
                         called>>
          /\ booted' = booted \/ (booted' = booted + 1 /\ step' = "done")
      BY Zenon, <1>3 DEF Apic, StepDone
    <2>2. booted < Steps /\ booted = 4
      BY Zenon, <1>1, <2>1, AtSteps DEF SetUp
    <2>3. BootListed' = BootListed
      BY Zenon, <2>1, FirmwareStays
    <2>4. SetUp' /\ Steps' = Steps /\ booted' < Steps
      BY <1>1, <2>1, <2>2 DEF SetUp, Steps, FullGdt
    <2> QED BY Zenon, <2>1, <2>2, <2>3, <2>4, BootStep
  <1>4. CASE Gs
    <2>1. /\ AtStep("gs") /\ booted' = booted + 1 /\ gs' = (lists[0] # <<>> \/ core = "ap")
          /\ UNCHANGED <<core, cpu, stack, gdt, tr, idt, star, state, vector, interrupted,
                         called>>
          /\ UNCHANGED routing
      BY Zenon, <1>4 DEF Gs, SetGs, StepDone
    <2>2. booted < Steps /\ (core = "bsp" => booted = 5) /\ (core = "ap" => booted = 3)
      BY Zenon, <1>1, <2>1, AtSteps
    <2>3. BootListed' = BootListed /\ step' = step
      BY Zenon, <2>1, FirmwareStays DEF routing
    <2>4. core = "bsp" => gs' \/ ~BootListed
      <3>1. 5 >= 5
        OBVIOUS
      <3> QED BY Zenon, <1>1, <2>1, <2>2, <3>1 DEF SetUp, FoundIfListed
    <2>5. core = "ap" => gs'
      BY Zenon, <2>1
    <2>6. booted' = booted + 1 /\ UNCHANGED <<core, gdt, tr, idt, star>>
      BY Zenon, <2>1
    <2>7. SetUp' /\ Steps' = Steps /\ booted' < Steps
      BY <1>1, <2>2, <2>3, <2>4, <2>5, <2>6 DEF SetUp, Steps, FullGdt
    <2> QED BY Zenon, <2>1, <2>2, <2>3, <2>7, BootStep
  <1>5. CASE SystemInit /\ UNCHANGED routing
    <2>1. /\ AtStep("system") /\ booted' = booted + 1 /\ star' = TRUE
          /\ UNCHANGED <<core, cpu, stack, gdt, tr, idt, gs, state, vector, interrupted, called>>
      BY Zenon, <1>5 DEF SystemInit, StepDone
    <2>2. booted < Steps /\ (core = "bsp" => booted = 0) /\ (core = "ap" => booted = 1)
      BY Zenon, <1>1, <2>1, AtSteps
    <2>3. BootListed' = BootListed
      BY Zenon, <1>5, FirmwareStays
    <2>4. SetUp' /\ Steps' = Steps /\ booted' < Steps
      BY <1>1, <2>1, <2>2 DEF SetUp, Steps, FullGdt
    <2> QED BY Zenon, <2>1, <2>2, <2>3, <2>4, BootStep
  <1>6. CASE IdtInit /\ UNCHANGED routing
    <2>1. /\ AtStep("idt") /\ booted' = booted + 1 /\ idt' = TRUE
          /\ UNCHANGED <<core, cpu, stack, gdt, tr, star, gs, state, vector, interrupted, called>>
      BY Zenon, <1>6 DEF IdtInit, StepDone
    <2>2. booted < Steps /\ (core = "bsp" => booted = 3) /\ (core = "ap" => booted = 0)
      BY Zenon, <1>1, <2>1, AtSteps
    <2>3. BootListed' = BootListed
      BY Zenon, <1>6, FirmwareStays
    <2>4. SetUp' /\ Steps' = Steps /\ booted' < Steps
      BY <1>1, <2>1, <2>2 DEF SetUp, Steps, FullGdt
    <2> QED BY Zenon, <2>1, <2>2, <2>3, <2>4, BootStep
  <1>7. CASE GdtInit /\ UNCHANGED routing
    <2>1. /\ AtStep("gdt") /\ booted' = booted + 1 /\ gdt' = FullGdt /\ tr' = TRUE
          /\ cpu' = [cpu EXCEPT !["cs"] = KernelCode, !["ss"] = KernelData]
          /\ UNCHANGED <<core, stack, idt, star, state, vector, interrupted, called>>
      BY Zenon, <1>7 DEF GdtInit, StepDone, FullGdt
    <2>2. booted < Steps /\ (core \in {"bsp", "ap"} => booted = 2)
      BY Zenon, <1>1, <2>1, AtSteps
    <2>3. BootListed' = BootListed
      BY Zenon, <1>7, FirmwareStays
    <2>4. SetUp' /\ Steps' = Steps /\ booted' < Steps
      BY <1>1, <2>1, <2>2 DEF SetUp, Steps, FullGdt
    <2>5. cpu' = cpu
      <3>1. cpu["cs"] = KernelCode /\ cpu["ss"] = KernelData
        BY <1>1, <2>2 DEF BootCpu, Registers
      <3>2. PICK D : cpu \in [D -> Int]
        BY Zenon DEF EntryInv, Cpus
      <3> QED BY <2>1, <3>1, <3>2
    <2> QED BY Zenon, <2>1, <2>2, <2>3, <2>4, <2>5, BootStep
  <1>8. CASE Sti /\ UNCHANGED routing
    <2>1. /\ AtStep("sti") /\ booted' = booted + 1
          /\ cpu' = [cpu EXCEPT !["rflags"] = IF_]
          /\ UNCHANGED <<core, stack, gdt, tr, idt, star, gs, state, vector, interrupted, called>>
      BY Zenon, <1>8 DEF Sti, StepDone
    <2>2. booted < Steps /\ (core = "bsp" => booted = 6) /\ (core = "ap" => booted = 5)
      BY Zenon, <1>1, <2>1, AtSteps
    <2>3. BootListed' = BootListed /\ step' = step
      BY Zenon, <1>8, FirmwareStays DEF routing
    <2>4. SetUp' /\ Steps' = Steps /\ booted' = Steps
      BY <1>1, <2>1, <2>2, <2>3 DEF SetUp, Steps, FullGdt
    <2>5. cpu' = Idle
      BY Zenon, <1>1, <2>1, <2>2 DEF Idle
    <2> QED BY Zenon, <2>1, <2>2, <2>3, <2>4, <2>5, BootStep
  <1> QED BY Zenon, <1>2, <1>3, <1>4, <1>5, <1>6, <1>7, <1>8

-----------------------------------------------------------------------------
(* System calls.                                                           *)

\* A step of the core from one place to the next.
LEMMA MoveKeeps ==
  ASSUME EntryInv, booted = Steps, state = "running", vector = -1, UNCHANGED routing,
         UNCHANGED <<core, booted, gdt, tr, idt, star, gs, state, vector, interrupted>>,
         cpu' \in Cpus, called' \in Cpus, stack' \in Seq(Int), Context(cpu)',
         cpu'["rip"] = Popped(18) => cpu'["cs"] # UserSeg
  PROVE  EntryInv'
  <1>1. SetUp' /\ Steps' = Steps /\ BootListed' = BootListed
    BY Zenon, SetUpStays DEF EntryInv
  <1>2. ~(booted < Steps)
    BY DEF Steps
  <1> QED BY Zenon, <1>1, <1>2 DEF EntryInv

\* Where the core is, by its rip.
LEMMA Whereabouts ==
  ASSUME NEW c, Context(c)
  PROVE  /\ c["rip"] = UserCode => InServer(c)
         /\ \A n \in 0 .. 24 : c["rip"] = Pushed(n) => Pushing(c, n)
         /\ \A n \in 0 .. 18 : c["rip"] = Popped(n) => Popping(c, n)
  <1>1. CASE c = Idle
    BY <1>1, IdleIs DEF Boot, UserCode, Pushed, Popped
  <1>2. CASE InServer(c)
    BY <1>2 DEF InServer, UserCode, Pushed, Popped
  <1>3. ASSUME NEW m \in 0 .. 24, Pushing(c, m)
        PROVE  /\ c["rip"] # UserCode
               /\ \A n \in 0 .. 24 : c["rip"] = Pushed(n) => n = m
               /\ \A n \in 0 .. 18 : c["rip"] # Popped(n)
    <2>1. c["rip"] = Pushed(m)
      BY Zenon, <1>3 DEF Pushing
    <2> QED BY <2>1 DEF UserCode, Pushed, Popped
  <1>4. ASSUME NEW m \in 0 .. 18, Popping(c, m)
        PROVE  /\ c["rip"] # UserCode
               /\ \A n \in 0 .. 24 : c["rip"] # Pushed(n)
               /\ \A n \in 0 .. 18 : c["rip"] = Popped(n) => n = m
    <2>1. c["rip"] = Popped(m)
      BY Zenon, <1>4 DEF Popping
    <2> QED BY <2>1 DEF UserCode, Pushed, Popped
  <1> QED BY Zenon, <1>1, <1>2, <1>3, <1>4 DEF Context

PushIndex(r) == CHOOSE k \in DOMAIN Pushes : Pushes[k] = r

LEMMA ComputeKeeps ==
  ASSUME EntryInv, booted = Steps, Compute, UNCHANGED routing
  PROVE  EntryInv'
  <1>1. /\ state = "running" /\ vector = -1 /\ cpu["rip"] = UserCode
        /\ UNCHANGED <<core, booted, stack, gdt, tr, idt, star, gs, state, vector, interrupted,
                       called>>
        /\ cpu' = [r \in DOMAIN cpu |->
                     IF r \in Gprs THEN 200 + PushIndex(r)
                     ELSE IF r = "rsp" THEN 300 ELSE cpu[r]]
    BY Zenon DEF Compute, Running, PushIndex
  <1>2. cpu \in Cpus /\ called \in Cpus /\ stack \in Seq(Int) /\ InServer(cpu)
    <2>1. PICK c : c = cpu
      BY Zenon
    <2>2. InServer(c)
      BY Zenon, <1>1, <2>1, Whereabouts DEF EntryInv
    <2> QED BY Zenon, <2>1, <2>2 DEF EntryInv
  <1>3. \A r \in Gprs : PushIndex(r) \in 1 .. 15
    <2> TAKE r \in Gprs
    <2>1. \E k \in DOMAIN Pushes : Pushes[k] = r
      BY Zenon, Order
    <2> QED BY Zenon, <2>1, Order DEF PushIndex
  <1>4. DOMAIN cpu = Registers \cup {"user_stack", "error"} /\ \A r \in DOMAIN cpu : cpu[r] \in Int
    BY <1>2 DEF Cpus
  <1>5. cpu' \in Cpus
    <2>1. \A r \in DOMAIN cpu : (IF r \in Gprs THEN 200 + PushIndex(r)
                                 ELSE IF r = "rsp" THEN 300 ELSE cpu[r]) \in Int
      BY <1>3, <1>4
    <2> QED BY Zenon, <1>1, <1>4, <2>1 DEF Cpus
  <1>6. InServer(cpu)'
    <2>1. \A r \in {"rip", "cs", "ss", "rflags"} : r \notin Gprs /\ r # "rsp" /\ r \in DOMAIN cpu
      BY <1>4, GprNames DEF Registers
    <2>2. \A r \in {"rip", "cs", "ss", "rflags"} : cpu'[r] = cpu[r]
      BY Zenon, <1>1, <2>1
    <2> QED BY Zenon, <1>2, <1>5, <2>2 DEF InServer
  <1>7. cpu'["rip"] # Popped(18)
    BY <1>6 DEF InServer, UserCode, Popped
  <1> QED BY Zenon, <1>1, <1>2, <1>5, <1>6, <1>7, MoveKeeps DEF Context

LEMMA SyscallKeeps ==
  ASSUME EntryInv, booted = Steps, Syscall, UNCHANGED routing
  PROVE  EntryInv'
  <1>1. /\ state = "running" /\ vector = -1 /\ cpu["rip"] = UserCode /\ called' = cpu
        /\ UNCHANGED <<core, booted, stack, gdt, tr, idt, star, gs, vector, interrupted>>
    BY Zenon DEF Syscall, Running
  <1>2. SetUp /\ cpu \in Cpus /\ stack \in Seq(Int) /\ interrupted \in Cpus
    BY Zenon DEF EntryInv
  <1>3. InServer(cpu)
    <2>1. PICK c : c = cpu
      BY Zenon
    <2>2. InServer(c)
      BY Zenon, <1>1, <2>1, Whereabouts DEF EntryInv
    <2> QED BY Zenon, <2>1, <2>2
  <1>4. star /\ (gs \/ (core = "bsp" /\ ~BootListed))
    BY Zenon, <1>2, ReadyAtEnd DEF Ready
  <1>5. CASE ~gs
    <2>1. state' = "lost" /\ cpu' = cpu
      BY Zenon, <1>5 DEF Syscall
    <2>2. SetUp' /\ Steps' = Steps /\ BootListed' = BootListed
      BY Zenon, <1>1, <1>2, SetUpStays
    <2>3. ~(booted < Steps) /\ "lost" # "running"
      BY DEF Steps
    <2> QED BY Zenon, <1>1, <1>2, <1>4, <1>5, <2>1, <2>2, <2>3 DEF EntryInv
  <1>6. CASE gs
    <2>1. PICK c, a, b, l : c = cpu /\ a = cpu["rip"] /\ b = cpu["rflags"] /\ l = cpu["rsp"]
      BY Zenon
    <2>2. /\ cpu' = [c EXCEPT !["rcx"] = a, !["r11"] = b, !["cs"] = KernelCode,
                              !["ss"] = KernelData, !["user_stack"] = l, !["rsp"] = 0,
                              !["rflags"] = IF_, !["rip"] = Pushed(0)]
          /\ state' = state
      BY Zenon, <1>4, <1>6, <2>1 DEF Syscall
    <2>3. /\ DOMAIN c = Registers \cup {"user_stack", "error"}
          /\ \A r \in DOMAIN c : c[r] \in Int
      BY <1>2, <2>1 DEF Cpus
    <2>4. {"rcx", "r11", "cs", "ss", "user_stack", "rsp", "rflags", "rip"} \subseteq DOMAIN c
      BY Zenon, <2>3, GprsAre DEF Registers
    <2>5. a \in Int /\ b \in Int /\ l \in Int
      BY Zenon, <2>1, <2>3, <2>4
    <2>6. \A r \in DOMAIN c :
            cpu'[r] = IF r = "rcx" THEN a ELSE IF r = "r11" THEN b ELSE IF r = "cs" THEN KernelCode
                      ELSE IF r = "ss" THEN KernelData ELSE IF r = "user_stack" THEN l
                      ELSE IF r = "rsp" THEN 0 ELSE IF r = "rflags" THEN IF_
                      ELSE IF r = "rip" THEN Pushed(0) ELSE c[r]
      BY <2>2
    <2>7. DOMAIN cpu' = DOMAIN c /\ cpu' = [r \in DOMAIN c |-> cpu'[r]]
      BY Zenon, <2>2
    <2>8. cpu' \in Cpus
      <3>1. \A r \in DOMAIN c : cpu'[r] \in Int
        BY <2>3, <2>5, <2>6 DEF KernelCode, KernelData, IF_, Pushed
      <3> QED BY Zenon, <2>3, <2>7, <3>1 DEF Cpus
    <2>9. /\ cpu'["cs"] = KernelCode /\ cpu'["ss"] = KernelData /\ cpu'["rflags"] = IF_
          /\ cpu'["rsp"] = 0 /\ cpu'["user_stack"] = l /\ cpu'["rip"] = Pushed(0)
      BY <2>4, <2>6
    <2>10. Pushing(cpu, 0)'
      <3>1. \A r \in Gprs : cpu'[r] = AtCall(r)'
        <4> SUFFICES ASSUME NEW r \in Gprs PROVE cpu'[r] = AtCall(r)'
          BY Zenon
        <4>1. r \in DOMAIN c
          BY Zenon, <2>3 DEF Registers
        <4>2. r \notin {"rip", "cs", "rflags", "rsp", "ss", "user_stack"}
          BY Zenon, GprNames
        <4>3. cpu'[r] = IF r = "rcx" THEN a ELSE IF r = "r11" THEN b ELSE c[r]
          BY Zenon, <2>6, <4>1, <4>2
        <4> QED BY Zenon, <1>1, <2>1, <4>3 DEF AtCall
      <3>2. InSyscall(cpu, 0)'
        <4>1. InServer(called)'
          BY Zenon, <1>1, <1>3 DEF InServer
        <4>2. 0 <= Len(stack') /\ 1 .. 0 = {}
          BY <1>1, <1>2
        <4> QED BY Zenon, <1>1, <2>1, <2>8, <2>9, <4>1, <4>2 DEF InSyscall
      <3>3. 0 \in 0 .. 24
        OBVIOUS
      <3> QED BY Zenon, <2>9, <3>1, <3>2, <3>3 DEF Pushing
    <2>11. Context(cpu)' /\ cpu'["cs"] # UserSeg
      <3>1. 0 \in 0 .. 24 /\ KernelCode # UserSeg
        BY DEF KernelCode, UserSeg
      <3> QED BY Zenon, <2>9, <2>10, <3>1 DEF Context
    <2> QED BY Zenon, <1>1, <1>2, <2>2, <2>8, <2>11, MoveKeeps
  <1> QED BY Zenon, <1>5, <1>6

LEMMA Element ==
  ASSUME NEW h, h \in Seq(Int), NEW k \in 1 .. Len(h)
  PROVE  h[k] \in Int
  OBVIOUS

LEMMA PushKeeps ==
  ASSUME EntryInv, booted = Steps, PushWord, UNCHANGED routing
  PROVE  EntryInv'
  <1>1. /\ cpu \in Cpus /\ stack \in Seq(Int) /\ called \in Cpus
        /\ state = "running" /\ vector = -1 /\ Context(cpu)
    BY Zenon DEF EntryInv, PushWord, Running
  <1>2. PICK n \in 0 .. Len(Words) - 1 :
          /\ cpu["rip"] = Pushed(n)
          /\ stack' = Append(SubSeq(stack, 1, cpu["rsp"]), Words[n + 1])
          /\ cpu' = [cpu EXCEPT !["rsp"] = @ + 1, !["rip"] = Pushed(n + 1)]
          /\ UNCHANGED <<core, booted, gdt, tr, idt, star, gs, state, vector, interrupted, called>>
    BY Zenon DEF PushWord, Running
  <1>3. n \in 0 .. 23 /\ n \in 0 .. 24 /\ n + 1 \in 0 .. 24 /\ n + 1 \in 1 .. 24 /\ n \in Nat
    BY WordsParts
  <1>4. PICK c, w : c = cpu /\ w = Words[n + 1]
    BY Zenon
  <1>5. Pushing(c, n) /\ InSyscall(c, n) /\ \A r \in Gprs : c[r] = AtCall(r)
    BY Zenon, <1>1, <1>2, <1>3, <1>4, Whereabouts DEF Pushing
  <1>6. /\ c \in Cpus /\ c["rsp"] = n /\ n <= Len(stack) /\ c["user_stack"] = called["rsp"]
        /\ c["cs"] = KernelCode /\ c["ss"] = KernelData /\ c["rflags"] = IF_
        /\ \A k \in 1 .. n : stack[k] = CallWord(k)
    BY Zenon, <1>5 DEF InSyscall
  <1>7. w = CallWord(n + 1)
    BY Zenon, <1>3, <1>4, <1>5, <1>6, WordsAre
  <1>8. w \in Int
    <2>1. \A k \in 1 .. 9 : CallHead[k] \in Int
      <3>1. called["rip"] \in Int /\ called["rflags"] \in Int /\ called["rsp"] \in Int
        BY <1>1 DEF Cpus, Registers
      <3>2. PICK a, b, l, x, y : /\ a = called["rip"] /\ b = called["rflags"] /\ l = called["rsp"]
                                 /\ x = UserData /\ y = UserSeg
        BY Zenon
      <3>3. a \in Int /\ b \in Int /\ l \in Int /\ x \in Int /\ y \in Int
        BY <3>1, <3>2 DEF UserData, UserSeg
      <3>4. <<a, b, x, l, b, y, a, 0, 0>> \in Seq(Int) /\ Len(<<a, b, x, l, b, y, a, 0, 0>>) = 9
        BY <3>3
      <3>5. PICK h : h = <<a, b, x, l, b, y, a, 0, 0>>
        BY Zenon
      <3>6. \A k \in 1 .. 9 : h[k] \in Int
        <4>1. h \in Seq(Int) /\ Len(h) = 9
          BY Zenon, <3>4, <3>5
        <4> QED BY Zenon, <4>1, Element
      <3> QED BY Zenon, <3>2, <3>5, <3>6 DEF CallHead
    <2>2. \A k \in 1 .. 15 : AtCall(Pushes[k]) \in Int
      <3>1. \A r \in Gprs : cpu[r] \in Int
        BY <1>1 DEF Cpus, Registers
      <3> SUFFICES ASSUME NEW k \in 1 .. 15 PROVE AtCall(Pushes[k]) \in Int
        BY Zenon
      <3>2. Pushes[k] \in Gprs
        BY Zenon, Order
      <3>3. AtCall(Pushes[k]) = cpu[Pushes[k]]
        BY Zenon, <1>4, <1>5, <3>2
      <3> QED BY Zenon, <3>1, <3>2, <3>3
    <2>3. n + 1 <= 9 \/ (n + 1) - 9 \in 1 .. 15
      BY <1>3
    <2>4. n + 1 <= 9 => n + 1 \in 1 .. 9
      BY <1>3
    <2> QED BY Zenon, <1>7, <2>1, <2>2, <2>3, <2>4 DEF CallWord
  <1>9. stack' = Append(SubSeq(stack, 1, n), w)
    BY Zenon, <1>2, <1>4, <1>6
  <1>10. /\ stack' \in Seq(Int) /\ n + 1 <= Len(stack') /\ stack'[n + 1] = w
         /\ \A k \in 1 .. n : stack'[k] = stack[k]
    BY <1>1, <1>3, <1>6, <1>8, <1>9
  <1>11. \A k \in 1 .. n + 1 : stack'[k] = CallWord(k)'
    <2> SUFFICES ASSUME NEW k \in 1 .. n + 1 PROVE stack'[k] = CallWord(k)'
      BY Zenon
    <2>1. CallWord(k)' = CallWord(k)
      BY Zenon, <1>2 DEF CallWord, CallHead, AtCall
    <2>2. k \in 1 .. n \/ k = n + 1
      BY <1>3
    <2> QED BY Zenon, <1>6, <1>7, <1>10, <2>1, <2>2
  <1>12. /\ cpu' \in Cpus /\ cpu'["rsp"] = n + 1 /\ cpu'["rip"] = Pushed(n + 1)
         /\ \A r \in Registers \cup {"user_stack", "error"} :
              r # "rsp" /\ r # "rip" => cpu'[r] = cpu[r]
    <2>1. cpu' = [c EXCEPT !["rsp"] = c["rsp"] + 1, !["rip"] = Pushed(n + 1)]
      BY Zenon, <1>2, <1>4
    <2>2. PICK p, D : p = Pushed(n + 1) /\ D = Registers \cup {"user_stack", "error"}
      BY Zenon
    <2>3. p \in Int /\ n + 1 \in Int
      BY <1>3, <2>2 DEF Pushed
    <2>4. c \in [D -> Int] /\ "rsp" \in D /\ "rip" \in D
      BY Zenon, <1>6, <2>2 DEF Cpus, Registers
    <2>5. cpu' = [c EXCEPT !["rsp"] = n + 1, !["rip"] = p]
      BY Zenon, <1>6, <2>1, <2>2
    <2>6. cpu' \in [D -> Int]
      BY <2>3, <2>4, <2>5
    <2>7. cpu'["rsp"] = n + 1 /\ cpu'["rip"] = p
      BY <2>4, <2>5
    <2>8. \A r \in D : r # "rsp" /\ r # "rip" => cpu'[r] = c[r]
      BY <2>4, <2>5
    <2> QED BY Zenon, <1>4, <2>2, <2>6, <2>7, <2>8 DEF Cpus
  <1>13. Pushing(cpu, n + 1)'
    <2>1. /\ cpu'["cs"] = KernelCode /\ cpu'["ss"] = KernelData /\ cpu'["rflags"] = IF_
          /\ cpu'["user_stack"] = called'["rsp"]
      BY Zenon, <1>2, <1>4, <1>6, <1>12 DEF Registers
    <2>2. InServer(called)'
      BY Zenon, <1>2, <1>5 DEF InSyscall, InServer
    <2>3. InSyscall(cpu, n + 1)'
      BY Zenon, <1>10, <1>11, <1>12, <2>1, <2>2 DEF InSyscall
    <2>4. \A r \in Gprs : cpu'[r] = AtCall(r)'
      BY Zenon, <1>2, <1>4, <1>5, <1>12, GprNames DEF AtCall, Registers
    <2> QED BY Zenon, <1>3, <1>12, <2>3, <2>4 DEF Pushing
  <1>14. Context(cpu)'
    BY Zenon, <1>3, <1>13 DEF Context
  <1>15. cpu'["rip"] # Popped(18)
    BY <1>3, <1>12 DEF Pushed, Popped
  <1> QED BY Zenon, <1>1, <1>2, <1>10, <1>12, <1>14, <1>15, MoveKeeps

LEMMA HandlerKeeps ==
  ASSUME EntryInv, booted = Steps, SyscallHandler, UNCHANGED routing
  PROVE  EntryInv'
  <1>1. /\ cpu \in Cpus /\ stack \in Seq(Int) /\ called \in Cpus
        /\ state = "running" /\ vector = -1 /\ Context(cpu) /\ cpu["rip"] = Pushed(24)
        /\ UNCHANGED <<core, booted, stack, gdt, tr, idt, star, gs, state, vector, interrupted,
                       called>>
    BY Zenon, WordsParts DEF EntryInv, SyscallHandler, Running
  <1>2. PICK e \in 0 .. 1 :
          cpu' = [r \in DOMAIN cpu |-> CASE r \in Gprs -> 0 [] r = "error" -> e
                                         [] r = "rip" -> Popped(0) [] OTHER -> cpu[r]]
    BY Zenon DEF SyscallHandler
  <1>3. PICK c : c = cpu
    BY Zenon
  <1>4. 24 \in 0 .. 24 /\ 24 \in Nat /\ 0 \in 0 .. 18 /\ Left(0) = 24
    BY DEF Left
  <1>5. InSyscall(c, 24)
    BY Zenon, <1>1, <1>3, <1>4, Whereabouts DEF Pushing
  <1>6. DOMAIN cpu = Registers \cup {"user_stack", "error"} /\ \A r \in DOMAIN cpu : cpu[r] \in Int
    BY <1>1 DEF Cpus
  <1>7. ASSUME NEW r \in DOMAIN cpu
        PROVE  /\ cpu'[r] \in Int
               /\ r = "rip" => cpu'[r] = Popped(0)
               /\ r \in {"cs", "ss", "rflags", "rsp", "user_stack"} => cpu'[r] = cpu[r]
    <2>1. r \in Gprs => r \notin {"rip", "cs", "ss", "rflags", "rsp", "user_stack", "error"}
      BY Zenon, GprNames
    <2> QED BY <1>2, <1>6, <2>1 DEF Popped
  <1>8. cpu' \in Cpus
    <2>1. cpu' = [r \in DOMAIN cpu |-> cpu'[r]]
      BY <1>2
    <2> QED BY Zenon, <1>6, <1>7, <2>1 DEF Cpus
  <1>9. cpu'["rip"] = Popped(0)
    BY Zenon, <1>6, <1>7 DEF Registers
  <1>10. \A r \in {"cs", "ss", "rflags", "rsp", "user_stack"} : cpu'[r] = cpu[r]
    BY Zenon, <1>6, <1>7 DEF Registers
  <1>11. Popping(cpu, 0)'
    <2>1. InSyscall(c, 24)'
      <3>1. 24 <= Len(stack')
        BY Zenon, <1>1, <1>5 DEF InSyscall
      <3> QED BY Zenon, <1>1, <1>4, <1>5, <3>1, SyscallStays
    <2>2. InSyscall(cpu, 24)'
      BY Zenon, <1>3, <1>8, <1>10, <2>1 DEF InSyscall
    <2>3. \A k \in 1 .. 15 : ~(k <= 0)
      OBVIOUS
    <2> QED BY Zenon, <1>4, <1>9, <2>2, <2>3 DEF Popping
  <1>12. Context(cpu)'
    BY Zenon, <1>4, <1>11 DEF Context
  <1>13. cpu'["rip"] # Popped(18)
    BY <1>9 DEF Popped
  <1> QED BY Zenon, <1>1, <1>8, <1>12, <1>13, MoveKeeps

\* The words that are still to pop.
LEMMA CallWordsAre ==
  /\ \A n \in 0 .. 14 : CallWord(24 - n) = AtCall(Pops[n + 1])
  /\ CallWord(2) = AtCall("r11") /\ CallWord(1) = AtCall("rcx")
  <1>1. ASSUME NEW n \in 0 .. 14
        PROVE  CallWord(24 - n) = AtCall(Pops[n + 1])
    <2>1. n + 1 \in 1 .. 15 /\ 16 - (n + 1) = (24 - n) - 9 /\ ~(24 - n <= 9)
      OBVIOUS
    <2>2. Pops[n + 1] = Pushes[(24 - n) - 9]
      BY ZenonT(60), <2>1, Order
    <2> QED BY Zenon, <2>1, <2>2 DEF CallWord
  <1>2. CallWord(2) = called["rflags"] /\ CallWord(1) = called["rip"]
    BY DEF CallWord, CallHead
  <1>3. AtCall("r11") = called["rflags"] /\ AtCall("rcx") = called["rip"]
    BY DEF AtCall
  <1> QED BY Zenon, <1>1, <1>2, <1>3

LEMMA PopKeeps ==
  ASSUME EntryInv, booted = Steps, PopWord, UNCHANGED routing
  PROVE  EntryInv'
  <1>1. /\ cpu \in Cpus /\ stack \in Seq(Int) /\ called \in Cpus
        /\ state = "running" /\ vector = -1 /\ Context(cpu)
    BY Zenon DEF EntryInv, PopWord, Running
  <1>2. PICK n \in 0 .. Len(Unwind) - 1 :
          /\ cpu["rip"] = Popped(n)
          /\ cpu' = [r \in DOMAIN cpu |->
                       CASE r = Unwind[n + 1] -> stack[cpu["rsp"]]
                         [] r = "rsp" -> cpu["rsp"] - AfterPops(n)
                         [] r = "rip" -> Popped(n + 1) [] OTHER -> cpu[r]]
          /\ stack' = SubSeq(stack, 1, cpu["rsp"] - AfterPops(n))
          /\ UNCHANGED <<core, booted, gdt, tr, idt, star, gs, state, vector, interrupted, called>>
    BY Zenon DEF PopWord, Running
  <1>3. n \in 0 .. 17 /\ n \in 0 .. 18 /\ n + 1 \in 0 .. 18 /\ n + 1 \in 1 .. 18
    BY UnwindIs
  <1>4. PICK c, name, m, w, l : /\ c = cpu /\ name = Unwind[n + 1]
                                /\ m = Left(n) /\ w = stack[m] /\ l = Left(n + 1)
    BY Zenon
  <1>5. InSyscall(c, m) /\ \A k \in 1 .. 15 : k <= n => c[Pops[k]] = AtCall(Pops[k])
    BY Zenon, <1>1, <1>2, <1>3, <1>4, Whereabouts DEF Popping
  <1>6. /\ c \in Cpus /\ c["rsp"] = m /\ m <= Len(stack)
        /\ c["user_stack"] = called["rsp"]
        /\ c["cs"] = KernelCode /\ c["ss"] = KernelData /\ c["rflags"] = IF_
        /\ \A k \in 1 .. m : stack[k] = CallWord(k)
        /\ InServer(called)
    BY Zenon, <1>5 DEF InSyscall
  <1>7. m \in 1 .. 24 /\ l \in 0 .. 23 /\ l < m /\ m - AfterPops(n) = l
    <2>1. Len(Pops) = 15
      BY Zenon, Order
    <2>2. CASE n <= 14
      <3>1. m = 24 - n /\ l = 24 - (n + 1) /\ AfterPops(n) = 1
        BY <1>3, <1>4, <2>1, <2>2 DEF Left, AfterPops
      <3> QED BY <1>3, <2>2, <3>1
    <2>3. CASE n = 15
      <3>1. m = 9 /\ l = 2 /\ AfterPops(n) = 7
        BY <1>4, <2>1, <2>3 DEF Left, AfterPops
      <3> QED BY <3>1
    <2>4. CASE n = 16 \/ n = 17
      <3>1. m = 18 - n /\ l = 18 - (n + 1) /\ AfterPops(n) = 1
        BY <1>4, <2>1, <2>4 DEF Left, AfterPops
      <3> QED BY <2>4, <3>1
    <2> QED BY <1>3, <2>2, <2>3, <2>4
  <1>8. name \in Gprs \cup {"skip"} /\ (name \in Gprs => w = AtCall(name)) /\ w \in Int
    <2>1. w = CallWord(m) /\ w \in Int
      <3>0. m \in 1 .. m /\ m \in 1 .. Len(stack)
        BY <1>1, <1>6, <1>7
      <3>1. w = CallWord(m)
        BY Zenon, <1>4, <1>6, <3>0
      <3>2. w \in Int
        BY <1>1, <1>4, <3>0
      <3> QED BY Zenon, <3>1, <3>2
    <2>2. CASE n \in 0 .. 14
      <3>1. n + 1 \in 1 .. 15 /\ m = 24 - n
        BY <1>4, <2>2 DEF Left
      <3>2. name = Pops[n + 1]
        BY Zenon, <1>4, <3>1, UnwindIs
      <3>3. Pops[n + 1] \in Gprs
        BY Zenon, <3>1, Order
      <3>4. CallWord(24 - n) = AtCall(Pops[n + 1])
        BY Zenon, <2>2, CallWordsAre
      <3> QED BY Zenon, <2>1, <3>1, <3>2, <3>3, <3>4
    <2>3. CASE n = 15
      <3>1. name = "skip"
        BY <1>4, <2>3, UnwindIs
      <3> QED BY Zenon, <2>1, <3>1, GprNames
    <2>4. CASE n = 16
      <3>1. name = "r11" /\ m = 2
        BY <1>4, <2>4, UnwindIs DEF Left
      <3> QED BY Zenon, <2>1, <3>1, GprsAre, CallWordsAre
    <2>5. CASE n = 17
      <3>1. name = "rcx" /\ m = 1
        BY <1>4, <2>5, UnwindIs DEF Left
      <3> QED BY Zenon, <2>1, <3>1, GprsAre, CallWordsAre
    <2> QED BY <1>3, <2>2, <2>3, <2>4, <2>5
  <1>9. stack' \in Seq(Int) /\ l <= Len(stack') /\ \A k \in 1 .. l : stack'[k] = stack[k]
    <2>1. stack' = SubSeq(stack, 1, l)
      BY Zenon, <1>2, <1>4, <1>6, <1>7
    <2> QED BY <1>1, <1>6, <1>7, <2>1
  <1>10. /\ DOMAIN cpu = Registers \cup {"user_stack", "error"}
         /\ \A r \in DOMAIN cpu : cpu[r] \in Int
    BY <1>1 DEF Cpus
  <1>11. PICK p : p = Popped(n + 1)
    BY Zenon
  <1>12. ASSUME NEW r \in DOMAIN cpu
         PROVE  /\ cpu'[r] \in Int
                /\ r = "rip" => cpu'[r] = p
                /\ r = "rsp" => cpu'[r] = l
                /\ r = name => cpu'[r] = w
                /\ r \notin {name, "rip", "rsp"} => cpu'[r] = cpu[r]
    <2>1. name \notin {"rip", "rsp"}
      BY Zenon, <1>8, GprNames
    <2>2. p \in Int /\ l \in Int
      BY <1>3, <1>7, <1>11 DEF Popped
    <2>3. cpu'[r] = CASE r = name -> w [] r = "rsp" -> l [] r = "rip" -> p [] OTHER -> cpu[r]
      <3>1. cpu'[r] = CASE r = Unwind[n + 1] -> stack[cpu["rsp"]]
                        [] r = "rsp" -> cpu["rsp"] - AfterPops(n)
                        [] r = "rip" -> Popped(n + 1) [] OTHER -> cpu[r]
        BY Zenon, <1>2
      <3>2. stack[cpu["rsp"]] = w /\ cpu["rsp"] - AfterPops(n) = l
        BY Zenon, <1>4, <1>6, <1>7
      <3> QED BY Zenon, <1>4, <1>11, <3>1, <3>2
    <2>4. CASE r = name
      BY Zenon, <1>8, <2>1, <2>3, <2>4
    <2>5. CASE r = "rsp"
      BY <2>1, <2>2, <2>3, <2>5
    <2>6. CASE r = "rip"
      BY <2>1, <2>2, <2>3, <2>6
    <2>7. CASE r \notin {name, "rip", "rsp"}
      BY Zenon, <1>10, <2>3, <2>7
    <2> QED BY Zenon, <2>4, <2>5, <2>6, <2>7
  <1>13. cpu' \in Cpus
    <2>1. cpu' = [r \in DOMAIN cpu |-> cpu'[r]]
      BY <1>2
    <2> QED BY Zenon, <1>10, <1>12, <2>1 DEF Cpus
  <1>14. /\ cpu'["rip"] = p /\ cpu'["rsp"] = l
         /\ \A r \in {"cs", "ss", "rflags", "user_stack"} : cpu'[r] = cpu[r]
    <2>1. \A r \in {"cs", "ss", "rflags", "user_stack"} : r \notin {name, "rip", "rsp"}
      <3>1. name \notin {"cs", "ss", "rflags", "user_stack"}
        BY Zenon, <1>8, GprNames
      <3> QED BY Zenon, <3>1
    <2> QED BY Zenon, <1>10, <1>12, <2>1 DEF Registers
  <1>15. InSyscall(cpu, l)'
    <2>1. \A k \in 1 .. l : stack'[k] = CallWord(k)'
      <3> SUFFICES ASSUME NEW k \in 1 .. l PROVE stack'[k] = CallWord(k)'
        BY Zenon
      <3>1. k \in 1 .. m
        BY <1>7
      <3>2. CallWord(k)' = CallWord(k)
        BY Zenon, <1>2 DEF CallWord, CallHead, AtCall
      <3> QED BY Zenon, <1>6, <1>9, <3>1, <3>2
    <2>2. InServer(called)'
      BY Zenon, <1>2, <1>6 DEF InServer
    <2> QED BY Zenon, <1>2, <1>4, <1>6, <1>9, <1>13, <1>14, <2>1, <2>2 DEF InSyscall
  <1>16. \A k \in 1 .. 15 : k <= n + 1 => cpu'[Pops[k]] = AtCall(Pops[k])'
    <2> SUFFICES ASSUME NEW k \in 1 .. 15, k <= n + 1 PROVE cpu'[Pops[k]] = AtCall(Pops[k])
      BY Zenon, <1>2 DEF AtCall, Pops
    <2>1. Pops[k] \in Gprs /\ Pops[k] \in DOMAIN cpu /\ Pops[k] \notin {"rip", "rsp"}
      BY Zenon, <1>10, Order, GprNames DEF Registers
    <2>2. CASE Pops[k] = name
      BY Zenon, <1>8, <1>12, <2>1, <2>2
    <2>3. CASE Pops[k] # name
      <3>1. k # n + 1
        BY Zenon, <1>4, <2>3, UnwindIs
      <3>2. k <= n
        BY <1>3, <3>1
      <3> QED BY Zenon, <1>4, <1>5, <1>12, <2>1, <2>3, <3>2
    <2> QED BY Zenon, <2>2, <2>3
  <1>17. Popping(cpu, n + 1)'
    BY Zenon, <1>3, <1>4, <1>11, <1>14, <1>15, <1>16 DEF Popping
  <1>18. Context(cpu)' /\ cpu'["cs"] # UserSeg
    <2>1. KernelCode # UserSeg
      BY DEF KernelCode, UserSeg
    <2> QED BY Zenon, <1>3, <1>4, <1>6, <1>14, <1>17, <2>1 DEF Context
  <1> QED BY Zenon, <1>1, <1>2, <1>9, <1>13, <1>18, MoveKeeps

LEMMA SysretRestores ==
  ASSUME EntryInv, booted = Steps, Sysret
  PROVE  /\ cpu' \in Cpus
         /\ cpu'["cs"] = UserSeg /\ cpu'["ss"] = UserData
         /\ InServer(called)
         /\ \A r \in Registers \ {"rcx", "r11", "rdx"} : cpu'[r] = called[r]
  <1>1. /\ cpu \in Cpus /\ Context(cpu) /\ cpu["rip"] = Popped(18)
    BY Zenon, UnwindIs DEF EntryInv, Sysret, Running
  <1>2. PICK c, e, u, a, b : /\ c = cpu /\ e = cpu["error"] /\ u = cpu["user_stack"]
                             /\ a = cpu["rcx"] /\ b = cpu["r11"]
    BY Zenon
  <1>3. cpu' = [c EXCEPT !["rdx"] = e, !["rsp"] = u, !["rip"] = a, !["rflags"] = b,
                         !["cs"] = UserSeg, !["ss"] = UserData]
    BY Zenon, <1>2 DEF Sysret
  <1>4. /\ InServer(called) /\ u = called["rsp"]
        /\ \A k \in 1 .. 15 : c[Pops[k]] = AtCall(Pops[k])
    <2>1. 18 \in 0 .. 18 /\ \A k \in 1 .. 15 : k <= 18
      OBVIOUS
    <2>2. Popping(c, 18)
      BY Zenon, <1>1, <1>2, <2>1, Whereabouts
    <2> QED BY Zenon, <1>2, <2>1, <2>2 DEF Popping, InSyscall
  <1>5. \A r \in Gprs : c[r] = AtCall(r)
    <2> TAKE r \in Gprs
    <2>1. PICK k \in 1 .. 15 : Pops[k] = r
      BY Zenon, Order
    <2> QED BY Zenon, <1>4, <2>1
  <1>6. a = called["rip"] /\ b = called["rflags"]
    BY Zenon, <1>2, <1>5, GprsAre, "r11" # "rcx" DEF AtCall
  <1>7. DOMAIN c = Registers \cup {"user_stack", "error"} /\ \A r \in DOMAIN c : c[r] \in Int
    BY <1>1, <1>2 DEF Cpus
  <1>8. \A r \in DOMAIN c :
          cpu'[r] = IF r = "rdx" THEN e ELSE IF r = "rsp" THEN u ELSE IF r = "rip" THEN a
                    ELSE IF r = "rflags" THEN b ELSE IF r = "cs" THEN UserSeg
                    ELSE IF r = "ss" THEN UserData ELSE c[r]
    BY <1>3
  <1>9. cpu' \in Cpus
    <2>1. e \in Int /\ u \in Int /\ a \in Int /\ b \in Int
      BY Zenon, <1>2, <1>7, GprsAre DEF Registers
    <2>2. \A r \in DOMAIN c : cpu'[r] \in Int
      BY <1>7, <1>8, <2>1 DEF UserSeg, UserData
    <2>3. cpu' = [r \in DOMAIN c |-> cpu'[r]]
      BY Zenon, <1>3
    <2> QED BY Zenon, <1>7, <2>2, <2>3 DEF Cpus
  <1>10. cpu'["cs"] = UserSeg /\ cpu'["ss"] = UserData
    BY Zenon, <1>7, <1>8 DEF Registers
  <1>11. ASSUME NEW r \in Registers \ {"rcx", "r11", "rdx"}
         PROVE  cpu'[r] = called[r]
    <2>1. r \in DOMAIN c
      BY Zenon, <1>7
    <2>2. CASE r \in Gprs
      <3>1. r \notin {"rsp", "rip", "rflags", "cs", "ss"}
        BY Zenon, <2>2, GprNames
      <3>2. cpu'[r] = c[r]
        BY Zenon, <1>8, <2>1, <3>1
      <3> QED BY Zenon, <1>5, <2>2, <3>2 DEF AtCall
    <2>3. CASE r \notin Gprs
      <3>1. r \in {"rip", "cs", "rflags", "rsp", "ss"}
        BY Zenon, <2>3 DEF Registers
      <3>2. called["cs"] = UserSeg /\ called["ss"] = UserData
        BY Zenon, <1>4 DEF InServer
      <3> QED BY <1>4, <1>6, <1>8, <2>1, <3>1, <3>2
    <2> QED BY Zenon, <2>2, <2>3
  <1> QED BY Zenon, <1>4, <1>9, <1>10, <1>11

LEMMA SysretKeeps ==
  ASSUME EntryInv, booted = Steps, Sysret, UNCHANGED routing
  PROVE  EntryInv'
  <1>1. /\ state = "running" /\ vector = -1 /\ stack' = <<>> /\ called' = BootCpu
        /\ UNCHANGED <<core, booted, gdt, tr, idt, star, gs, state, vector, interrupted>>
    BY Zenon DEF Sysret, Running
  <1>2. /\ cpu' \in Cpus /\ InServer(called)
        /\ \A r \in Registers \ {"rcx", "r11", "rdx"} : cpu'[r] = called[r]
    BY Zenon, SysretRestores
  <1>3. {"rip", "cs", "ss", "rflags"} \subseteq Registers \ {"rcx", "r11", "rdx"}
    BY DEF Registers
  <1>4. InServer(cpu)'
    BY Zenon, <1>2, <1>3 DEF InServer
  <1>5. cpu'["rip"] # Popped(18)
    BY <1>4 DEF InServer, UserCode, Popped
  <1>6. <<>> \in Seq(Int)
    OBVIOUS
  <1> QED BY Zenon, <1>1, <1>2, <1>4, <1>5, <1>6, BootTypes, MoveKeeps DEF Context

-----------------------------------------------------------------------------
\* isr_handler_main.
LEMMA HandlingIs ==
  ASSUME EntryInv, NEW n, Handling(n)
  PROVE  /\ state = "running" /\ vector # -1 /\ vector = n /\ booted = Steps /\ Entered
         /\ n \notin {17, 21, 29, 30} => Regular
  <1>1. state = "running" /\ vector # -1 /\ Field("isr_number") = n
    BY Zenon DEF Handling
  <1>2. booted = Steps
    <2>1. ~(booted < Steps)
      BY Zenon, <1>1 DEF EntryInv
    <2>2. SetUp
      BY Zenon DEF EntryInv
    <2> QED BY <2>1, <2>2 DEF SetUp, Steps
  <1>3. Entered
    BY Zenon, <1>1, <1>2 DEF EntryInv
  <1> QED BY Zenon, <1>1, <1>2, <1>3, FieldsRight DEF Regular

LEMMA LostKeeps ==
  ASSUME EntryInv, booted = Steps, ~gs, state' = "lost", UNCHANGED routing,
         UNCHANGED <<core, booted, cpu, stack, gdt, tr, idt, star, gs, vector, interrupted, called>>
  PROVE  EntryInv'
  <1>1. SetUp /\ Ready
    BY Zenon, ReadyAtEnd DEF EntryInv
  <1>2. SetUp' /\ Steps' = Steps /\ BootListed' = BootListed
    BY Zenon, <1>1, SetUpStays
  <1>3. ~(booted < Steps) /\ "lost" # "running"
    BY DEF Steps
  <1> QED BY Zenon, <1>1, <1>2, <1>3 DEF EntryInv, Ready

LEMMA HandlerMainKeeps ==
  ASSUME EntryInv, Halt \/ Return \/ RescheduleNothing \/ Switch, UNCHANGED routing
  PROVE  EntryInv'
  <1>1. CASE Halt
    <2>1. /\ state' = "halted"
          /\ UNCHANGED <<core, booted, cpu, stack, gdt, tr, idt, star, gs, vector, interrupted,
                         called>>
      BY Zenon, <1>1 DEF Halt
    <2>2. SetUp' /\ Steps' = Steps /\ BootListed' = BootListed
      BY Zenon, <2>1, SetUpStays DEF EntryInv
    <2>3. "halted" # "running" /\ "halted" # "lost"
      OBVIOUS
    <2> QED BY Zenon, <2>1, <2>2, <2>3 DEF EntryInv
  <1>2. CASE Return
    <2>1. PICK n \in {14} \cup 33 .. 255 : Handling(n)
      BY Zenon, <1>2 DEF Return
    <2>2. n \notin {17, 21, 29, 30}
      OBVIOUS
    <2>3. state = "running" /\ vector # -1 /\ booted = Steps /\ Regular
      BY Zenon, <2>1, <2>2, HandlingIs
    <2> QED BY Zenon, <1>2, <2>3, ResumeKeeps DEF Return
  <1>3. ASSUME Handling(32)
        PROVE  state = "running" /\ vector # -1 /\ booted = Steps /\ Regular
    <2>1. 32 \notin {17, 21, 29, 30}
      OBVIOUS
    <2> QED BY Zenon, <1>3, <2>1, HandlingIs
  <1>4. CASE RescheduleNothing
    <2>1. Handling(32) /\ WithLocal(Frame)
      BY Zenon, <1>4 DEF RescheduleNothing
    <2>2. Resume(Frame) => EntryInv'
      BY Zenon, <1>3, <2>1, ResumeKeeps
    <2>3. CASE gs
      BY Zenon, <2>1, <2>2, <2>3 DEF WithLocal
    <2>4. CASE ~gs
      BY Zenon, <1>3, <2>1, <2>4, LostKeeps DEF WithLocal
    <2> QED BY Zenon, <2>3, <2>4
  <1>5. CASE Switch
    <2>1. Handling(32) /\ WithLocal(IF current THEN Frame ELSE Initial)
      BY Zenon, <1>5 DEF Switch
    <2>2. Resume(IF current THEN Frame ELSE Initial) => EntryInv'
      BY Zenon, <1>3, <2>1, ResumeKeeps, ResumeStarts
    <2>3. CASE gs
      BY Zenon, <2>1, <2>2, <2>3 DEF WithLocal
    <2>4. CASE ~gs
      BY Zenon, <1>3, <2>1, <2>4, LostKeeps DEF WithLocal
    <2> QED BY Zenon, <2>3, <2>4
  <1> QED BY Zenon, <1>1, <1>2, <1>4, <1>5

\* Outside its boot code, and wherever it can be interrupted, the core is set up.
LEMMA BootedIf ==
  ASSUME EntryInv, cpu["rip"] # Boot \/ cpu["rflags"] = IF_
  PROVE  booted = Steps
  <1>1. BootCpu["rip"] = Boot /\ BootCpu["rflags"] # IF_
    BY DEF BootCpu, Registers, IF_
  <1>2. ~(booted < Steps) /\ SetUp
    BY Zenon, <1>1 DEF EntryInv
  <1> QED BY <1>2 DEF SetUp, Steps

LEMMA NotBoot ==
  UserCode # Boot /\ \A n \in Nat : Pushed(n) # Boot /\ Popped(n) # Boot
  BY DEF UserCode, Boot, Pushed, Popped

\* The vectors that arrive.
LEMMA VectorsNat ==
  ASSUME Quiet
  PROVE  Firing \subseteq Nat /\ Exceptions \subseteq Nat
  <1>1. Firing \subseteq {32, 39, 255}
    BY DEF Quiet, Firing
  <1> QED BY <1>1 DEF Exceptions

LEMMA IdleSteps ==
  ASSUME EntryInv, UNCHANGED traps, firmware' = firmware, step' = step
  PROVE  EntryInv'
  <1>1. UNCHANGED <<core, booted, cpu, stack, gdt, tr, idt, star, gs, state, vector, interrupted,
                    called>>
    BY Zenon DEF traps
  <1>2. BootListed' = BootListed
    BY ZenonT(60) DEF BootListed, Present, madt
  <1>3. SetUp' /\ Steps' = Steps
    BY <1>1, <1>2 DEF EntryInv, SetUp, FullGdt, Steps
  <1>4. Context(cpu) => Context(cpu)'
    <2>1. PICK c : c = cpu
      BY Zenon
    <2>2. Context(c) => Context(c)'
      <3> SUFFICES ASSUME Context(c) PROVE Context(c)'
        BY Zenon
      <3>1. c["cs"] = KernelCode =>
              c["rsp"] <= Len(stack') /\ \A k \in 1 .. c["rsp"] : stack'[k] = stack[k]
        BY <1>1, ContextFields DEF EntryInv, UserSeg, KernelCode
      <3> QED BY Zenon, <1>1, <3>1, ContextStays
    <2> QED BY Zenon, <1>1, <2>1, <2>2
  <1>5. Context(interrupted) => Context(interrupted)'
    <2>1. PICK c : c = interrupted
      BY Zenon
    <2>2. Context(c) => Context(c)'
      <3> SUFFICES ASSUME Context(c) PROVE Context(c)'
        BY Zenon
      <3>1. c["cs"] = KernelCode =>
              c["rsp"] <= Len(stack') /\ \A k \in 1 .. c["rsp"] : stack'[k] = stack[k]
        BY <1>1, ContextFields DEF EntryInv, UserSeg, KernelCode
      <3> QED BY Zenon, <1>1, <3>1, ContextStays
    <2> QED BY Zenon, <1>1, <2>1, <2>2
  <1>6. Entered => Entered'
    BY Zenon, <1>1 DEF Entered, Regular, Saved, Layout, Pops
  <1> QED BY Zenon, <1>1, <1>2, <1>3, <1>4, <1>5, <1>6 DEF EntryInv

LEMMA EntryStep == EntryInv /\ Quiet /\ FoundIfListed /\ [Next]_vars => EntryInv'
  <1> SUFFICES ASSUME EntryInv, Quiet, FoundIfListed, [Next]_vars PROVE EntryInv'
    BY Zenon
  <1>1. CASE Fadt \/ Apic \/ Gs
    BY Zenon, <1>1, BootKeeps
  <1>2. CASE HpetTick /\ UNCHANGED traps
    BY Zenon, <1>2, IdleSteps DEF HpetTick
  <1>3. CASE Interrupt
    BY Zenon, <1>3, BootedIf, VectorsNat, DeliverEnters DEF Interrupt
  <1>4. CASE Exception \/ Yield
    <2>1. Len(Words) \in Nat /\ 14 \in Nat /\ 32 \in Nat
      BY WordsParts
    <2>2. PICK v \in Nat : Deliver(v)
      BY Zenon, <1>4, <2>1, VectorsNat DEF Exception, Yield
    <2>3. cpu["rip"] = UserCode \/ cpu["rip"] = Pushed(Len(Words))
      BY Zenon, <1>4 DEF Exception, Yield, Running
    <2>4. booted = Steps
      BY Zenon, <2>1, <2>3, NotBoot, BootedIf
    <2> QED BY ZenonT(60), <1>4, <2>2, <2>4, DeliverEnters DEF Exception, Yield
  <1>5. CASE TrapsStep /\ UNCHANGED routing
    <2>1. CASE SystemInit \/ GdtInit \/ IdtInit \/ Sti
      BY Zenon, <1>5, <2>1, BootKeeps
    <2>2. CASE Halt \/ Return \/ RescheduleNothing \/ Switch
      BY Zenon, <1>5, <2>2, HandlerMainKeeps
    <2>3. CASE Compute \/ Syscall
      BY Zenon, <1>5, <2>3, NotBoot, BootedIf, ComputeKeeps, SyscallKeeps
      DEF Compute, Syscall, Running
    <2>4. CASE PushWord
      <3>0. \A n \in 0 .. Len(Words) - 1 : n \in Nat
        BY WordsParts
      <3>1. PICK n \in Nat : cpu["rip"] = Pushed(n)
        BY Zenon, <2>4, <3>0 DEF PushWord, Running
      <3> QED BY Zenon, <1>5, <2>4, <3>1, NotBoot, BootedIf, PushKeeps
    <2>5. CASE SyscallHandler
      <3>1. Len(Words) \in Nat
        BY WordsParts
      <3> QED BY Zenon, <1>5, <2>5, <3>1, NotBoot, BootedIf, HandlerKeeps
        DEF SyscallHandler, Running
    <2>6. CASE PopWord
      <3>0. \A n \in 0 .. Len(Unwind) - 1 : n \in Nat
        BY UnwindIs
      <3>1. PICK n \in Nat : cpu["rip"] = Popped(n)
        BY Zenon, <2>6, <3>0 DEF PopWord, Running
      <3> QED BY Zenon, <1>5, <2>6, <3>1, NotBoot, BootedIf, PopKeeps
    <2>7. CASE Sysret
      <3>1. Len(Unwind) \in Nat
        BY UnwindIs
      <3> QED BY Zenon, <1>5, <2>7, <3>1, NotBoot, BootedIf, SysretKeeps DEF Sysret, Running
    <2> QED BY Zenon, <1>5, <2>1, <2>2, <2>3, <2>4, <2>5, <2>6, <2>7 DEF TrapsStep
  <1>6. CASE UNCHANGED vars
    BY Zenon, <1>6, IdleSteps DEF vars, routing
  <1> QED BY Zenon, <1>1, <1>2, <1>3, <1>4, <1>5, <1>6 DEF Next

LEMMA EntryInit == Init => EntryInv
  <1> SUFFICES ASSUME Init PROVE EntryInv
    BY Zenon
  <1>1. /\ core \in {"bsp", "ap"} /\ booted = 0 /\ cpu = BootCpu /\ interrupted = BootCpu
        /\ called = BootCpu /\ stack = <<>> /\ state = "running" /\ vector = -1
    BY Zenon DEF Init, TrapsInit
  <1>2. SetUp /\ booted < Steps /\ booted # Steps
    BY <1>1 DEF SetUp, Steps
  <1>3. BootCpu["rip"] # Popped(18)
    BY DEF BootCpu, Registers, Boot, Popped
  <1>4. stack \in Seq(Int) /\ -1 \in Int
    BY <1>1
  <1> QED BY Zenon, <1>1, <1>2, <1>3, <1>4, BootTypes DEF EntryInv

LEMMA EntrySoundIf == EntryInv => EntrySound
  <1> SUFFICES ASSUME EntryInv PROVE EntrySound
    BY Zenon
  <1>1. ASSUME state = "running", vector # -1
        PROVE  Entered
    <2>1. ~(booted < Steps) /\ SetUp
      BY Zenon, <1>1 DEF EntryInv
    <2>2. booted = Steps
      BY <2>1 DEF SetUp, Steps
    <2> QED BY Zenon, <1>1, <2>2 DEF EntryInv
  <1>2. vector \notin HasError \ {8, 10, 11, 12, 13, 14} => Regular
    BY DEF HasError, Regular
  <1> QED BY Zenon, <1>1, <1>2, FieldsRight DEF EntrySound, EntryInv

\* Only isr_handler_main ends the handling of an interrupt.
LEMMA ResumesOnly ==
  ASSUME EntryInv, Next, vector # -1, vector' = -1, current' => current
  PROVE  cpu' = interrupted
  <1>1. PICK n : Handling(n) /\ n \notin {17, 21, 29, 30} /\ Resume(Frame) /\ UNCHANGED routing
    <2>1. CASE Fadt \/ Apic \/ Gs \/ (HpetTick /\ UNCHANGED traps)
      BY Zenon, <2>1 DEF Fadt, Apic, Gs, SetGs, traps
    <2>2. CASE Interrupt \/ Exception \/ Yield
      BY Zenon, <2>2 DEF Interrupt, Exception, Yield, Deliver
    <2>3. CASE TrapsStep /\ UNCHANGED routing
      <3>1. CASE SystemInit \/ GdtInit \/ IdtInit \/ Sti \/ Halt
        BY Zenon, <3>1 DEF SystemInit, GdtInit, IdtInit, Sti, Halt
      <3>2. CASE Compute \/ Syscall \/ PushWord \/ SyscallHandler \/ PopWord \/ Sysret
        BY Zenon, <3>2 DEF Compute, Syscall, PushWord, SyscallHandler, PopWord, Sysret, Running
      <3>3. CASE Return
        <4>1. \A n \in {14} \cup 33 .. 255 : n \notin {17, 21, 29, 30}
          OBVIOUS
        <4> QED BY Zenon, <2>3, <3>3, <4>1 DEF Return
      <3>4. CASE RescheduleNothing \/ Switch
        <4>1. 32 \notin {17, 21, 29, 30}
          OBVIOUS
        <4>2. Handling(32)
          BY Zenon, <3>4 DEF RescheduleNothing, Switch
        <4>3. WithLocal(Frame)
          BY Zenon, <3>4 DEF RescheduleNothing, Switch
        <4>4. Resume(Frame)
          BY Zenon, <4>3 DEF WithLocal
        <4> QED BY Zenon, <2>3, <4>1, <4>2, <4>4
      <3> QED BY Zenon, <2>3, <3>1, <3>2, <3>3, <3>4 DEF TrapsStep
    <2> QED BY Zenon, <2>1, <2>2, <2>3 DEF Next
  <1> QED BY Zenon, <1>1, HandlingIs, ResumeKeeps

\* Only sysret leaves the end of syscall_main for the server.
LEMMA SysretOnly ==
  ASSUME EntryInv, Next, cpu["rip"] = Popped(18), cpu'["cs"] = UserSeg
  PROVE  Sysret
  <1>1. cpu["cs"] # UserSeg
    BY Zenon DEF EntryInv
  <1>2. cpu' # cpu
    BY Zenon, <1>1
  <1>3. /\ Popped(18) # UserCode /\ \A n \in 0 .. 24 : Popped(18) # Pushed(n)
        /\ \A n \in 0 .. 17 : Popped(18) # Popped(n)
        /\ Popped(18) # IsrHandler /\ Popped(18) # Boot
    BY DEF Popped, Pushed, UserCode, IsrHandler, Boot
  <1>4. booted = Steps
    BY Zenon, <1>3, BootedIf
  <1>5. ~Fadt /\ ~Apic /\ ~Gs /\ ~(HpetTick /\ UNCHANGED traps)
    BY Zenon, <1>2 DEF Fadt, Apic, Gs, SetGs, traps
  <1>6. ~Interrupt /\ ~Exception /\ ~Yield
    <2> SUFFICES ASSUME NEW v, Deliver(v) PROVE FALSE
      BY Zenon DEF Interrupt, Exception, Yield
    <2>1. cpu' = [cpu EXCEPT !["rip"] = IsrHandler, !["cs"] = KernelCode,
                             !["ss"] = IF User THEN 0 ELSE cpu["ss"],
                             !["rflags"] = 0, !["rsp"] = cpu'["rsp"]]
      <3>1. PICK l : cpu' = [cpu EXCEPT !["rip"] = IsrHandler, !["cs"] = KernelCode,
                                        !["ss"] = IF User THEN 0 ELSE cpu["ss"],
                                        !["rflags"] = 0, !["rsp"] = l]
        BY Zenon, <1>2 DEF Deliver
      <3> QED BY Zenon, <3>1 DEF EntryInv, Cpus, Registers
    <2>2. DOMAIN cpu = Registers \cup {"user_stack", "error"}
      BY Zenon DEF EntryInv, Cpus
    <2>3. cpu'["cs"] = KernelCode
      BY <2>1, <2>2 DEF Registers
    <2> QED BY <2>3 DEF KernelCode, UserSeg
  <1>7. ~SystemInit /\ ~GdtInit /\ ~IdtInit /\ ~Sti
    <2>1. \A name : ~AtStep(name)
      <3>1. SetUp /\ ~(booted < Steps)
        BY <1>4 DEF EntryInv, Steps
      <3> QED BY Zenon, <3>1, AtSteps
    <2> QED BY Zenon, <2>1 DEF SystemInit, GdtInit, IdtInit, Sti
  <1>8. ~Halt /\ ~Return /\ ~RescheduleNothing /\ ~Switch
    <2> SUFFICES ASSUME NEW n, Handling(n) PROVE FALSE
      BY Zenon DEF Halt, Return, RescheduleNothing, Switch
    <2> QED BY Zenon, <1>3, HandlingIs DEF Entered
  <1>9. ~Compute /\ ~Syscall
    BY Zenon, <1>3 DEF Compute, Syscall, Running
  <1>10. ~PushWord /\ ~SyscallHandler
    <2>1. Len(Words) \in 0 .. 24 /\ \A n \in 0 .. Len(Words) - 1 : n \in 0 .. 24
      BY WordsParts
    <2> QED BY Zenon, <1>3, <2>1 DEF PushWord, SyscallHandler, Running
  <1>11. ~PopWord
    <2>1. 0 .. Len(Unwind) - 1 = 0 .. 17
      BY UnwindIs
    <2> QED BY Zenon, <1>3, <2>1 DEF PopWord, Running
  <1> QED BY Zenon, <1>5, <1>6, <1>7, <1>8, <1>9, <1>10, <1>11 DEF Next, TrapsStep
=============================================================================
