---------------------------- MODULE PortalProofs ----------------------------
(***************************************************************************)
(* Proofs about Portal: the search finds the portal of an address for any  *)
(* tree of portals that are apart; a share point exists before anybody has *)
(* joined it; and an orderly server has the memory that it asked for, with *)
(* at most one page fault for each access.                                 *)
(***************************************************************************)
EXTENDS Portal, TLAPS

LEMMA RequestFields ==
  ASSUME NEW r \in Request
  PROVE  r.base \in Nat /\ r.limit \in Nat /\ r.name \in Names /\ r.write \in BOOLEAN
BY Zenon DEF Request

(***************************************************************************)
(* portal_fault_anon finds the portal that covers an address, in whatever  *)
(* order the portals were inserted, if all portals of the tree are apart.  *)
(***************************************************************************)
THEOREM SearchFinds ==
  ASSUME NEW tree \in Seq(Request), NEW i \in DOMAIN tree, NEW a \in Nat,
         Covers(tree[i], a),
         \A j, k \in DOMAIN tree : j # k => Apart(tree[j], tree[k])
  PROVE  Resolves(tree, i, a)
<1>1. \A j \in DOMAIN tree : tree[j] \in Request /\ tree[j].base \in Nat /\ tree[j].limit \in Nat
  BY RequestFields
<1>2. i \in 1 .. Len(tree) /\ DOMAIN tree = 1 .. Len(tree) /\ Len(tree) \in Nat
  OBVIOUS
<1>3. \A j \in 1 .. (i - 1) : j \in DOMAIN tree /\ j # i
  BY <1>2
<1>4. tree[i].base <= a /\ a < tree[i].base + tree[i].limit /\ "anon" \in tree[i].type
  BY Zenon DEF Covers
<1>5. ASSUME NEW j \in 1 .. (i - 1)
      PROVE  /\ (tree[j].base > a) <=> (tree[j].base > tree[i].base)
             /\ ~Claims(tree[j], a)
  <2>1. Apart(tree[j], tree[i])
    BY Zenon, <1>3
  <2>. QED  BY SMTT(30), <2>1, <1>1, <1>3, <1>4 DEF Apart, Claims
<1>6. OnPath(tree, i, a)
  BY Zenon, <1>5 DEF OnPath
<1>7. Claims(tree[i], a)
  BY <1>1, <1>4 DEF Claims
<1>. QED  BY Zenon, <1>5, <1>6, <1>7 DEF Resolves

-----------------------------------------------------------------------------
(* A share point exists before anybody has joined it.                      *)

Labels == {"run", "search", "push", "insert", "link", "access", "halt"}

Entry == [frame : Int, rw : BOOLEAN]

\* The part of the type invariant that concerns the calls.
CallTypes ==
  /\ todo \in [Spaces -> SUBSET Request]
  /\ portals \in [Spaces -> Seq(Request)]
  /\ points \in [Names -> Seq(Nat)]
  /\ pc \in [Spaces -> Labels]
  /\ req \in [Spaces -> Request \cup {NoReq}]
  /\ \A s \in Spaces : pc[s] \in {"search", "push", "insert", "link"} => req[s] \in Request

\* Past portal_handle_share, the share point of the request exists.
Found ==
  \A s \in Spaces :
    pc[s] \in {"insert", "link"} /\ "share" \in req[s].type => points[req[s].name] # <<>>

JoinInv == CallTypes /\ Found /\ JoinAfterCreate

LEMMA AppendFacts ==
  ASSUME NEW S, NEW q \in Seq(S), NEW e \in S
  PROVE  /\ Append(q, e) \in Seq(S)
         /\ Append(q, e) # <<>>
         /\ DOMAIN Append(q, e) = DOMAIN q \cup {Len(q) + 1}
         /\ \A i \in DOMAIN q : Append(q, e)[i] = q[i]
         /\ Append(q, e)[Len(q) + 1] = e
OBVIOUS

LEMMA AppendNat ==
  ASSUME NEW q \in Seq(Nat), NEW e \in Nat
  PROVE  Append(q, e) \in Seq(Nat) /\ Append(q, e) # <<>>
<1>1. Append(q, e) \in Seq(Nat)
  OBVIOUS
<1>2. Append(q, e) # <<>>
  OBVIOUS
<1>. QED  BY Zenon, <1>1, <1>2

LEMMA JoinInit == Init => JoinInv
<1>. SUFFICES ASSUME Init PROVE JoinInv
  BY Zenon
<1>1. CallTypes
  BY PortalAssumption DEF Init, CallTypes, Labels
<1>. QED  BY <1>1 DEF Init, JoinInv, Found, JoinAfterCreate

\* Steps that leave the trees and the share points alone.
LEMMA JoinQuiet ==
  ASSUME JoinInv, NEW s \in Spaces, NEW l \in Labels, NEW r \in Request \cup {NoReq},
         pc' = [pc EXCEPT ![s] = l], req' = [req EXCEPT ![s] = r],
         todo' \in [Spaces -> SUBSET Request],
         UNCHANGED <<portals, points>>,
         l \in {"search", "push", "insert", "link"} => r \in Request,
         l \in {"insert", "link"} /\ "share" \in r.type => points[r.name] # <<>>
  PROVE  JoinInv'
<1>1. /\ \A t \in Spaces : pc'[t] = IF t = s THEN l ELSE pc[t]
      /\ \A t \in Spaces : req'[t] = IF t = s THEN r ELSE req[t]
      /\ pc' \in [Spaces -> Labels] /\ req' \in [Spaces -> Request \cup {NoReq}]
  BY Zenon DEF JoinInv, CallTypes
<1>2. CallTypes'
  BY Zenon, <1>1 DEF JoinInv, CallTypes
<1>3. Found'
  BY Zenon, <1>1 DEF JoinInv, Found
<1>4. JoinAfterCreate'
  BY Zenon DEF JoinInv, JoinAfterCreate
<1>. QED  BY Zenon, <1>2, <1>3, <1>4 DEF JoinInv

LEMMA JoinPush ==
  ASSUME JoinInv, NEW s \in Spaces, Push(s)
  PROVE  JoinInv'
<1>1. /\ pc[s] = "push" /\ req[s] \in Request
      /\ UNCHANGED <<todo, portals, req>>
      /\ pc' \in [Spaces -> Labels]
      /\ \A t \in Spaces : t # s => pc'[t] = pc[t]
  BY Zenon DEF JoinInv, CallTypes, Push, Goto, Labels
<1>2. req[s].name \in Names /\ req[s].limit \in Nat
  BY Zenon, <1>1, RequestFields
<1>3. /\ points' \in [Names -> Seq(Nat)]
      /\ points'[req[s].name] # <<>>
      /\ \A n \in Names : points[n] # <<>> => points'[n] # <<>>
  <2>1. points' = [points EXCEPT ![req[s].name] = Append(@, req[s].limit)]
    BY Zenon DEF Push
  <2>2. points[req[s].name] \in Seq(Nat)
    BY Zenon, <1>2 DEF JoinInv, CallTypes
  <2>3. /\ Append(points[req[s].name], req[s].limit) \in Seq(Nat)
        /\ Append(points[req[s].name], req[s].limit) # <<>>
    <3>1. \A q \in Seq(Nat), e \in Nat : Append(q, e) \in Seq(Nat) /\ Append(q, e) # <<>>
      BY Zenon, AppendNat
    <3>. QED  BY <1>2, <2>2, <3>1, Zenon
  <2>. QED  BY Zenon, <1>2, <2>1, <2>3 DEF JoinInv, CallTypes
<1>4. CallTypes'
  <2>1. \A t \in Spaces : pc'[t] \in {"search", "push", "insert", "link"} => req'[t] \in Request
    BY Zenon, <1>1 DEF JoinInv, CallTypes
  <2>. QED  BY Zenon, <1>1, <1>3, <2>1 DEF JoinInv, CallTypes
<1>5. Found'
  <2>1. \A t \in Spaces : pc[t] \in {"insert", "link"} => req[t].name \in Names
    BY Zenon, RequestFields DEF JoinInv, CallTypes
  <2>. QED  BY Zenon, <1>1, <1>3, <2>1 DEF JoinInv, Found
<1>6. JoinAfterCreate'
  <2>1. \A t \in Spaces : \A i \in DOMAIN portals[t] : portals[t][i].name \in Names
    BY RequestFields DEF JoinInv, CallTypes
  <2>. QED  BY Zenon, <1>1, <1>3, <2>1 DEF JoinInv, JoinAfterCreate
<1>. QED  BY Zenon, <1>4, <1>5, <1>6 DEF JoinInv

LEMMA JoinInsert ==
  ASSUME JoinInv, NEW s \in Spaces, Insert(s)
  PROVE  JoinInv'
<1>1. /\ pc[s] = "insert" /\ req[s] \in Request
      /\ UNCHANGED <<todo, points, req>>
      /\ pc' \in [Spaces -> Labels]
      /\ \A t \in Spaces : pc'[t] = IF t = s THEN "run" ELSE pc[t]
      /\ portals' = [portals EXCEPT ![s] = Append(portals[s], req[s])]
      /\ portals[s] \in Seq(Request)
  BY Zenon DEF JoinInv, CallTypes, Insert, Goto, Labels
<1>2. /\ Append(portals[s], req[s]) \in Seq(Request)
      /\ \A i \in DOMAIN Append(portals[s], req[s]) :
           \/ i \in DOMAIN portals[s] /\ Append(portals[s], req[s])[i] = portals[s][i]
           \/ Append(portals[s], req[s])[i] = req[s]
  BY <1>1, AppendFacts
<1>3. CallTypes'
  BY Zenon, <1>1, <1>2 DEF JoinInv, CallTypes
<1>4. Found'
  BY Zenon, <1>1 DEF JoinInv, Found
<1>5. JoinAfterCreate'
  <2>1. \A t \in Spaces : portals'[t] = IF t = s THEN Append(portals[s], req[s]) ELSE portals[t]
    BY Zenon, <1>1 DEF JoinInv, CallTypes
  <2>. QED  BY <1>1, <1>2, <2>1 DEF JoinInv, Found, JoinAfterCreate
<1>. QED  BY Zenon, <1>3, <1>4, <1>5 DEF JoinInv

\* No step of any space breaks the invariant.
LEMMA JoinStep == JoinInv /\ [Next]_vars => JoinInv'
<1>. SUFFICES ASSUME JoinInv, [Next]_vars PROVE JoinInv'
  BY Zenon
<1>1. ASSUME NEW s \in Spaces, NEW r \in todo[s], Call(s, r)
      PROVE  JoinInv'
  <2>1. r \in Request
    BY Zenon, <1>1 DEF JoinInv, CallTypes
  <2>2. todo' \in [Spaces -> SUBSET Request]
    BY Zenon, <1>1 DEF Call, JoinInv, CallTypes
  <2>3. CASE "share" \in r.type
    BY ZenonT(60), <1>1, <2>1, <2>2, <2>3, JoinQuiet DEF Call, Goto, Labels
  <2>4. CASE "share" \notin r.type
    BY ZenonT(60), <1>1, <2>1, <2>2, <2>4, JoinQuiet DEF Call, Goto, Labels
  <2>. QED  BY Zenon, <2>3, <2>4
<1>2. ASSUME NEW s \in Spaces, Search(s) \/ Done(s) \/ Halt(s) \/ Fault(s)
             \/ \E a \in Pages, w \in BOOLEAN : Access(s, a, w)
      PROVE  JoinInv'
  <2>0. /\ req[s] \in Request \cup {NoReq} /\ todo \in [Spaces -> SUBSET Request]
        /\ pc[s] \in {"search", "push", "insert", "link"} => req[s] \in Request
        /\ req = [req EXCEPT ![s] = req[s]] /\ pc = [pc EXCEPT ![s] = pc[s]]
        /\ pc[s] \in Labels
        /\ pc[s] \in {"insert", "link"} /\ "share" \in req[s].type => points[req[s].name] # <<>>
    BY Zenon DEF JoinInv, CallTypes, Found
  <2>1. CASE Search(s)
    <3>1. PICK l \in {"insert", "push", "run"} :
            pc' = [pc EXCEPT ![s] = l] /\ (l = "insert" => points[req[s].name] # <<>>)
      BY ZenonT(60), <2>1 DEF Search, Goto
    <3>. QED  BY ZenonT(60), <2>0, <2>1, <3>1, JoinQuiet DEF Search, Labels
  <2>2. CASE Done(s)
    <3>1. PICK l \in {"insert", "run"} :
            pc' = [pc EXCEPT ![s] = l] /\ (l = "insert" => pc[s] = "link")
      BY ZenonT(60), <2>2 DEF Done, Goto
    <3>. QED  BY ZenonT(60), <2>0, <2>2, <3>1, JoinQuiet DEF Done, Labels
  <2>3. CASE Halt(s)
    BY ZenonT(60), <2>0, <2>3, JoinQuiet DEF Halt, Goto, Labels
  <2>4. CASE Fault(s)
    <3>1. UNCHANGED <<todo, portals, points, pc, req>>
      BY Zenon, <2>4 DEF Fault
    <3>. QED  BY Zenon, <3>1 DEF JoinInv, CallTypes, Found, JoinAfterCreate
  <2>5. CASE \E a \in Pages, w \in BOOLEAN : Access(s, a, w)
    <3>1. pc' = [pc EXCEPT ![s] = "access"] /\ UNCHANGED <<todo, portals, points, req>>
      BY Zenon, <2>5 DEF Access, Goto
    <3>. QED  BY ZenonT(60), <2>0, <3>1, JoinQuiet DEF Labels
  <2>. QED  BY Zenon, <1>2, <2>1, <2>2, <2>3, <2>4, <2>5
<1>3. ASSUME UNCHANGED vars
      PROVE  JoinInv'
  BY Zenon, <1>3 DEF vars, JoinInv, CallTypes, Found, JoinAfterCreate
<1>. QED  BY Zenon, <1>1, <1>2, <1>3, JoinPush, JoinInsert DEF Next, Step, Retry

(***************************************************************************)
(* Nobody has joined a share point that does not exist, whatever spaces,   *)
(* requests and interleavings of portal() on several cores.                *)
(***************************************************************************)
THEOREM JoinSafe == Spec => []JoinAfterCreate
<1>1. JoinInv => JoinAfterCreate
  BY Zenon DEF JoinInv
<1>. QED  BY JoinInit, JoinStep, <1>1, PTL DEF Spec

-----------------------------------------------------------------------------
(* Orderly servers, next to servers that do anything.                      *)

Table == table \in [Spaces -> [Pages -> Entry]]

Counters == used \in Nat /\ acc \in [Spaces -> [page : Int, write : BOOLEAN]]

\* A call in progress is for a request of its space.
Asked ==
  \A s \in Spaces :
    /\ todo[s] \subseteq Requests[s]
    /\ pc[s] \in {"search", "push", "insert", "link"} => req[s] \in Requests[s]
    /\ pc[s] \in {"search", "push"} => "share" \in req[s].type
    /\ pc[s] = "push" => req[s].create

\* The share point that a search finds has the length of a creating request.
Pushed ==
  \A n \in Names : points[n] # <<>> =>
    \E t \in Spaces : \E q \in Requests[t] :
      /\ "share" \in q.type /\ q.create /\ q.name = n
      /\ Head(points[n]) = q.limit

\* Every request becomes at most one portal.
Once(s) ==
  /\ \A i \in DOMAIN portals[s] : portals[s][i] \in Requests[s] \ todo[s]
  /\ \A i, j \in DOMAIN portals[s] : i # j => portals[s][i] # portals[s][j]
  /\ pc[s] \in {"search", "insert"} =>
       /\ req[s] \in Requests[s] \ todo[s]
       /\ \A i \in DOMAIN portals[s] : portals[s][i] # req[s]

\* An access in progress is covered by a portal, and so is every page that
\* is mapped.
Covered(s) ==
  /\ pc[s] = "access" =>
       acc[s].page \in Pages /\ \E i \in DOMAIN portals[s] : Covers(portals[s][i], acc[s].page)
  /\ \A a \in Pages :
       table[s][a] # NoPage => \E i \in DOMAIN portals[s] : Covers(portals[s][i], a)

Rights(s) ==
  \A i \in DOMAIN portals[s] : \A a \in Pages :
    Covers(portals[s][i], a) /\ table[s][a] # NoPage =>
      table[s][a].rw = portals[s][i].write

\* An orderly server creates no link, is not stopped, and has what it asked for.
Fit(s) ==
  /\ pc[s] \in {"run", "search", "insert", "access"}
  /\ Once(s) /\ Covered(s) /\ Rights(s)

Common == JoinInv /\ Table /\ Counters /\ Asked /\ Pushed

OrderlyInv == Common /\ \A s \in Orderly : Fit(s)

\* What an orderly server may ask for.
LEMMA OrderlyRequests ==
  ASSUME NEW s \in Orderly
  PROVE  /\ s \in Spaces /\ s # Kernel
         /\ \A r \in Requests[s] :
              /\ r \in Request
              /\ "anon" \in r.type /\ "direct" \notin r.type
              /\ "share" \in r.type => ~r.create /\ WithinBound(r)
         /\ \A r, q \in Requests[s] : r # q => Apart(r, q)
<1>1. s \in Spaces /\ s # Kernel /\ Requests[s] \subseteq Request
  BY Zenon, PortalAssumption DEF Orderly
<1>2. ASSUME NEW r \in Requests[s]
      PROVE  /\ "anon" \in r.type /\ "direct" \notin r.type
             /\ "share" \in r.type => ~r.create /\ WithinBound(r)
  <2>1. r.type = {"anon"} \/ (r.type = {"anon", "share"} /\ ~r.create /\ WithinBound(r))
    BY Zenon DEF Orderly
  <2>. QED  BY <2>1
<1>3. \A r, q \in Requests[s] : r # q => Apart(r, q)
  BY Zenon DEF Orderly
<1>. QED  BY Zenon, <1>1, <1>2, <1>3

\* What the invariant says of one tree.
LEMMA OrderlyTree ==
  ASSUME Common, NEW s \in Orderly, Fit(s)
  PROVE  /\ portals[s] \in Seq(Request)
         /\ \A i \in DOMAIN portals[s] :
              portals[s][i] \in Requests[s] /\ portals[s][i] \in Request
         /\ \A i, j \in DOMAIN portals[s] : i # j => Apart(portals[s][i], portals[s][j])
BY Zenon, OrderlyRequests DEF Common, JoinInv, CallTypes, Fit, Once

\* Portals that are apart cover no address in common.
LEMMA ApartDisjoint ==
  ASSUME NEW p \in Request, NEW q \in Request, NEW a \in Nat, Apart(p, q), Covers(p, a)
  PROVE  ~Covers(q, a)
BY RequestFields DEF Apart, Covers

\* A portal within the bound takes every fault in it: the index that
\* portal_fault_anon compares is below the length of the link it divides.
LEMMA InBound ==
  ASSUME Common, NEW r \in Request, NEW a \in Nat, Covers(r, a),
         "share" \in r.type => points[r.name] # <<>> /\ WithinBound(r)
  PROVE  InPoint(r, a)
<1>. SUFFICES ASSUME "share" \in r.type
              PROVE  a - r.base <= Head(points[r.name]) \div Word
  BY Zenon DEF InPoint
<1>1. r.name \in Names /\ r.base \in Nat /\ r.limit \in Nat
  BY Zenon, RequestFields
<1>2. PICK t \in Spaces : \E q \in Requests[t] :
        /\ "share" \in q.type /\ q.create /\ q.name = r.name
        /\ Head(points[r.name]) = q.limit
  BY Zenon, <1>1 DEF Common, Pushed
<1>3. PICK q \in Requests[t] : /\ "share" \in q.type /\ q.create /\ q.name = r.name
                               /\ Head(points[r.name]) = q.limit
  BY Zenon, <1>2
<1>4. r.limit <= q.limit \div Word + 1
  BY Zenon, <1>3 DEF WithinBound
<1>5. q.limit \in Nat /\ Word \in Nat \ {0}
  BY Zenon, RequestFields, PortalAssumption
<1>. DEFINE d == q.limit \div Word
<1>6. d \in Nat
  BY SMTT(30), <1>5
<1>. HIDE DEF d
<1>7. a < r.base + r.limit /\ r.limit <= d + 1
  BY Zenon, <1>4 DEF Covers, d
<1>8. a - r.base <= d
  BY <1>1, <1>6, <1>7
<1>. QED  BY Zenon, <1>3, <1>8 DEF d

\* The portal that a fault in covered memory is resolved with.
LEMMA FaultOwner ==
  ASSUME Common, NEW s \in Orderly, Fit(s), pc[s] = "access"
  PROVE  \E i \in DOMAIN portals[s] :
           /\ Covers(portals[s][i], acc[s].page)
           /\ Resolved(s, i)
           /\ \A k \in DOMAIN portals[s] : Resolved(s, k) => k = i
<1>1. acc[s].page \in Nat
  BY ZenonT(60), PortalAssumption DEF Fit, Covered
<1>2. PICK i \in DOMAIN portals[s] : Covers(portals[s][i], acc[s].page)
  BY Zenon DEF Fit, Covered
<1>3. Resolves(portals[s], i, acc[s].page)
  BY Zenon, <1>1, <1>2, OrderlyTree, SearchFinds
<1>4. Resolved(s, i)
  <2>1. s \in Spaces /\ s # Kernel /\ portals[s][i] \in Request /\ portals[s][i] \in Requests[s]
    BY Zenon, OrderlyRequests, OrderlyTree
  <2>2. "share" \in portals[s][i].type =>
          points[portals[s][i].name] # <<>> /\ WithinBound(portals[s][i])
    BY Zenon, <2>1, OrderlyRequests DEF Common, JoinInv, JoinAfterCreate
  <2>3. InPoint(portals[s][i], acc[s].page)
    BY Zenon, <1>1, <1>2, <2>1, <2>2, InBound
  <2>. QED  BY Zenon, <1>3, <2>1, <2>3 DEF Resolved
<1>5. ASSUME NEW k \in DOMAIN portals[s], Resolved(s, k)
      PROVE  k = i
  <2>1. DOMAIN portals[s] = 1 .. Len(portals[s]) /\ Len(portals[s]) \in Nat
    BY OrderlyTree
  <2>2. /\ k < i => k \in 1 .. (i - 1)
        /\ i < k => i \in 1 .. (k - 1)
        /\ i = k \/ i < k \/ k < i
    BY <2>1
  <2>. QED  BY Zenon, <1>3, <1>5, <2>2 DEF Resolved, Resolves
<1>. QED  BY Zenon, <1>2, <1>4, <1>5

-----------------------------------------------------------------------------
(* The steps of an orderly server.                                         *)

LEMMA FitCall ==
  ASSUME Common, NEW s \in Orderly, Fit(s), NEW r \in todo[s], Call(s, r)
  PROVE  Fit(s)'
<1>0. s \in Spaces
  BY Zenon, OrderlyRequests
<1>1. /\ pc[s] = "run" /\ r \in Requests[s] /\ "direct" \notin r.type
      /\ UNCHANGED <<portals, acc>>
  BY Zenon, <1>0, OrderlyRequests DEF Common, Asked, Call
<1>2. pc'[s] \in {"search", "insert"} /\ req'[s] = r /\ todo'[s] = todo[s] \ {r}
  BY Zenon, <1>0 DEF Common, JoinInv, CallTypes, Call, Goto
<1>3. table'[s] = table[s]
  <2>1. table[s] \in [Pages -> Entry] /\ table'[s] = Mapped(table[s], r)
    BY Zenon, <1>0 DEF Common, Table, Call
  <2>. QED  BY Zenon, <1>1, <2>1 DEF Mapped
<1>4. Once(s)'
  BY Zenon, <1>1, <1>2 DEF Fit, Once
<1>5. Covered(s)' /\ Rights(s)'
  <2>1. pc'[s] # "access"
    BY <1>2
  <2>2. Covered(s)'
    BY ZenonT(60), <1>1, <1>3, <2>1 DEF Fit, Covered
  <2>3. Rights(s)'
    BY ZenonT(60), <1>1, <1>3 DEF Fit, Rights
  <2>. QED  BY Zenon, <2>2, <2>3
<1>. QED  BY Zenon, <1>2, <1>4, <1>5 DEF Fit

LEMMA FitSearch ==
  ASSUME Common, NEW s \in Orderly, Fit(s), Search(s)
  PROVE  Fit(s)'
<1>0. s \in Spaces
  BY Zenon, OrderlyRequests
<1>1. /\ pc[s] = "search" /\ ~req[s].create
      /\ UNCHANGED <<todo, portals, table, req, acc>>
  BY Zenon, <1>0, OrderlyRequests DEF Common, Asked, Search
<1>2. pc'[s] \in {"run", "insert"}
  BY Zenon, <1>0, <1>1 DEF Common, JoinInv, CallTypes, Search, Goto
<1>3. Once(s)' /\ Covered(s)' /\ Rights(s)'
  BY Zenon, <1>1, <1>2 DEF Fit, Once, Covered, Rights
<1>. QED  BY Zenon, <1>2, <1>3 DEF Fit

LEMMA FitInsert ==
  ASSUME Common, NEW s \in Orderly, Fit(s), Insert(s)
  PROVE  Fit(s)'
<1> DEFINE new == Append(portals[s], req[s])
<1>1. /\ s \in Spaces /\ pc[s] = "insert" /\ req[s] \in Request
      /\ req[s] \in Requests[s] \ todo[s]
      /\ \A i \in DOMAIN portals[s] : portals[s][i] # req[s]
      /\ UNCHANGED <<todo, req, table, acc>>
      /\ portals[s] \in Seq(Request)
  BY Zenon, OrderlyRequests DEF Common, JoinInv, CallTypes, Fit, Once, Insert
<1>2. pc'[s] = "run" /\ portals'[s] = new
  BY Zenon, <1>1 DEF Common, JoinInv, CallTypes, Insert, Goto
<1>3. /\ DOMAIN new = DOMAIN portals[s] \cup {Len(portals[s]) + 1}
      /\ \A i \in DOMAIN portals[s] : new[i] = portals[s][i]
      /\ new[Len(portals[s]) + 1] = req[s]
  BY <1>1, AppendFacts
<1>. HIDE DEF new
<1>4. Once(s)'
  BY <1>1, <1>2, <1>3 DEF Fit, Once
<1>5. Covered(s)'
  BY Zenon, <1>1, <1>2, <1>3 DEF Fit, Covered
<1>6. Rights(s)'
  <2>1. ASSUME NEW a \in Pages, table[s][a] # NoPage
        PROVE  ~Covers(req[s], a)
    <3>1. PICK i \in DOMAIN portals[s] : Covers(portals[s][i], a)
      BY Zenon, <2>1 DEF Fit, Covered
    <3>2. portals[s][i] \in Request /\ portals[s][i] \in Requests[s] /\ portals[s][i] # req[s]
      BY Zenon, <1>1, OrderlyTree
    <3>3. Apart(portals[s][i], req[s]) /\ a \in Nat
      BY Zenon, <1>1, <3>2, OrderlyRequests, PortalAssumption
    <3>. QED  BY Zenon, <1>1, <3>1, <3>2, <3>3, ApartDisjoint
  <2>. QED  BY Zenon, <1>1, <1>2, <1>3, <2>1 DEF Fit, Rights
<1>. QED  BY Zenon, <1>2, <1>4, <1>5, <1>6 DEF Fit

LEMMA FitAccess ==
  ASSUME Common, NEW s \in Orderly, Fit(s), NEW a \in Pages, NEW w \in BOOLEAN, Access(s, a, w)
  PROVE  Fit(s)'
<1>1. s \in Spaces /\ UNCHANGED <<todo, portals, table, req>>
      /\ \E i \in DOMAIN portals[s] : Covers(portals[s][i], a)
  BY Zenon, OrderlyRequests DEF Access
<1>2. pc'[s] = "access" /\ acc'[s] = [page |-> a, write |-> w]
  BY Zenon, <1>1 DEF Common, JoinInv, CallTypes, Counters, Access, Goto
<1>3. acc'[s].page = a
  BY <1>2
<1>4. Once(s)' /\ Covered(s)' /\ Rights(s)'
  BY Zenon, <1>1, <1>2, <1>3 DEF Fit, Once, Covered, Rights
<1>. QED  BY Zenon, <1>2, <1>4 DEF Fit

LEMMA FitDone ==
  ASSUME Common, NEW s \in Orderly, Fit(s), Done(s)
  PROVE  Fit(s)'
<1>1. s \in Spaces /\ pc[s] = "access" /\ UNCHANGED <<todo, portals, table, req>>
  BY Zenon, OrderlyRequests DEF Fit, Done
<1>2. pc'[s] = "run"
  BY Zenon, <1>1 DEF Common, JoinInv, CallTypes, Done, Goto
<1>3. Once(s)' /\ Covered(s)' /\ Rights(s)'
  BY Zenon, <1>1, <1>2 DEF Fit, Once, Covered, Rights
<1>. QED  BY Zenon, <1>2, <1>3 DEF Fit

LEMMA FitFault ==
  ASSUME Common, NEW s \in Orderly, Fit(s), Fault(s)
  PROVE  Fit(s)'
<1>0. s \in Spaces
  BY Zenon, OrderlyRequests
<1>1. pc[s] = "access" /\ UNCHANGED <<todo, portals, pc, req, acc>>
  BY Zenon DEF Fit, Fault
<1>2. PICK i \in DOMAIN portals[s] :
        /\ Resolved(s, i)
        /\ table' = [table EXCEPT ![s][acc[s].page] = FaultMap(s, portals[s][i])]
  BY ZenonT(60) DEF Fault
<1>3. Covers(portals[s][i], acc[s].page) /\ acc[s].page \in Pages
  BY Zenon, <1>1, <1>2, FaultOwner DEF Fit, Covered
<1>4. FaultMap(s, portals[s][i]).rw = portals[s][i].write
  BY DEF FaultMap
<1>5. \A a \in Pages :
        table'[s][a] = IF a = acc[s].page THEN FaultMap(s, portals[s][i]) ELSE table[s][a]
  BY Zenon, <1>0, <1>2, <1>3 DEF Common, Table
<1>6. Once(s)' /\ Covered(s)'
  BY Zenon, <1>1, <1>3, <1>5 DEF Fit, Once, Covered
<1>7. Rights(s)'
  <2>1. ASSUME NEW k \in DOMAIN portals[s], Covers(portals[s][k], acc[s].page)
        PROVE  k = i
    <3>1. k # i => Apart(portals[s][i], portals[s][k])
      BY Zenon, OrderlyTree
    <3>2. acc[s].page \in Nat /\ portals[s][i] \in Request /\ portals[s][k] \in Request
      BY Zenon, <1>3, OrderlyTree, PortalAssumption
    <3>. QED  BY Zenon, <1>3, <2>1, <3>1, <3>2, ApartDisjoint
  <2>2. ASSUME NEW k \in DOMAIN portals[s], NEW a \in Pages,
               Covers(portals[s][k], a), table'[s][a] # NoPage
        PROVE  table'[s][a].rw = portals[s][k].write
    <3>1. CASE a = acc[s].page
      BY Zenon, <1>4, <1>5, <2>1, <2>2, <3>1
    <3>2. CASE a # acc[s].page
      BY Zenon, <1>5, <2>2, <3>2 DEF Fit, Rights
    <3>. QED  BY Zenon, <3>1, <3>2
  <2>. QED  BY Zenon, <1>1, <2>2 DEF Rights
<1>. QED  BY Zenon, <1>1, <1>6, <1>7 DEF Fit

\* A step of an orderly server: it creates no link, and the fault of an access
\* that it may make is always resolved.
LEMMA FitOwn ==
  ASSUME Common, NEW s \in Orderly, Fit(s),
         \/ \E r \in todo[s] : Call(s, r)
         \/ \E a \in Pages, w \in BOOLEAN : Access(s, a, w)
         \/ Step(s)
  PROVE  Fit(s)'
<1>1. ~Push(s)
  BY Zenon DEF Fit, Push
<1>2. ~Halt(s)
  <2>. SUFFICES ASSUME Halt(s) PROVE FALSE
    BY Zenon
  <2>1. pc[s] = "access" /\ \A i \in DOMAIN portals[s] : ~Resolved(s, i)
    BY Zenon DEF Fit, Halt
  <2>. QED  BY Zenon, <2>1, FaultOwner
<1>. QED  BY Zenon, <1>1, <1>2, FitCall, FitSearch, FitInsert, FitAccess, FitDone, FitFault
          DEF Step

\* A step of another space changes nothing of a server's own.
LEMMA FitOther ==
  ASSUME Common, NEW t \in Spaces, Fit(t), NEW s \in Spaces, s # t,
         \/ \E r \in todo[s] : Call(s, r)
         \/ \E a \in Pages, w \in BOOLEAN : Access(s, a, w)
         \/ Step(s)
  PROVE  Fit(t)'
<1>1. todo'[t] = todo[t] /\ portals'[t] = portals[t] /\ req'[t] = req[t]
  BY ZenonT(60) DEF Step, Call, Access, Search, Push, Insert, Done, Fault, Halt,
                    Common, JoinInv, CallTypes
<1>2. pc'[t] = pc[t]
  BY ZenonT(60) DEF Step, Call, Access, Search, Push, Insert, Done, Fault, Halt, Goto,
                    Common, JoinInv, CallTypes
<1>3. acc'[t] = acc[t]
  BY ZenonT(60) DEF Step, Call, Access, Search, Push, Insert, Done, Fault, Halt,
                    Common, Counters
<1>4. table'[t] = table[t]
  BY ZenonT(60) DEF Step, Call, Access, Search, Push, Insert, Done, Fault, Halt,
                    Common, Table
<1>. QED  BY Zenon, <1>1, <1>2, <1>3, <1>4 DEF Fit, Once, Covered, Rights

-----------------------------------------------------------------------------
(* What holds of every space.                                              *)

LEMMA AskedStep ==
  ASSUME Common, [Next]_vars
  PROVE  Asked'
<1>1. ASSUME NEW s \in Spaces, NEW r \in todo[s], Call(s, r)
      PROVE  Asked'
  <2>1. /\ \A t \in Spaces : pc'[t] = IF t = s THEN IF "share" \in r.type THEN "search" ELSE "insert"
                                      ELSE pc[t]
        /\ \A t \in Spaces : req'[t] = IF t = s THEN r ELSE req[t]
        /\ \A t \in Spaces : todo'[t] = IF t = s THEN todo[s] \ {r} ELSE todo[t]
    BY Zenon, <1>1 DEF Common, JoinInv, CallTypes, Call, Goto
  <2>. QED  BY Zenon, <1>1, <2>1 DEF Common, Asked
<1>2. ASSUME NEW s \in Spaces, Search(s)
      PROVE  Asked'
  <2>1. /\ pc[s] = "search" /\ UNCHANGED <<todo, req>>
        /\ \A t \in Spaces : t # s => pc'[t] = pc[t]
        /\ pc'[s] \in {"insert", "run"} \/ (pc'[s] = "push" /\ req[s].create)
    BY Zenon, <1>2 DEF Common, JoinInv, CallTypes, Search, Goto
  <2>. QED  BY Zenon, <1>2, <2>1 DEF Common, Asked
<1>3. ASSUME NEW s \in Spaces, Push(s) \/ Insert(s) \/ Done(s)
      PROVE  Asked'
  <2>1. /\ pc[s] \in {"push", "insert", "link"} \/ pc'[s] = "run"
        /\ UNCHANGED <<todo, req>>
        /\ \A t \in Spaces : t # s => pc'[t] = pc[t]
        /\ pc'[s] \in {"link", "insert", "run"}
    BY Zenon, <1>3 DEF Common, JoinInv, CallTypes, Push, Insert, Done, Goto
  <2>. QED  BY Zenon, <1>3, <2>1 DEF Common, Asked
<1>4. ASSUME NEW s \in Spaces, Halt(s) \/ \E a \in Pages, w \in BOOLEAN : Access(s, a, w)
      PROVE  Asked'
  <2>1. /\ UNCHANGED <<todo, req>>
        /\ \A t \in Spaces : t # s => pc'[t] = pc[t]
        /\ pc'[s] \in {"halt", "access"}
    BY Zenon, <1>4 DEF Common, JoinInv, CallTypes, Halt, Access, Goto
  <2>. QED  BY Zenon, <1>4, <2>1 DEF Common, Asked
<1>5. ASSUME UNCHANGED <<todo, req, pc>>
      PROVE  Asked'
  BY Zenon, <1>5 DEF Common, Asked
<1>. QED  BY Zenon, <1>1, <1>2, <1>3, <1>4, <1>5 DEF Next, Step, Fault, Retry, vars

LEMMA HeadAppend ==
  ASSUME NEW q \in Seq(Nat), NEW e \in Nat
  PROVE  Head(Append(q, e)) = IF q = <<>> THEN e ELSE Head(q)
OBVIOUS

LEMMA PushedStep ==
  ASSUME Common, [Next]_vars
  PROVE  Pushed'
<1>1. ASSUME NEW s \in Spaces, Push(s)
      PROVE  Pushed'
  <2>1. /\ req[s] \in Request /\ req[s] \in Requests[s]
        /\ "share" \in req[s].type /\ req[s].create
    BY Zenon, <1>1 DEF Push, Common, JoinInv, CallTypes, Asked
  <2>2. req[s].name \in Names /\ req[s].limit \in Nat /\ points[req[s].name] \in Seq(Nat)
    BY Zenon, <2>1, RequestFields DEF Common, JoinInv, CallTypes
  <2>3. /\ \A n \in Names : n # req[s].name => points'[n] = points[n]
        /\ points'[req[s].name] = Append(points[req[s].name], req[s].limit)
    BY Zenon, <1>1, <2>2 DEF Push, Common, JoinInv, CallTypes
  <2>4. Head(points'[req[s].name]) =
          IF points[req[s].name] = <<>> THEN req[s].limit ELSE Head(points[req[s].name])
    BY ZenonT(40), <2>2, <2>3, HeadAppend
  <2>5. ASSUME NEW n \in Names, points'[n] # <<>>
        PROVE  \E t \in Spaces : \E q \in Requests[t] :
                 /\ "share" \in q.type /\ q.create /\ q.name = n
                 /\ Head(points'[n]) = q.limit
    <3>1. CASE n = req[s].name /\ points[n] = <<>>
      BY Zenon, <1>1, <2>1, <2>4, <3>1
    <3>2. CASE points[n] # <<>>
      <4>1. Head(points'[n]) = Head(points[n])
        BY Zenon, <2>3, <2>4, <3>2
      <4>. QED  BY Zenon, <3>2, <4>1 DEF Common, Pushed
    <3>3. CASE n # req[s].name /\ points[n] = <<>>
      BY Zenon, <2>3, <2>5, <3>3
    <3>. QED  BY Zenon, <3>1, <3>2, <3>3
  <2>. QED  BY Zenon, <2>5 DEF Pushed
<1>2. ASSUME UNCHANGED points
      PROVE  Pushed'
  BY ZenonT(40), <1>2 DEF Common, Pushed
<1>. QED  BY Zenon, <1>1, <1>2
          DEF Next, Step, Call, Access, Search, Insert, Done, Fault, Halt, Retry, vars

LEMMA TableStep ==
  ASSUME Common, [Next]_vars
  PROVE  Table'
<1>1. ASSUME NEW s \in Spaces, NEW r \in todo[s], Call(s, r)
      PROVE  Table'
  <2>1. r \in Request /\ table[s] \in [Pages -> Entry]
    BY Zenon, <1>1 DEF Common, JoinInv, CallTypes, Table
  <2>2. r.base \in Int /\ r.frame \in Int /\ r.write \in BOOLEAN /\ Pages \subseteq Int
    BY <2>1, PortalAssumption DEF Request
  <2>3. ASSUME NEW p \in Pages
        PROVE  [frame |-> r.frame + (p - r.base), rw |-> r.write] \in Entry
    BY <2>2 DEF Entry
  <2>4. Mapped(table[s], r) \in [Pages -> Entry]
    BY Zenon, <2>1, <2>3 DEF Mapped
  <2>. QED  BY Zenon, <1>1, <2>4 DEF Call, Common, Table
<1>2. ASSUME NEW s \in Spaces, Fault(s)
      PROVE  Table'
  <2>1. PICK i \in DOMAIN portals[s] :
          table' = [table EXCEPT ![s][acc[s].page] = FaultMap(s, portals[s][i])]
    BY ZenonT(60), <1>2 DEF Fault
  <2>2. portals[s][i] \in Request /\ used \in Nat
    <3>1. portals[s] \in Seq(Request) /\ used \in Nat
      BY Zenon, <1>2 DEF Common, JoinInv, CallTypes, Counters
    <3>. QED  BY <3>1
  <2>3. FaultMap(s, portals[s][i]) \in Entry
    BY <2>2, RequestFields DEF FaultMap, Entry
  <2>. QED  BY Zenon, <1>2, <2>1, <2>3 DEF Common, Table
<1>3. ASSUME UNCHANGED table
      PROVE  Table'
  BY Zenon, <1>3 DEF Common, Table
<1>. QED  BY Zenon, <1>1, <1>2, <1>3
          DEF Next, Step, Access, Search, Push, Insert, Done, Halt, Retry, vars

LEMMA CountersStep ==
  ASSUME Common, [Next]_vars
  PROVE  Counters'
<1>1. ASSUME NEW s \in Spaces, Push(s)
      PROVE  Counters'
  <2>1. pc[s] = "push" /\ req[s].base \in Int
    BY <1>1, RequestFields DEF Push, Common, JoinInv, CallTypes
  <2>. QED  BY Zenon, <1>1, <2>1 DEF Push, Common, Counters
<1>2. ASSUME NEW s \in Spaces, Fault(s)
      PROVE  Counters'
  BY <1>2 DEF Fault, Common, Counters
<1>3. ASSUME NEW s \in Spaces, Done(s)
      PROVE  Counters'
  BY <1>3 DEF Done, Common, Counters, NoAcc
<1>4. ASSUME NEW s \in Spaces, NEW a \in Pages, NEW w \in BOOLEAN, Access(s, a, w)
      PROVE  Counters'
  BY <1>4, PortalAssumption DEF Access, Common, Counters
<1>5. ASSUME UNCHANGED <<used, acc>>
      PROVE  Counters'
  BY Zenon, <1>5 DEF Common, Counters
<1>. QED  BY Zenon, <1>1, <1>2, <1>3, <1>4, <1>5
          DEF Next, Step, Call, Search, Insert, Halt, Retry, vars

LEMMA OrderlyInit == Init => OrderlyInv
<1>. SUFFICES ASSUME Init PROVE OrderlyInv
  BY Zenon
<1>1. Table
  BY DEF Init, Table, Entry, NoPage
<1>2. Counters
  BY DEF Init, Counters, NoAcc
<1>3. Asked /\ Pushed
  BY DEF Init, Asked, Pushed
<1>4. ASSUME NEW s \in Orderly PROVE Fit(s)
  <2>1. s \in Spaces
    BY Zenon, OrderlyRequests
  <2>2. /\ pc[s] = "run" /\ DOMAIN portals[s] = {}
        /\ \A a \in Pages : table[s][a] = NoPage
    BY <2>1 DEF Init
  <2>. QED  BY Zenon, <2>2 DEF Fit, Once, Covered, Rights
<1>. QED  BY Zenon, <1>1, <1>2, <1>3, <1>4, JoinInit DEF OrderlyInv, Common

LEMMA OrderlyStep == OrderlyInv /\ [Next]_vars => OrderlyInv'
<1>. SUFFICES ASSUME OrderlyInv, [Next]_vars PROVE OrderlyInv'
  BY Zenon
<1>1. Common'
  BY Zenon, JoinStep, AskedStep, PushedStep, TableStep, CountersStep DEF OrderlyInv, Common
<1>2. ASSUME NEW t \in Orderly PROVE Fit(t)'
  <2>1. Common /\ Fit(t) /\ t \in Spaces
    BY Zenon, OrderlyRequests DEF OrderlyInv
  <2>2. CASE UNCHANGED vars
    BY Zenon, <2>1, <2>2 DEF vars, Fit, Once, Covered, Rights
  <2>3. ASSUME NEW s \in Spaces,
               \/ \E r \in todo[s] : Call(s, r)
               \/ \E a \in Pages, w \in BOOLEAN : Access(s, a, w)
               \/ Step(s)
        PROVE  Fit(t)'
    BY Zenon, <2>1, <2>3, FitOwn, FitOther
  <2>. QED  BY Zenon, <2>2, <2>3 DEF Next, Retry
<1>. QED  BY Zenon, <1>1, <1>2 DEF OrderlyInv

(***************************************************************************)
(* No access inside the portals of an orderly server is ever refused, with *)
(* any number of portals, requested in any order, whatever links it joins  *)
(* and whatever the other servers and the kernel ask for meanwhile.        *)
(***************************************************************************)
THEOREM NeverStopped == Spec => []NeverHalts
<1>1. OrderlyInv => NeverHalts
  BY Zenon DEF OrderlyInv, Fit, NeverHalts
<1>. QED  BY <1>1, OrderlyInit, OrderlyStep, PTL DEF Spec

(***************************************************************************)
(* Every page that a fault maps for an orderly server has the permission   *)
(* of its portal: portals with a page between them never get each other's. *)
(***************************************************************************)
THEOREM RightsKept == Spec => []RightsAsAsked
<1>1. OrderlyInv => RightsAsAsked
  BY Zenon DEF OrderlyInv, Fit, Rights, RightsAsAsked
<1>. QED  BY <1>1, OrderlyInit, OrderlyStep, PTL DEF Spec

-----------------------------------------------------------------------------
(* An access takes at most one fault.                                      *)

\* The portals of space s permit its access.
Permitted(s) ==
  pc[s] = "access" =>
    \E i \in DOMAIN portals[s] :
      Covers(portals[s][i], acc[s].page) /\ (acc[s].write => portals[s][i].write)

AllPermitted == \A s \in Orderly : Permitted(s)

LEMMA PermittedStep ==
  ASSUME OrderlyInv, AllPermitted, [Next]_vars
  PROVE  AllPermitted'
<1>. SUFFICES ASSUME NEW s \in Orderly PROVE Permitted(s)'
  BY Zenon DEF AllPermitted
<1>0. /\ s \in Spaces /\ Permitted(s) /\ Fit(s)
      /\ DOMAIN pc = Spaces /\ DOMAIN portals = Spaces /\ DOMAIN acc = Spaces
  BY Zenon, OrderlyRequests DEF OrderlyInv, AllPermitted, Common, JoinInv, CallTypes, Counters
<1>1. ASSUME pc'[s] = pc[s], portals'[s] = portals[s], acc'[s] = acc[s]
      PROVE  Permitted(s)'
  BY Zenon, <1>0, <1>1 DEF Permitted
<1>2. ASSUME pc'[s] # "access" PROVE Permitted(s)'
  BY Zenon, <1>2 DEF Permitted
<1>3. ASSUME NEW t \in Spaces, t # s,
             \/ \E r \in todo[t] : Call(t, r)
             \/ \E a \in Pages, w \in BOOLEAN : Access(t, a, w)
             \/ Step(t)
      PROVE  pc'[s] = pc[s] /\ portals'[s] = portals[s] /\ acc'[s] = acc[s]
  BY Zenon, <1>0, <1>3 DEF Step, Call, Access, Search, Push, Insert, Done, Fault, Halt, Goto
<1>4. ASSUME NEW a \in Pages, NEW w \in BOOLEAN, Access(s, a, w) PROVE Permitted(s)'
  <2>1. acc'[s] = [page |-> a, write |-> w] /\ portals' = portals
    BY Zenon, <1>0, <1>4 DEF Access
  <2>2. acc'[s].page = a /\ acc'[s].write = w
    BY <2>1
  <2>. QED  BY Zenon, <1>4, <2>1, <2>2 DEF Access, Permitted
<1>5. ASSUME \/ \E r \in todo[s] : Call(s, r)
             \/ Search(s) \/ Push(s) \/ Insert(s) \/ Done(s) \/ Halt(s)
      PROVE  pc'[s] # "access"
  BY <1>0, <1>5 DEF Call, Search, Push, Insert, Done, Halt, Goto
<1>6. ASSUME Fault(s) \/ UNCHANGED vars
      PROVE  pc'[s] = pc[s] /\ portals'[s] = portals[s] /\ acc'[s] = acc[s]
  BY Zenon, <1>6 DEF Fault, vars
<1>. QED  BY Zenon, <1>1, <1>2, <1>3, <1>4, <1>5, <1>6 DEF Next, Step, Retry

(***************************************************************************)
(* An access of an orderly server has a page that is mapped and permits    *)
(* it, or a fault that a portal resolves: it is never in the loop of       *)
(* faults that resolve_fault answers by changing nothing.                  *)
(***************************************************************************)
Proceeds ==
  \A s \in Orderly :
    pc[s] = "access" =>
      IF table[s][acc[s].page] = NoPage
      THEN \E i \in DOMAIN portals[s] : Resolved(s, i)
      ELSE acc[s].write => table[s][acc[s].page].rw

\* And one fault is enough: an access that changes anything is made, or its
\* page was missing and is mapped from now on.
FaultsOnce ==
  \A s \in Orderly :
    pc[s] = "access" /\ (pc'[s] # pc[s] \/ acc'[s] # acc[s] \/ table'[s] # table[s]) =>
      \/ pc'[s] = "run"
      \/ /\ pc'[s] = "access" /\ acc'[s] = acc[s]
         /\ table[s][acc[s].page] = NoPage /\ table'[s][acc[s].page] # NoPage

LEMMA ProceedsNow ==
  ASSUME OrderlyInv, AllPermitted
  PROVE  Proceeds
<1>. SUFFICES ASSUME NEW s \in Orderly, pc[s] = "access"
              PROVE  IF table[s][acc[s].page] = NoPage
                     THEN \E i \in DOMAIN portals[s] : Resolved(s, i)
                     ELSE acc[s].write => table[s][acc[s].page].rw
  BY Zenon DEF Proceeds
<1>1. Common /\ Fit(s) /\ acc[s].page \in Pages
  BY Zenon DEF OrderlyInv, Fit, Covered
<1>2. \E i \in DOMAIN portals[s] : Resolved(s, i)
  BY Zenon, <1>1, FaultOwner
<1>3. PICK i \in DOMAIN portals[s] :
        Covers(portals[s][i], acc[s].page) /\ (acc[s].write => portals[s][i].write)
  BY Zenon DEF AllPermitted, Permitted
<1>4. table[s][acc[s].page] # NoPage =>
        table[s][acc[s].page].rw = portals[s][i].write
  BY Zenon, <1>1, <1>3 DEF Fit, Rights
<1>. QED  BY Zenon, <1>2, <1>3, <1>4

LEMMA FaultsOnceStep ==
  ASSUME OrderlyInv, Next
  PROVE  FaultsOnce
<1>. SUFFICES ASSUME NEW s \in Orderly, pc[s] = "access",
                     pc'[s] # pc[s] \/ acc'[s] # acc[s] \/ table'[s] # table[s]
              PROVE  \/ pc'[s] = "run"
                     \/ /\ pc'[s] = "access" /\ acc'[s] = acc[s]
                        /\ table[s][acc[s].page] = NoPage /\ table'[s][acc[s].page] # NoPage
  BY Zenon DEF FaultsOnce
<1>0. /\ s \in Spaces /\ Common /\ Fit(s) /\ acc[s].page \in Pages
      /\ DOMAIN pc = Spaces /\ DOMAIN acc = Spaces
      /\ table \in [Spaces -> [Pages -> Entry]] /\ used \in Nat
  BY Zenon, OrderlyRequests
     DEF OrderlyInv, Common, JoinInv, CallTypes, Counters, Table, Fit, Covered
<1>1. ASSUME NEW t \in Spaces, t # s,
             \/ \E r \in todo[t] : Call(t, r)
             \/ \E a \in Pages, w \in BOOLEAN : Access(t, a, w)
             \/ Step(t)
      PROVE  pc'[s] = pc[s] /\ acc'[s] = acc[s] /\ table'[s] = table[s]
  BY Zenon, <1>0, <1>1 DEF Step, Call, Access, Search, Push, Insert, Done, Fault, Halt, Goto
<1>2. ~Halt(s)
  BY Zenon, <1>0, FaultOwner DEF Halt
<1>3. ASSUME Done(s) PROVE pc'[s] = "run"
  BY <1>0, <1>3 DEF Done, Goto
<1>4. ASSUME Fault(s)
      PROVE  /\ pc'[s] = "access" /\ acc'[s] = acc[s]
             /\ table[s][acc[s].page] = NoPage /\ table'[s][acc[s].page] # NoPage
  <2>1. PICK i \in DOMAIN portals[s] :
          table' = [table EXCEPT ![s][acc[s].page] = FaultMap(s, portals[s][i])]
    BY Zenon, <1>4 DEF Fault
  <2>2. table'[s][acc[s].page] = FaultMap(s, portals[s][i])
    BY Zenon, <1>0, <2>1
  <2>3. FaultMap(s, portals[s][i]).frame # NoPage.frame
    BY <1>0 DEF FaultMap, NoPage
  <2>. QED  BY Zenon, <1>4, <2>2, <2>3 DEF Fault
<1>5. ~Retry(s) /\ ~Search(s) /\ ~Push(s) /\ ~Insert(s)
  BY Zenon DEF Retry, Search, Push, Insert, vars
<1>6. /\ ~\E r \in todo[s] : Call(s, r)
      /\ ~\E a \in Pages, w \in BOOLEAN : Access(s, a, w)
  BY Zenon DEF Call, Access
<1>7. \A t \in Spaces : ~Retry(t)
  BY Zenon DEF Retry, vars
<1>. QED  BY Zenon, <1>1, <1>2, <1>3, <1>4, <1>5, <1>6, <1>7 DEF Next, Step

(***************************************************************************)
(* Every access that the portals of an orderly server permit takes at most *)
(* one page fault and none that is in vain, with any requests and whatever *)
(* the other servers and the kernel do.                                    *)
(***************************************************************************)
THEOREM AccessProceeds == Spec => []Proceeds /\ [][FaultsOnce]_vars
<1>1. Init => AllPermitted
  BY Zenon, OrderlyInit, OrderlyRequests DEF Init, AllPermitted, Permitted
<1>2. OrderlyInv /\ AllPermitted /\ [Next]_vars => AllPermitted'
  BY Zenon, PermittedStep
<1>3. OrderlyInv /\ AllPermitted => Proceeds
  BY Zenon, ProceedsNow
<1>4. OrderlyInv /\ [Next]_vars => [FaultsOnce]_vars
  BY Zenon, FaultsOnceStep
<1>. QED  BY <1>1, <1>2, <1>3, <1>4, OrderlyInit, OrderlyStep, PTL DEF Spec
=============================================================================
