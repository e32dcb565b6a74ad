---------------------------- MODULE PagingProofs ----------------------------
(***************************************************************************)
(* TablesPrivate, StrayOnlyUnderLarge and IsAddressSpace for any pages,    *)
(* indices and frames.  The inductive invariant: until a frame has been    *)
(* written by mistake, the tables form a tree (Tree).  The translation of  *)
(* a page is the value of its path in the tree; a step changes the paths   *)
(* of the pages that it is about, and no other.                            *)
(***************************************************************************)
EXTENDS Paging, TLAPS

-----------------------------------------------------------------------------
(* The tree of page tables.                                                *)

\* Entries, and memory that holds tables of them.
Entries == [p : BOOLEAN, ps : BOOLEAN, rw : BOOLEAN, f : Frames]

Memories == [Frames -> [Idx -> Entries]]

\* What one of the pages may be, with n levels.
Indices(n) == [1 .. n -> Idx]

(***************************************************************************)
(* The tables form a tree of n levels: L is the level of each.  An entry   *)
(* that is present points to a table one level down, which nothing else    *)
(* points to, or in the lowest two levels to a frame that callers map.     *)
(* Free frames and frames that callers map are no tables and are empty.    *)
(***************************************************************************)
Links(m, n, F, L) ==
  \A t \in Frames, i \in Idx :
    m[t][i].p /\ m[t][i].f \notin Given =>
      /\ m[t][i].f \notin F /\ m[t][i].f # Root
      /\ L[m[t][i].f] = L[t] - 1
      /\ ~m[t][i].ps
      /\ n = 4 => m[t][i].rw

Leaves(m, L) ==
  \A t \in Frames, i \in Idx :
    m[t][i].p /\ m[t][i].f \in Given =>
      (L[t] = 1 /\ ~m[t][i].ps) \/ (L[t] = 2 /\ m[t][i].ps)

Single(m) ==
  \A t, u \in Frames, i, j \in Idx :
    m[t][i].p /\ m[u][j].p /\ m[t][i].f \notin Given /\ m[t][i].f = m[u][j].f =>
      t = u /\ i = j

Blank(m, t) == \A i \in Idx : ~m[t][i].p

Tree(m, n, F, L) ==
  /\ m \in Memories /\ n \in {4, 5}
  /\ F \subseteq Frames \ (Given \cup {Root})
  /\ L \in [Frames -> 1 .. 5] /\ L[Root] = n
  /\ Links(m, n, F, L) /\ Leaves(m, L) /\ Single(m)
  /\ \A t \in F \cup Given : Blank(m, t)

\* Memory after a write to entry i of table t.
Writes(m, m2, t, i, e) ==
  /\ m2 \in Memories /\ m2[t][i] = e
  /\ \A u \in Frames, j \in Idx : u # t \/ j # i => m2[u][j] = m[u][j]

\* The walk with the indices v gets down to level l, through the tables s.
Reached(m, n, v, l, s) ==
  /\ s[n] = Root
  /\ \A k \in l + 1 .. n : m[s[k]][v[k]].p /\ s[k - 1] = m[s[k]][v[k]].f

-----------------------------------------------------------------------------
\* Where a walk has got to is a table of its level.
Placed(F, L, l, n, s) == \A k \in l .. n : s[k] \in Frames \ (F \cup Given) /\ L[s[k]] = k

\* What the constants are.
LEMMA RootIs ==
  Root \in Frames /\ Root \notin Given /\ Given \subseteq Frames /\ Large \subseteq Given
  BY PagingAssumption DEF Frames, Root

\* An entry above the lowest level, of no large page, points to a table one
\* level down.
LEMMA StepDown ==
  ASSUME NEW m, NEW n, NEW F, NEW L, Tree(m, n, F, L), NEW t \in Frames, NEW i \in Idx,
         m[t][i].p, L[t] \in 2 .. 5, L[t] >= 3 \/ ~m[t][i].ps
  PROVE  /\ m[t][i].f \in Frames \ (F \cup Given) /\ L[m[t][i].f] = L[t] - 1
         /\ m[t][i].f # Root
  <1>1. m[t][i] \in Entries
    BY DEF Tree, Memories
  <1>2. m[t][i].f \in Frames
    BY <1>1 DEF Entries
  <1>3. m[t][i].f \notin Given
    BY RootIs DEF Tree, Leaves
  <1> QED BY Zenon, <1>2, <1>3 DEF Tree, Links

\* A walk goes through tables of the levels in order.
LEMMA ReachedPlaced ==
  ASSUME NEW m, NEW n, NEW F, NEW L, Tree(m, n, F, L), NEW v \in Indices(n),
         NEW l \in 2 .. n, NEW s, Reached(m, n, v, l, s)
  PROVE  Placed(F, L, l, n, s)
  <1> DEFINE P(k) == s[k] \in Frames \ (F \cup Given) /\ L[s[k]] = k
  <1>1. n \in {4, 5} /\ P(n)
    BY RootIs DEF Tree, Reached
  <1>2. ASSUME NEW k \in l + 1 .. n, P(k) PROVE P(k - 1)
    <2>1. m[s[k]][v[k]].p /\ s[k - 1] = m[s[k]][v[k]].f
      BY DEF Reached
    <2>2. k \in 1 .. n /\ k \in 3 .. 5
      BY <1>1
    <2>3. v[k] \in Idx
      BY <2>2 DEF Indices
    <2>4. s[k] \in Frames /\ L[s[k]] \in 2 .. 5 /\ L[s[k]] >= 3
      BY <1>2, <2>2
    <2>5. m[s[k]][v[k]].f \in Frames \ (F \cup Given) /\ L[m[s[k]][v[k]].f] = L[s[k]] - 1
      BY SMTT(40), <2>1, <2>3, <2>4, StepDown
    <2> QED BY Zenon, <1>2, <2>1, <2>5
  <1>3. \A k \in l + 1 .. n : P(k) => P(k - 1)
    BY Zenon, <1>2
  <1> HIDE DEF P
  <1>4. \A k \in l .. n : P(k)
    BY <1>1, <1>3
  <1> QED BY Zenon, <1>4 DEF P, Placed

\* Two walks that meet in a table have come the same way.
Agree(v, w, s, u, l, n) == \A k \in l + 1 .. n : v[k] = w[k] /\ s[k] = u[k]

\* Only the same indices lead to the same table.
LEMMA ReachedSame ==
  ASSUME NEW m, NEW n, NEW F, NEW L, Tree(m, n, F, L),
         NEW v \in Indices(n), NEW w \in Indices(n), NEW l \in 1 .. n, NEW s, NEW u,
         Reached(m, n, v, l, s), Reached(m, n, w, l, u), s[l] = u[l], s[l] \notin Given
  PROVE  Agree(v, w, s, u, l, n)
  <1>0. n \in {4, 5}
    BY DEF Tree
  <1>1. ASSUME NEW k \in l .. n - 1, s[k] = u[k], s[k] \notin Given
        PROVE  v[k + 1] = w[k + 1] /\ s[k + 1] = u[k + 1] /\ s[k + 1] \notin Given
    <2>1. k + 1 \in 2 .. n /\ k + 1 \in l + 1 .. n /\ k + 1 \in 1 .. n
      BY <1>0
    <2>2. Reached(m, n, v, k + 1, s) /\ Reached(m, n, w, k + 1, u)
      BY <1>0 DEF Reached
    <2>3. Placed(F, L, k + 1, n, s) /\ Placed(F, L, k + 1, n, u)
      BY Zenon, <2>1, <2>2, ReachedPlaced
    <2>4. s[k + 1] \in Frames \ Given /\ u[k + 1] \in Frames
      BY <2>1, <2>3 DEF Placed
    <2>5. /\ m[s[k + 1]][v[k + 1]].p /\ s[k] = m[s[k + 1]][v[k + 1]].f
          /\ m[u[k + 1]][w[k + 1]].p /\ u[k] = m[u[k + 1]][w[k + 1]].f
      BY <2>1 DEF Reached
    <2>6. v[k + 1] \in Idx /\ w[k + 1] \in Idx
      BY <2>1 DEF Indices
    <2>7. Single(m)
      BY Zenon DEF Tree
    <2>8. /\ m[s[k + 1]][v[k + 1]].f \notin Given
          /\ m[s[k + 1]][v[k + 1]].f = m[u[k + 1]][w[k + 1]].f
      BY Zenon, <1>1, <2>5
    <2>9. s[k + 1] = u[k + 1] /\ v[k + 1] = w[k + 1]
      BY SMTT(40), <2>4, <2>5, <2>6, <2>7, <2>8 DEF Single
    <2> QED BY Zenon, <2>4, <2>9
  <1> DEFINE P(k) == s[k] = u[k] /\ s[k] \notin Given
             Q(k) == v[k] = w[k] /\ s[k] = u[k]
  <1>2. P(l) /\ \A k \in l .. n - 1 : P(k) => P(k + 1) /\ Q(k + 1)
    BY Zenon, <1>1
  <1> HIDE DEF P, Q
  <1>3. \A k \in l + 1 .. n : Q(k)
    BY <1>0, <1>2
  <1> QED BY Zenon, <1>3 DEF Q, Agree

\* The end of a walk: the lowest table, or the frame of a large page.
EndOf(m, n, F, L, v, s) ==
  /\ Placed(F, L, 2, n, s) /\ n \in {4, 5} /\ s[1] \in Frames \ F
  /\ \A k \in 2 .. n : m[s[k]][v[k]].p /\ v[k] \in Idx /\ s[k] \in Frames /\ L[s[k]] = k
  /\ s[1] = m[s[2]][v[2]].f /\ v[1] \in Idx
  /\ m[s[2]][v[2]].ps <=> s[1] \in Given
  /\ s[1] \notin Given => L[s[1]] = 1

LEMMA EndOfWalk ==
  ASSUME NEW m, NEW n, NEW F, NEW L, Tree(m, n, F, L), NEW v \in Indices(n), NEW s,
         Reached(m, n, v, 1, s)
  PROVE  EndOf(m, n, F, L, v, s)
  <1>1. n \in {4, 5}
    BY DEF Tree
  <1>2. Reached(m, n, v, 2, s)
    BY DEF Reached
  <1>3. Placed(F, L, 2, n, s)
    BY <1>1, <1>2, ReachedPlaced
  <1>4. \A k \in 2 .. n : m[s[k]][v[k]].p /\ s[k - 1] = m[s[k]][v[k]].f
    BY DEF Reached
  <1>5. v[1] \in Idx /\ \A k \in 2 .. n : v[k] \in Idx
    BY <1>1 DEF Indices
  <1>6. \A k \in 2 .. n : s[k] \in Frames /\ L[s[k]] = k
    BY <1>3 DEF Placed
  <1>7. /\ s[2] \in Frames /\ L[s[2]] = 2 /\ v[2] \in Idx
        /\ m[s[2]][v[2]].p /\ s[1] = m[s[2]][v[2]].f
    BY <1>1, <1>4, <1>5, <1>6
  <1>8. m[s[2]][v[2]] \in Entries
    BY <1>7 DEF Tree, Memories
  <1>9. s[1] \in Frames /\ m[s[2]][v[2]].ps \in BOOLEAN
    BY <1>7, <1>8 DEF Entries
  <1>10. m[s[2]][v[2]].ps <=> s[1] \in Given
    BY <1>7, <1>9 DEF Tree, Links, Leaves
  <1>11. s[1] \notin F
    BY <1>7 DEF Tree, Links
  <1>12. s[1] \notin Given => L[s[1]] = 1
    BY <1>7 DEF Tree, Links
  <1> QED BY Zenon, <1>1, <1>3, <1>4, <1>5, <1>6, <1>7, <1>9, <1>10, <1>11, <1>12 DEF EndOf

-----------------------------------------------------------------------------
(* A new table.                                                            *)

\* An entry that is absent is made to point to a free frame.
Allocates(m, m2, n, F, L, t, i, new, p) ==
  /\ Tree(m, n, F, L)
  /\ t \in Frames \ (F \cup Given) /\ L[t] \in 2 .. 5 /\ i \in Idx
  /\ ~m[t][i].p
  /\ new \in F
  /\ p \in BOOLEAN /\ (n = 4 => p)
  /\ Writes(m, m2, t, i, Entry(TRUE, FALSE, p, new))

Relevel(L, new, l) == [L EXCEPT ![new] = l]

\* With the new table one level below, the tables are still a tree.
LEMMA AllocateKeeps ==
  ASSUME NEW m, NEW m2, NEW n, NEW F, NEW L, NEW t, NEW i, NEW new, NEW p,
         Allocates(m, m2, n, F, L, t, i, new, p)
  PROVE  Tree(m2, n, F \ {new}, Relevel(L, new, L[t] - 1))
  <1> DEFINE L2 == Relevel(L, new, L[t] - 1)
  <1>1. /\ m \in Memories /\ m2 \in Memories /\ n \in {4, 5} /\ L[Root] = n
        /\ F \subseteq Frames \ (Given \cup {Root}) /\ L \in [Frames -> 1 .. 5]
        /\ Links(m, n, F, L) /\ Leaves(m, L) /\ Single(m)
        /\ (\A u \in F \cup Given : Blank(m, u))
    BY Zenon DEF Allocates, Tree, Writes
  <1>2. /\ t \in Frames /\ t \notin F /\ t \notin Given /\ L[t] \in 2 .. 5 /\ i \in Idx
        /\ ~m[t][i].p /\ new \in F /\ new \in Frames /\ p \in BOOLEAN /\ (n = 4 => p)
    BY Zenon, <1>1 DEF Allocates
  <1>3. /\ m2[t][i] = Entry(TRUE, FALSE, p, new)
        /\ \A u \in Frames, j \in Idx : u # t \/ j # i => m2[u][j] = m[u][j]
    BY Zenon DEF Allocates, Writes
  <1>4. /\ m2[t][i].p = TRUE /\ m2[t][i].ps = FALSE /\ m2[t][i].rw = p
        /\ m2[t][i].f = new
    BY <1>3 DEF Entry
  <1>5. /\ L2 \in [Frames -> 1 .. 5] /\ L2[new] = L[t] - 1
        /\ \A u \in Frames : u # new => L2[u] = L[u]
    BY <1>1, <1>2 DEF Relevel
  <1>6. Root \in Frames /\ new # Root /\ new \notin Given /\ t # new
    BY Zenon, <1>1, <1>2, RootIs
  <1> HIDE DEF L2
  <1>7. ASSUME NEW u \in Frames, NEW j \in Idx, m2[u][j].p, ~(u = t /\ j = i)
        PROVE  /\ m2[u][j] = m[u][j] /\ u # new /\ L2[u] = L[u] /\ m[u][j].f # new
               /\ m[u][j].f \in Frames
    <2>1. m2[u][j] = m[u][j] /\ m[u][j].p
      BY Zenon, <1>3, <1>7
    <2>2. u # new
      BY Zenon, <1>1, <1>2, <2>1 DEF Blank
    <2>3. m[u][j] \in Entries
      BY <1>1 DEF Memories
    <2>4. m[u][j].f \in Frames
      BY <2>3 DEF Entries
    <2>5. m[u][j].f # new
      BY Zenon, <1>1, <1>2, <1>6, <2>1 DEF Links
    <2> QED BY Zenon, <1>5, <2>1, <2>2, <2>4, <2>5
  <1>8. Links(m2, n, F \ {new}, L2)
    <2> SUFFICES ASSUME NEW u \in Frames, NEW j \in Idx, m2[u][j].p, m2[u][j].f \notin Given
                 PROVE  /\ m2[u][j].f \notin F \ {new} /\ m2[u][j].f # Root
                        /\ L2[m2[u][j].f] = L2[u] - 1 /\ ~m2[u][j].ps
                        /\ n = 4 => m2[u][j].rw
      BY Zenon DEF Links
    <2>1. CASE u = t /\ j = i
      <3>1. L2[t] = L[t]
        BY Zenon, <1>2, <1>5, <1>6
      <3> QED BY Zenon, <1>2, <1>4, <1>5, <1>6, <2>1, <3>1
    <2>2. CASE ~(u = t /\ j = i)
      <3>1. /\ m2[u][j] = m[u][j] /\ L2[u] = L[u] /\ m[u][j].f # new /\ m[u][j].f \in Frames
        BY Zenon, <1>7, <2>2
      <3>2. L2[m[u][j].f] = L[m[u][j].f]
        BY Zenon, <1>5, <3>1
      <3>3. /\ m[u][j].f \notin F /\ m[u][j].f # Root /\ L[m[u][j].f] = L[u] - 1
            /\ ~m[u][j].ps /\ (n = 4 => m[u][j].rw)
        BY Zenon, <1>1, <3>1 DEF Links
      <3> QED BY Zenon, <3>1, <3>2, <3>3
    <2> QED BY Zenon, <2>1, <2>2
  <1>9. Leaves(m2, L2)
    <2> SUFFICES ASSUME NEW u \in Frames, NEW j \in Idx, m2[u][j].p, m2[u][j].f \in Given
                 PROVE  (L2[u] = 1 /\ ~m2[u][j].ps) \/ (L2[u] = 2 /\ m2[u][j].ps)
      BY Zenon DEF Leaves
    <2>1. ~(u = t /\ j = i)
      BY Zenon, <1>4, <1>6
    <2>2. m2[u][j] = m[u][j] /\ L2[u] = L[u]
      BY Zenon, <1>7, <2>1
    <2>3. m[u][j].p /\ m[u][j].f \in Given
      BY Zenon, <2>2
    <2>4. (L[u] = 1 /\ ~m[u][j].ps) \/ (L[u] = 2 /\ m[u][j].ps)
      BY Zenon, <1>1, <2>3 DEF Leaves
    <2> QED BY Zenon, <2>2, <2>4
  <1>10. Single(m2)
    <2> SUFFICES ASSUME NEW u \in Frames, NEW x \in Frames, NEW j \in Idx, NEW y \in Idx,
                        m2[u][j].p, m2[x][y].p, m2[u][j].f \notin Given,
                        m2[u][j].f = m2[x][y].f
                 PROVE  u = x /\ j = y
      BY Zenon DEF Single
    <2>1. CASE u = t /\ j = i
      <3>1. m2[x][y].f = new
        BY Zenon, <1>4, <2>1
      <3>2. SUFFICES ASSUME ~(x = t /\ y = i) PROVE FALSE
        BY Zenon, <2>1
      <3>3. m2[x][y] = m[x][y] /\ m[x][y].f # new
        BY Zenon, <1>7, <3>2
      <3> QED BY Zenon, <3>1, <3>3
    <2>2. CASE x = t /\ y = i
      <3>1. m2[u][j].f = new
        BY Zenon, <1>4, <2>2
      <3>2. SUFFICES ASSUME ~(u = t /\ j = i) PROVE FALSE
        BY Zenon, <2>2
      <3>3. m2[u][j] = m[u][j] /\ m[u][j].f # new
        BY Zenon, <1>7, <3>2
      <3> QED BY Zenon, <3>1, <3>3
    <2>3. CASE ~(u = t /\ j = i) /\ ~(x = t /\ y = i)
      <3>1. m2[u][j] = m[u][j] /\ m2[x][y] = m[x][y]
        BY Zenon, <1>7, <2>3
      <3> QED BY <1>1, <3>1 DEF Single
    <2> QED BY Zenon, <2>1, <2>2, <2>3
  <1>11. \A u \in (F \ {new}) \cup Given : Blank(m2, u)
    <2> SUFFICES ASSUME NEW u \in (F \ {new}) \cup Given, NEW j \in Idx PROVE ~m2[u][j].p
      BY Zenon DEF Blank
    <2>1. u \in Frames /\ u # t /\ Blank(m, u)
      BY Zenon, <1>1, <1>2, RootIs
    <2> QED BY Zenon, <1>3, <2>1 DEF Blank
  <1>12. L2[Root] = n
    BY Zenon, <1>1, <1>5, <1>6
  <1>13. F \ {new} \subseteq Frames \ (Given \cup {Root})
    BY Zenon, <1>1
  <1> QED BY Zenon, <1>1, <1>5, <1>8, <1>9, <1>10, <1>11, <1>12, <1>13 DEF Tree, L2

-----------------------------------------------------------------------------
(* The last entry of a walk is written.                                    *)

\* An entry of a table of the lowest two levels is made to map a frame.
PutsLeaf(m, m2, n, F, L, t, i, ps, rw, f) ==
  /\ Tree(m, n, F, L)
  /\ t \in Frames \ (F \cup Given) /\ i \in Idx
  /\ (L[t] = 1 /\ ~ps) \/ (L[t] = 2 /\ ps)
  /\ f \in Given
  /\ Writes(m, m2, t, i, Entry(TRUE, ps, rw, f))

\* Mapping a frame keeps the tree.
LEMMA LeafKeeps ==
  ASSUME NEW m, NEW m2, NEW n, NEW F, NEW L, NEW t, NEW i, NEW ps, NEW rw, NEW f,
         PutsLeaf(m, m2, n, F, L, t, i, ps, rw, f)
  PROVE  Tree(m2, n, F, L)
  <1>1. /\ m \in Memories /\ m2 \in Memories /\ n \in {4, 5} /\ L[Root] = n
        /\ F \subseteq Frames \ (Given \cup {Root}) /\ L \in [Frames -> 1 .. 5]
        /\ Links(m, n, F, L) /\ Leaves(m, L) /\ Single(m)
        /\ (\A u \in F \cup Given : Blank(m, u))
    BY Zenon DEF PutsLeaf, Tree, Writes
  <1>2. /\ t \in Frames /\ t \notin F /\ t \notin Given /\ i \in Idx /\ f \in Given
        /\ (L[t] = 1 /\ ~ps) \/ (L[t] = 2 /\ ps)
    BY Zenon, <1>1 DEF PutsLeaf
  <1>3. /\ m2[t][i] = Entry(TRUE, ps, rw, f)
        /\ \A u \in Frames, j \in Idx : u # t \/ j # i => m2[u][j] = m[u][j]
    BY Zenon DEF PutsLeaf, Writes
  <1>4. m2[t][i].p = TRUE /\ m2[t][i].ps = ps /\ m2[t][i].f = f
    BY <1>3 DEF Entry
  <1>5. Links(m2, n, F, L)
    <2> SUFFICES ASSUME NEW u \in Frames, NEW j \in Idx, m2[u][j].p, m2[u][j].f \notin Given
                 PROVE  /\ m2[u][j].f \notin F /\ m2[u][j].f # Root
                        /\ L[m2[u][j].f] = L[u] - 1 /\ ~m2[u][j].ps
                        /\ n = 4 => m2[u][j].rw
      BY Zenon DEF Links
    <2>1. m2[u][j] = m[u][j]
      BY Zenon, <1>2, <1>3, <1>4
    <2>2. /\ m[u][j].f \notin F /\ m[u][j].f # Root
          /\ L[m[u][j].f] = L[u] - 1 /\ ~m[u][j].ps
          /\ n = 4 => m[u][j].rw
      BY Zenon, <1>1, <2>1 DEF Links
    <2> QED BY Zenon, <2>1, <2>2
  <1>6. Leaves(m2, L)
    <2> SUFFICES ASSUME NEW u \in Frames, NEW j \in Idx, m2[u][j].p, m2[u][j].f \in Given
                 PROVE  (L[u] = 1 /\ ~m2[u][j].ps) \/ (L[u] = 2 /\ m2[u][j].ps)
      BY Zenon DEF Leaves
    <2>1. CASE u = t /\ j = i
      BY Zenon, <1>2, <1>4, <2>1
    <2>2. CASE ~(u = t /\ j = i)
      <3>1. m2[u][j] = m[u][j]
        BY Zenon, <1>3, <2>2
      <3> QED BY Zenon, <1>1, <3>1 DEF Leaves
    <2> QED BY Zenon, <2>1, <2>2
  <1>7. Single(m2)
    <2> SUFFICES ASSUME NEW u \in Frames, NEW x \in Frames, NEW j \in Idx, NEW y \in Idx,
                        m2[u][j].p, m2[x][y].p, m2[u][j].f \notin Given,
                        m2[u][j].f = m2[x][y].f
                 PROVE  u = x /\ j = y
      BY Zenon DEF Single
    <2>1. m2[u][j] = m[u][j] /\ m2[x][y] = m[x][y]
      BY Zenon, <1>2, <1>3, <1>4
    <2> QED BY <1>1, <2>1 DEF Single
  <1>8. \A u \in F \cup Given : Blank(m2, u)
    <2> SUFFICES ASSUME NEW u \in F \cup Given, NEW j \in Idx PROVE ~m2[u][j].p
      BY Zenon DEF Blank
    <2>1. u \in Frames /\ u # t /\ Blank(m, u)
      BY Zenon, <1>1, <1>2, RootIs
    <2> QED BY Zenon, <1>3, <2>1 DEF Blank
  <1> QED BY Zenon, <1>1, <1>5, <1>6, <1>7, <1>8 DEF Tree

\* An entry is made absent; its other fields stay.
Clears(m, m2, t, i) ==
  /\ m2 \in Memories /\ ~m2[t][i].p
  /\ \A u \in Frames, j \in Idx : u # t \/ j # i => m2[u][j] = m[u][j]

\* Unmapping keeps it.
LEMMA ClearKeeps ==
  ASSUME NEW m, NEW m2, NEW n, NEW F, NEW L, NEW t, NEW i,
         Tree(m, n, F, L), Clears(m, m2, t, i)
  PROVE  Tree(m2, n, F, L)
  <1>1. /\ m \in Memories /\ m2 \in Memories /\ n \in {4, 5} /\ L[Root] = n
        /\ F \subseteq Frames \ (Given \cup {Root}) /\ L \in [Frames -> 1 .. 5]
        /\ Links(m, n, F, L) /\ Leaves(m, L) /\ Single(m)
        /\ (\A u \in F \cup Given : Blank(m, u))
    BY Zenon DEF Clears, Tree
  <1>2. ASSUME NEW u \in Frames, NEW j \in Idx, m2[u][j].p PROVE m2[u][j] = m[u][j]
    BY Zenon, <1>2 DEF Clears
  <1>3. Links(m2, n, F, L)
    <2> SUFFICES ASSUME NEW u \in Frames, NEW j \in Idx, m2[u][j].p, m2[u][j].f \notin Given
                 PROVE  /\ m2[u][j].f \notin F /\ m2[u][j].f # Root
                        /\ L[m2[u][j].f] = L[u] - 1 /\ ~m2[u][j].ps
                        /\ n = 4 => m2[u][j].rw
      BY Zenon DEF Links
    <2>1. m2[u][j] = m[u][j]
      BY Zenon, <1>2
    <2>2. /\ m[u][j].f \notin F /\ m[u][j].f # Root
          /\ L[m[u][j].f] = L[u] - 1 /\ ~m[u][j].ps
          /\ n = 4 => m[u][j].rw
      BY Zenon, <1>1, <2>1 DEF Links
    <2> QED BY Zenon, <2>1, <2>2
  <1>4. Leaves(m2, L)
    BY ZenonT(40), <1>1, <1>2 DEF Leaves
  <1>5. Single(m2)
    <2> SUFFICES ASSUME NEW u \in Frames, NEW x \in Frames, NEW j \in Idx, NEW y \in Idx,
                        m2[u][j].p, m2[x][y].p, m2[u][j].f \notin Given,
                        m2[u][j].f = m2[x][y].f
                 PROVE  u = x /\ j = y
      BY Zenon DEF Single
    <2>1. m2[u][j] = m[u][j] /\ m2[x][y] = m[x][y]
      BY Zenon, <1>2
    <2> QED BY <1>1, <2>1 DEF Single
  <1>6. \A u \in F \cup Given : Blank(m2, u)
    <2> SUFFICES ASSUME NEW u \in F \cup Given, NEW j \in Idx, m2[u][j].p PROVE FALSE
      BY Zenon DEF Blank
    <2>1. u \in Frames /\ Blank(m, u)
      BY Zenon, <1>1, RootIs
    <2> QED BY Zenon, <1>2, <2>1 DEF Blank
  <1> QED BY Zenon, <1>1, <1>3, <1>4, <1>5, <1>6 DEF Tree

-----------------------------------------------------------------------------
(* What pages are mapped to.                                               *)

\* The walk with the indices v ends at an entry of level b that is present:
\* of a large page at level 2, of a small one at level 1.
Path(m, n, v, s, b) ==
  /\ b \in {1, 2}
  /\ Reached(m, n, v, b, s)
  /\ m[s[b]][v[b]].p
  /\ m[s[2]][v[2]].ps <=> b = 2

Value(m, n, v, s, b) ==
  [frame |-> IF b = 2 THEN m[s[2]][v[2]].f + v[1] ELSE m[s[1]][v[1]].f,
   rw |-> \A k \in b .. n : m[s[k]][v[k]].rw]

HasValue(m, n, v, s, b, r) == Value(m, n, v, s, b) = r

\* Every page of n levels is mapped in m2 as it is in m, in W at least.
SameFor(m, m2, n, W) ==
  \A w \in W : \A s, b :
    /\ Path(m, n, w, s, b) => Path(m2, n, w, s, b) /\ Value(m2, n, w, s, b) = Value(m, n, w, s, b)
    /\ Path(m2, n, w, s, b) => Path(m, n, w, s, b)

\* The entries of a walk down to level b are those of tables of their level.
Along(m, n, F, L, v, s, b) ==
  \A k \in b .. n : /\ s[k] \in Frames \ (F \cup Given) /\ L[s[k]] = k
                    /\ v[k] \in Idx /\ m[s[k]][v[k]].p

\* They are the same in m2.
SameAlong(m, m2, n, v, s, b) == \A k \in b .. n : m2[s[k]][v[k]] = m[s[k]][v[k]]

\* The tables of a path are of their levels.
LEMMA PathEnds ==
  ASSUME NEW m, NEW n, NEW F, NEW L, Tree(m, n, F, L), NEW v \in Indices(n), NEW s, NEW b,
         Path(m, n, v, s, b)
  PROVE  n \in {4, 5} /\ b \in {1, 2} /\ Along(m, n, F, L, v, s, b)
  <1>1. n \in {4, 5} /\ b \in {1, 2} /\ m[s[b]][v[b]].p /\ Reached(m, n, v, b, s)
    BY Zenon DEF Tree, Path
  <1>2. Reached(m, n, v, 2, s)
    BY <1>1 DEF Reached
  <1>3. Placed(F, L, 2, n, s)
    BY <1>1, <1>2, ReachedPlaced
  <1>4. \A k \in b .. n : v[k] \in Idx /\ m[s[k]][v[k]].p
    BY <1>1 DEF Reached, Indices
  <1>5. CASE b = 2
    BY <1>1, <1>3, <1>4, <1>5 DEF Placed, Along
  <1>6. CASE b = 1
    <2>1. Reached(m, n, v, 1, s) /\ ~m[s[2]][v[2]].ps
      BY <1>6 DEF Path
    <2>2. s[1] \in Frames \ F /\ s[1] \notin Given /\ L[s[1]] = 1
      <3>1. EndOf(m, n, F, L, v, s)
        BY Zenon, <2>1, EndOfWalk
      <3> QED BY Zenon, <2>1, <3>1 DEF EndOf
    <2> QED BY <1>1, <1>3, <1>4, <1>6, <2>2 DEF Placed, Along
  <1> QED BY Zenon, <1>1, <1>5, <1>6

\* A path whose entries are the same in m2 is a path there, and maps the same.
LEMMA PathSame ==
  ASSUME NEW m, NEW m2, NEW n \in {4, 5}, NEW v, NEW s, NEW b, Path(m, n, v, s, b),
         SameAlong(m, m2, n, v, s, b)
  PROVE  Path(m2, n, v, s, b) /\ Value(m2, n, v, s, b) = Value(m, n, v, s, b)
  <1>1. b \in {1, 2}
    BY Zenon DEF Path
  <1>2. m2[s[2]][v[2]] = m[s[2]][v[2]] /\ m2[s[b]][v[b]] = m[s[b]][v[b]]
    BY <1>1 DEF SameAlong
  <1>3. \A k \in b + 1 .. n : m2[s[k]][v[k]] = m[s[k]][v[k]]
    BY <1>1 DEF SameAlong
  <1>4. Reached(m2, n, v, b, s)
    BY Zenon, <1>3 DEF Path, Reached
  <1>5. Path(m2, n, v, s, b)
    BY Zenon, <1>2, <1>4 DEF Path
  <1>6. (\A k \in b .. n : m2[s[k]][v[k]].rw) <=> (\A k \in b .. n : m[s[k]][v[k]].rw)
    BY Zenon DEF SameAlong
  <1>7. b = 1 => m2[s[1]][v[1]] = m[s[1]][v[1]]
    BY Zenon, <1>2
  <1> QED BY ZenonT(40), <1>1, <1>2, <1>5, <1>6, <1>7 DEF Value

\* A new table maps nothing, and nothing that was mapped.
LEMMA AllocateSame ==
  ASSUME NEW m, NEW m2, NEW n, NEW F, NEW L, NEW t, NEW i, NEW new, NEW p,
         Allocates(m, m2, n, F, L, t, i, new, p)
  PROVE  SameFor(m, m2, n, Indices(n))
  <1> DEFINE L2 == Relevel(L, new, L[t] - 1)
  <1>1. Tree(m, n, F, L) /\ Tree(m2, n, F \ {new}, L2)
    BY Zenon, AllocateKeeps DEF Allocates
  <1>2. /\ t \in Frames /\ t \notin F /\ t \notin Given /\ L[t] \in 2 .. 5 /\ i \in Idx
        /\ ~m[t][i].p /\ new \in F /\ new # t /\ new \in Frames /\ Blank(m, new) /\ n \in {4, 5}
    BY Zenon, <1>1 DEF Allocates, Tree
  <1>3. /\ m2[t][i] = Entry(TRUE, FALSE, p, new)
        /\ \A u \in Frames, j \in Idx : u # t \/ j # i => m2[u][j] = m[u][j]
    BY Zenon DEF Allocates, Writes
  <1>4. m2[t][i].ps = FALSE /\ m2[t][i].f = new
    BY <1>3 DEF Entry
  <1>5. L2[t] = L[t]
    BY <1>1, <1>2 DEF Relevel, Tree
  <1> HIDE DEF L2
  <1> SUFFICES ASSUME NEW w \in Indices(n), NEW s, NEW b
               PROVE  /\ Path(m, n, w, s, b) => /\ Path(m2, n, w, s, b)
                                                /\ Value(m2, n, w, s, b) = Value(m, n, w, s, b)
                      /\ Path(m2, n, w, s, b) => Path(m, n, w, s, b)
    BY Zenon DEF SameFor
  <1>6. ASSUME Path(m, n, w, s, b)
        PROVE  Path(m2, n, w, s, b) /\ Value(m2, n, w, s, b) = Value(m, n, w, s, b)
    <2>1. Along(m, n, F, L, w, s, b)
      BY Zenon, <1>1, <1>6, PathEnds
    <2>2. SameAlong(m, m2, n, w, s, b)
      <3> SUFFICES ASSUME NEW k \in b .. n PROVE m2[s[k]][w[k]] = m[s[k]][w[k]]
        BY Zenon DEF SameAlong
      <3>1. s[k] \in Frames /\ w[k] \in Idx /\ m[s[k]][w[k]].p
        BY Zenon, <2>1 DEF Along
      <3> QED BY Zenon, <1>2, <1>3, <3>1
    <2> QED BY <1>2, <1>6, <2>2, PathSame
  <1>7. ASSUME Path(m2, n, w, s, b)
        PROVE  Path(m, n, w, s, b)
    <2>1. Along(m2, n, F \ {new}, L2, w, s, b)
      BY Zenon, <1>1, <1>7, PathEnds
    <2>2. b \in {1, 2}
      BY Zenon, <1>7 DEF Path
    <2>3. ASSUME NEW k \in b .. n, s[k] = t, w[k] = i PROVE FALSE
      <3>1. L2[t] = k
        BY Zenon, <2>1, <2>3 DEF Along
      <3>2. k \in 2 .. 5
        BY Zenon, <1>2, <1>5, <3>1
      <3>3. CASE k = b
        <4>1. b = 2
          BY <2>2, <3>2, <3>3
        <4>2. m2[s[2]][w[2]].ps
          BY Zenon, <1>7, <4>1 DEF Path
        <4> QED BY Zenon, <1>4, <2>3, <3>3, <4>1, <4>2
      <3>4. CASE k # b
        <4>1. k \in b + 1 .. n /\ k - 1 \in b .. n
          BY <1>2, <2>2, <3>4
        <4>2. s[k - 1] = m2[s[k]][w[k]].f
          BY Zenon, <1>7, <4>1 DEF Path, Reached
        <4>3. s[k - 1] = new
          BY Zenon, <1>4, <2>3, <4>2
        <4>4. m2[new][w[k - 1]].p /\ w[k - 1] \in Idx
          BY Zenon, <2>1, <4>1, <4>3 DEF Along
        <4>5. m2[new][w[k - 1]] = m[new][w[k - 1]]
          BY Zenon, <1>2, <1>3, <4>4
        <4> QED BY Zenon, <1>2, <4>4, <4>5 DEF Blank
      <3> QED BY Zenon, <3>3, <3>4
    <2>4. SameAlong(m2, m, n, w, s, b)
      <3> SUFFICES ASSUME NEW k \in b .. n PROVE m[s[k]][w[k]] = m2[s[k]][w[k]]
        BY Zenon DEF SameAlong
      <3>1. s[k] \in Frames /\ w[k] \in Idx
        BY Zenon, <2>1 DEF Along
      <3> QED BY Zenon, <1>3, <2>3, <3>1
    <2> QED BY Zenon, <1>2, <1>7, <2>4, PathSame
  <1> QED BY Zenon, <1>6, <1>7

-----------------------------------------------------------------------------
(* A write to the end of a walk concerns the pages with that walk only.    *)

Differs(m, m2, t, i) == \A u \in Frames, j \in Idx : u # t \/ j # i => m2[u][j] = m[u][j]

\* The indices that part from v above level b, or at it.
Beside(n, v, b) == {w \in Indices(n) : \E k \in b .. n : w[k] # v[k]}

\* The walk of v gets to the table s[b] of level b.
Arrives(m, n, F, L, v, b, s) ==
  /\ Tree(m, n, F, L) /\ v \in Indices(n) /\ b \in {1, 2}
  /\ Reached(m, n, v, b, s)
  /\ s[b] \in Frames \ (F \cup Given) /\ L[s[b]] = b

\* Two walks that come to one entry have the same indices down to it.
LEMMA Meet ==
  ASSUME NEW m, NEW n, NEW F, NEW L, NEW v, NEW b, NEW s, Arrives(m, n, F, L, v, b, s),
         NEW w \in Indices(n), NEW u, NEW c, Path(m, n, w, u, c),
         NEW k \in c .. n, u[k] = s[b]
  PROVE  k = b /\ Agree(v, w, s, u, b, n)
  <1>1. /\ Tree(m, n, F, L) /\ v \in Indices(n) /\ b \in {1, 2} /\ Reached(m, n, v, b, s)
        /\ s[b] \notin Given /\ L[s[b]] = b
    BY Zenon DEF Arrives
  <1>2. n \in {4, 5} /\ c \in {1, 2} /\ Along(m, n, F, L, w, u, c)
    BY Zenon, <1>1, PathEnds
  <1>3. L[u[k]] = k
    BY Zenon, <1>2 DEF Along
  <1>4. k = b
    BY Zenon, <1>1, <1>3
  <1>5. Reached(m, n, w, c, u)
    BY Zenon DEF Path
  <1>6. Reached(m, n, w, b, u)
    BY <1>1, <1>2, <1>4, <1>5 DEF Reached
  <1>7. b \in 1 .. n /\ s[b] = u[b]
    BY <1>1, <1>2, <1>4
  <1>8. Agree(v, w, s, u, b, n)
    BY Zenon, <1>1, <1>6, <1>7, ReachedSame
  <1> QED BY Zenon, <1>4, <1>8

\* So a path that meets the entry is not beside it.
LEMMA Missed ==
  ASSUME NEW m, NEW n, NEW F, NEW L, NEW v, NEW b, NEW s, Arrives(m, n, F, L, v, b, s),
         NEW w \in Beside(n, v, b), NEW u, NEW c, Path(m, n, w, u, c), NEW k \in c .. n
  PROVE  u[k] # s[b] \/ w[k] # v[b]
  <1> SUFFICES ASSUME u[k] = s[b], w[k] = v[b] PROVE FALSE
    BY Zenon
  <1>1. w \in Indices(n)
    BY Zenon DEF Beside
  <1>2. k = b /\ Agree(v, w, s, u, b, n)
    BY Zenon, <1>1, Meet
  <1>3. PICK j \in b .. n : w[j] # v[j]
    BY Zenon DEF Beside
  <1>4. j # b
    BY Zenon, <1>2, <1>3
  <1>5. n \in {4, 5} /\ b \in {1, 2}
    BY Zenon DEF Arrives, Tree
  <1>6. j \in b + 1 .. n
    BY <1>3, <1>4, <1>5
  <1> QED BY Zenon, <1>2, <1>3, <1>6 DEF Agree

\* A write to the end of a walk leaves the walk.
LEMMA StillArrives ==
  ASSUME NEW m, NEW m2, NEW n, NEW F, NEW L, NEW v, NEW b, NEW s,
         Arrives(m, n, F, L, v, b, s), Tree(m2, n, F, L), Differs(m, m2, s[b], v[b])
  PROVE  Arrives(m2, n, F, L, v, b, s)
  <1>1. /\ Tree(m, n, F, L) /\ v \in Indices(n) /\ b \in {1, 2} /\ Reached(m, n, v, b, s)
        /\ L[s[b]] = b
    BY Zenon DEF Arrives
  <1>2. n \in {4, 5}
    BY Zenon, <1>1 DEF Tree
  <1>3. Reached(m, n, v, 2, s)
    BY <1>1, <1>2 DEF Reached
  <1>4. Placed(F, L, 2, n, s)
    BY <1>1, <1>2, <1>3, ReachedPlaced
  <1>5. \A k \in b + 1 .. n : /\ s[k] \in Frames /\ v[k] \in Idx /\ s[k] # s[b]
                              /\ m[s[k]][v[k]].p /\ s[k - 1] = m[s[k]][v[k]].f
    BY <1>1, <1>2, <1>4 DEF Placed, Indices, Reached
  <1>6. \A k \in b + 1 .. n : m2[s[k]][v[k]] = m[s[k]][v[k]]
    BY <1>5 DEF Differs
  <1>7. Reached(m2, n, v, b, s)
    BY <1>1, <1>5, <1>6 DEF Reached
  <1> QED BY Zenon, <1>7 DEF Arrives

\* It leaves the paths of all pages beside it.
LEMMA OthersSame ==
  ASSUME NEW m, NEW m2, NEW n, NEW F, NEW L, NEW v, NEW b, NEW s,
         Arrives(m, n, F, L, v, b, s), Tree(m2, n, F, L), Differs(m, m2, s[b], v[b])
  PROVE  SameFor(m, m2, n, Beside(n, v, b))
  <1>1. Arrives(m2, n, F, L, v, b, s)
    BY Zenon, StillArrives
  <1>2. Tree(m, n, F, L) /\ n \in {4, 5}
    BY Zenon DEF Arrives, Tree
  <1> SUFFICES ASSUME NEW w \in Beside(n, v, b), NEW u, NEW c
               PROVE  /\ Path(m, n, w, u, c) => /\ Path(m2, n, w, u, c)
                                                /\ Value(m2, n, w, u, c) = Value(m, n, w, u, c)
                      /\ Path(m2, n, w, u, c) => Path(m, n, w, u, c)
    BY Zenon DEF SameFor
  <1>3. w \in Indices(n)
    BY Zenon DEF Beside
  <1>4. ASSUME Path(m, n, w, u, c)
        PROVE  Path(m2, n, w, u, c) /\ Value(m2, n, w, u, c) = Value(m, n, w, u, c)
    <2>1. Along(m, n, F, L, w, u, c)
      BY Zenon, <1>2, <1>3, <1>4, PathEnds
    <2>2. SameAlong(m, m2, n, w, u, c)
      <3> SUFFICES ASSUME NEW k \in c .. n PROVE m2[u[k]][w[k]] = m[u[k]][w[k]]
        BY Zenon DEF SameAlong
      <3>1. u[k] \in Frames /\ w[k] \in Idx
        BY Zenon, <2>1 DEF Along
      <3>2. u[k] # s[b] \/ w[k] # v[b]
        BY <1>4, Missed
      <3> QED BY Zenon, <3>1, <3>2 DEF Differs
    <2> QED BY <1>2, <1>4, <2>2, PathSame
  <1>5. ASSUME Path(m2, n, w, u, c)
        PROVE  Path(m, n, w, u, c)
    <2>1. Along(m2, n, F, L, w, u, c)
      BY Zenon, <1>3, <1>5, PathEnds
    <2>2. SameAlong(m2, m, n, w, u, c)
      <3> SUFFICES ASSUME NEW k \in c .. n PROVE m[u[k]][w[k]] = m2[u[k]][w[k]]
        BY Zenon DEF SameAlong
      <3>1. u[k] \in Frames /\ w[k] \in Idx
        BY Zenon, <2>1 DEF Along
      <3>2. u[k] # s[b] \/ w[k] # v[b]
        BY <1>1, <1>5, Missed
      <3> QED BY Zenon, <3>1, <3>2 DEF Differs
    <2> QED BY <1>2, <1>5, <2>2, PathSame
  <1> QED BY Zenon, <1>4, <1>5

\* The pages that are not beside v have the walk of v down to level b.
With(n, v, b) == {w \in Indices(n) : \A k \in b .. n : w[k] = v[k]}

Match(v, w, l, n) == \A k \in l + 1 .. n : w[k] = v[k]

Equal(s, u, l, n) == \A k \in l .. n : u[k] = s[k]

\* Equal indices lead to equal tables.
LEMMA SameWalk ==
  ASSUME NEW m, NEW n \in {4, 5}, NEW l \in 1 .. n, NEW v, NEW w, NEW s, NEW u,
         Reached(m, n, v, l, s), Reached(m, n, w, l, u), Match(v, w, l, n)
  PROVE  Equal(s, u, l, n)
  <1> DEFINE P(k) == u[k] = s[k]
  <1>1. P(n)
    BY Zenon DEF Reached
  <1>2. ASSUME NEW k \in l + 1 .. n, P(k) PROVE P(k - 1)
    <2>1. s[k - 1] = m[s[k]][v[k]].f /\ u[k - 1] = m[u[k]][w[k]].f /\ w[k] = v[k]
      BY DEF Reached, Match
    <2> QED BY Zenon, <1>2, <2>1
  <1>3. \A k \in l + 1 .. n : P(k) => P(k - 1)
    BY Zenon, <1>2
  <1> HIDE DEF P
  <1>4. \A k \in l .. n : P(k)
    BY <1>1, <1>3
  <1> QED BY Zenon, <1>4 DEF P, Equal

Leaf(e, b, rw, f) == e.p /\ (e.ps <=> b = 2) /\ e.rw = rw /\ e.f = f

\* With four levels the permission of a page is that of its last entry.
LEMMA LeafMaps ==
  ASSUME NEW m, NEW F, NEW L, NEW v, NEW b, NEW s, Arrives(m, 4, F, L, v, b, s),
         NEW f, NEW rw \in BOOLEAN, Leaf(m[s[b]][v[b]], b, rw, f),
         NEW w \in With(4, v, b),
         NEW r, r = [frame |-> IF b = 2 THEN f + w[1] ELSE f, rw |-> rw]
  PROVE  Path(m, 4, w, s, b) /\ HasValue(m, 4, w, s, b, r)
  <1>1. /\ Tree(m, 4, F, L) /\ v \in Indices(4) /\ b \in {1, 2} /\ Reached(m, 4, v, b, s)
        /\ s[b] \notin Given
    BY Zenon DEF Arrives
  <1>2. w \in Indices(4) /\ \A k \in b .. 4 : w[k] = v[k]
    BY Zenon DEF With
  <1>3. Reached(m, 4, w, b, s)
    <2>1. \A k \in b + 1 .. 4 : w[k] = v[k]
      BY <1>1, <1>2
    <2> QED BY Zenon, <1>1, <2>1 DEF Reached
  <1>4. m[s[b]][w[b]] = m[s[b]][v[b]]
    <2>1. w[b] = v[b]
      BY <1>1, <1>2
    <2> QED BY Zenon, <2>1
  <1>5. /\ m[s[b]][w[b]].p /\ (m[s[b]][w[b]].ps <=> b = 2) /\ m[s[b]][w[b]].rw = rw
        /\ m[s[b]][w[b]].f = f
    BY Zenon, <1>4 DEF Leaf
  <1>6. b = 1 => ~m[s[2]][w[2]].ps
    <2> SUFFICES ASSUME b = 1 PROVE ~m[s[2]][w[2]].ps
      BY Zenon
    <2>1. Reached(m, 4, w, 1, s)
      BY Zenon, <1>3
    <2>2. EndOf(m, 4, F, L, w, s)
      BY Zenon, <1>1, <1>2, <2>1, EndOfWalk
    <2> QED BY Zenon, <1>1, <2>2 DEF EndOf
  <1>7. m[s[2]][w[2]].ps <=> b = 2
    BY <1>1, <1>5, <1>6
  <1>8. Path(m, 4, w, s, b)
    BY Zenon, <1>1, <1>3, <1>5, <1>7 DEF Path
  <1>9. Along(m, 4, F, L, w, s, b)
    BY Zenon, <1>1, <1>2, <1>8, PathEnds
  <1>10. ASSUME NEW k \in b + 1 .. 4 PROVE m[s[k]][w[k]].rw
    <2>1. k \in b .. 4 /\ k - 1 \in b .. 4
      BY <1>1
    <2>2. /\ s[k] \in Frames /\ w[k] \in Idx /\ m[s[k]][w[k]].p /\ s[k - 1] \notin Given
          /\ s[k - 1] = m[s[k]][w[k]].f
      BY Zenon, <1>3, <1>9, <2>1 DEF Along, Reached
    <2> QED BY <1>1, <2>2 DEF Tree, Links
  <1>11. (\A k \in b .. 4 : m[s[k]][w[k]].rw) <=> rw
    <2>1. b \in b .. 4 /\ \A k \in b .. 4 : k = b \/ k \in b + 1 .. 4
      BY <1>1
    <2> QED BY Zenon, <1>5, <1>10, <2>1
  <1>12. (\A k \in b .. 4 : m[s[k]][w[k]].rw) = rw
    BY ZenonT(40), <1>11
  <1>13. Value(m, 4, w, s, b) = [frame |-> IF b = 2 THEN f + w[1] ELSE f, rw |-> rw]
    BY ZenonT(40), <1>1, <1>5, <1>12 DEF Value
  <1> QED BY Zenon, <1>8, <1>13 DEF HasValue

\* Nothing is mapped by an entry that is absent.
LEMMA ClearMaps ==
  ASSUME NEW m, NEW n, NEW F, NEW L, NEW v, NEW b, NEW s, Arrives(m, n, F, L, v, b, s),
         ~m[s[b]][v[b]].p, NEW w \in With(n, v, b), NEW u, NEW c
  PROVE  ~Path(m, n, w, u, c)
  <1> SUFFICES ASSUME Path(m, n, w, u, c) PROVE FALSE
    BY Zenon
  <1>1. /\ Tree(m, n, F, L) /\ v \in Indices(n) /\ b \in {1, 2} /\ Reached(m, n, v, b, s)
        /\ s[b] \notin Given
    BY Zenon DEF Arrives
  <1>2. w \in Indices(n) /\ \A k \in b .. n : w[k] = v[k]
    BY Zenon DEF With
  <1>3. n \in {4, 5} /\ c \in {1, 2} /\ Along(m, n, F, L, w, u, c)
    BY Zenon, <1>1, <1>2, PathEnds
  <1>4. Reached(m, n, w, c, u) /\ (m[u[2]][w[2]].ps <=> c = 2)
    BY Zenon DEF Path
  <1>5. Reached(m, n, v, 2, s) /\ Reached(m, n, w, 2, u)
    <2>1. Reached(m, n, v, 2, s)
      BY <1>1, <1>3 DEF Reached
    <2>2. Reached(m, n, w, 2, u)
      BY <1>3, <1>4 DEF Reached
    <2> QED BY Zenon, <2>1, <2>2
  <1>6. \A k \in 2 .. n : u[k] = s[k]
    <2>1. Match(v, w, 2, n) /\ 2 \in 1 .. n
      BY <1>1, <1>2, <1>3 DEF Match
    <2>2. Equal(s, u, 2, n)
      BY Zenon, <1>3, <1>5, <2>1, SameWalk
    <2> QED BY Zenon, <2>2 DEF Equal
  <1>7. CASE b = 2
    BY <1>1, <1>2, <1>3, <1>6, <1>7 DEF Along
  <1>8. CASE b = 1
    <2>1. ~m[s[2]][v[2]].ps
      <3>1. EndOf(m, n, F, L, v, s)
        BY Zenon, <1>1, <1>8, EndOfWalk
      <3> QED BY Zenon, <1>1, <1>8, <3>1 DEF EndOf
    <2>2. c = 1
      BY <1>2, <1>3, <1>4, <1>6, <1>8, <2>1
    <2>3. Reached(m, n, v, 1, s) /\ Reached(m, n, w, 1, u)
      BY Zenon, <1>1, <1>4, <1>8, <2>2
    <2>4. u[1] = s[1]
      <3>1. Match(v, w, 1, n) /\ 1 \in 1 .. n
        BY <1>2, <1>3, <1>8 DEF Match
      <3>2. Equal(s, u, 1, n)
        BY Zenon, <1>3, <2>3, <3>1, SameWalk
      <3> QED BY Zenon, <3>1, <3>2 DEF Equal
    <2> QED BY <1>2, <1>3, <1>8, <2>2, <2>4 DEF Along
  <1> QED BY Zenon, <1>1, <1>7, <1>8

-----------------------------------------------------------------------------
(* The hardware's walk and its translation, for a memory m.                *)

Step(m, t, i) == IF t # NoTable /\ m[t][i].p THEN m[t][i].f ELSE NoTable

\* The tables of the walk, level by level.
IsWalk(m, n, v, W) ==
  /\ W[n] = Root
  /\ \A l \in 2 .. n - 1 : W[l] = Step(m, W[l + 1], v[l + 1])
  /\ W[1] = IF W[2] # NoTable /\ m[W[2]][v[2]].ps THEN NoTable ELSE Step(m, W[2], v[2])

Translated(m, n, v, W) ==
  LET low == Step(m, W[2], v[2])
      rw == \A l \in 2 .. n : m[W[l]][v[l]].rw
  IN  IF low = NoTable THEN Absent
      ELSE IF m[W[2]][v[2]].ps THEN [frame |-> low + v[1], rw |-> rw]
      ELSE IF ~m[low][v[1]].p THEN Absent
      ELSE [frame |-> m[low][v[1]].f, rw |-> rw /\ m[low][v[1]].rw]

\* The mark for a missing table is no frame.
LEMMA NotTable == NoTable \notin Frames
  BY PagingAssumption DEF NoTable, Frames

WalkOf(m, n, v) ==
  LET t[l \in 1 .. n] ==
        IF l = n THEN Root
        ELSE IF l = 1 /\ t[2] # NoTable /\ m[t[2]][v[2]].ps THEN NoTable
        ELSE Step(m, t[l + 1], v[l + 1])
  IN  t

\* The recursive function computes the walk, for four levels.
LEMMA Walks4 == ASSUME NEW m, NEW v PROVE IsWalk(m, 4, v, WalkOf(m, 4, v))
  <1> DEFINE R(t) == [l \in 1 .. 4 |->
                        IF l = 4 THEN Root
                        ELSE IF l = 1 /\ t[2] # NoTable /\ m[t[2]][v[2]].ps THEN NoTable
                        ELSE Step(m, t[l + 1], v[l + 1])]
             c == Step(m, Root, v[4])
             b == Step(m, c, v[3])
             a == IF b # NoTable /\ m[b][v[2]].ps THEN NoTable ELSE Step(m, b, v[2])
             w == [l \in 1 .. 4 |-> IF l = 4 THEN Root ELSE IF l = 3 THEN c
                                    ELSE IF l = 2 THEN b ELSE a]
  <1>1. w = R(w)
    <2>1. w[4] = Root /\ w[3] = c /\ w[2] = b /\ w[1] = a
      OBVIOUS
    <2> SUFFICES ASSUME NEW l \in 1 .. 4 PROVE w[l] = R(w)[l]
      BY Zenon
    <2>2. l = 1 \/ l = 2 \/ l = 3 \/ l = 4
      OBVIOUS
    <2> HIDE DEF a, b, c
    <2>3. l = 1 => w[l] = R(w)[l]
      BY <2>1 DEF a
    <2>4. l = 2 => w[l] = R(w)[l]
      BY <2>1 DEF b
    <2>5. l = 3 => w[l] = R(w)[l]
      BY <2>1 DEF c
    <2>6. l = 4 => w[l] = R(w)[l]
      BY <2>1
    <2> QED BY Zenon, <2>2, <2>3, <2>4, <2>5, <2>6
  <1>2. WalkOf(m, 4, v) = CHOOSE t : t = R(t)
    BY DEF WalkOf
  <1>3. PICK t : t = WalkOf(m, 4, v) /\ t = R(t)
    BY Zenon, <1>1, <1>2
  <1>4. /\ t[4] = Root /\ t[3] = Step(m, t[4], v[4]) /\ t[2] = Step(m, t[3], v[3])
        /\ t[1] = IF t[2] # NoTable /\ m[t[2]][v[2]].ps THEN NoTable ELSE Step(m, t[2], v[2])
    BY SMTT(40), <1>3
  <1>5. IsWalk(m, 4, v, t)
    <2>1. ASSUME NEW l \in 2 .. 3 PROVE t[l] = Step(m, t[l + 1], v[l + 1])
      <3>1. l = 2 \/ l = 3
        OBVIOUS
      <3> QED BY <1>4, <3>1
    <2>2. \A l \in 2 .. 4 - 1 : t[l] = Step(m, t[l + 1], v[l + 1])
      BY <2>1
    <2> QED BY Zenon, <1>4, <2>2 DEF IsWalk
  <1> QED BY Zenon, <1>3, <1>5

\* And for five.
LEMMA Walks5 == ASSUME NEW m, NEW v PROVE IsWalk(m, 5, v, WalkOf(m, 5, v))
  <1> DEFINE R(t) == [l \in 1 .. 5 |->
                        IF l = 5 THEN Root
                        ELSE IF l = 1 /\ t[2] # NoTable /\ m[t[2]][v[2]].ps THEN NoTable
                        ELSE Step(m, t[l + 1], v[l + 1])]
             d == Step(m, Root, v[5])
             c == Step(m, d, v[4])
             b == Step(m, c, v[3])
             a == IF b # NoTable /\ m[b][v[2]].ps THEN NoTable ELSE Step(m, b, v[2])
             w == [l \in 1 .. 5 |-> IF l = 5 THEN Root ELSE IF l = 4 THEN d
                                    ELSE IF l = 3 THEN c ELSE IF l = 2 THEN b ELSE a]
  <1>1. w = R(w)
    <2> HIDE DEF a, b, c, d
    <2>1. w[5] = Root /\ w[4] = d /\ w[3] = c /\ w[2] = b /\ w[1] = a
      OBVIOUS
    <2> SUFFICES ASSUME NEW l \in 1 .. 5 PROVE w[l] = R(w)[l]
      BY Zenon
    <2>2. l = 1 \/ l = 2 \/ l = 3 \/ l = 4 \/ l = 5
      OBVIOUS
    <2>3. l = 1 => w[l] = R(w)[l]
      BY SMTT(40), <2>1 DEF a
    <2>4. l = 2 => w[l] = R(w)[l]
      BY <2>1 DEF b
    <2>5. l = 3 => w[l] = R(w)[l]
      BY <2>1 DEF c
    <2>6. l = 4 => w[l] = R(w)[l]
      BY <2>1 DEF d
    <2>7. l = 5 => w[l] = R(w)[l]
      BY <2>1
    <2> QED BY Zenon, <2>2, <2>3, <2>4, <2>5, <2>6, <2>7
  <1>2. WalkOf(m, 5, v) = CHOOSE t : t = R(t)
    BY DEF WalkOf
  <1>3. PICK t : t = WalkOf(m, 5, v) /\ t = R(t)
    BY Zenon, <1>1, <1>2
  <1>4. /\ t[5] = Root /\ t[4] = Step(m, t[5], v[5])
        /\ t[3] = Step(m, t[4], v[4]) /\ t[2] = Step(m, t[3], v[3])
        /\ t[1] = IF t[2] # NoTable /\ m[t[2]][v[2]].ps THEN NoTable ELSE Step(m, t[2], v[2])
    BY <1>3
  <1>5. IsWalk(m, 5, v, t)
    <2>1. ASSUME NEW l \in 2 .. 4 PROVE t[l] = Step(m, t[l + 1], v[l + 1])
      <3>1. l = 2 \/ l = 3 \/ l = 4
        OBVIOUS
      <3> QED BY <1>4, <3>1
    <2>2. \A l \in 2 .. 5 - 1 : t[l] = Step(m, t[l + 1], v[l + 1])
      BY <2>1
    <2> QED BY Zenon, <1>4, <2>2 DEF IsWalk
  <1> QED BY Zenon, <1>3, <1>5

\* What the walk finds is reached, with no large page in the way.
LEMMA WalkReaches ==
  ASSUME NEW m, NEW n \in {4, 5}, NEW v, NEW W, IsWalk(m, n, v, W),
         NEW l \in 1 .. n, W[l] # NoTable
  PROVE  Reached(m, n, v, l, W) /\ (l = 1 => ~m[W[2]][v[2]].ps)
  <1> DEFINE P(k) == W[k] # NoTable
             Q(k) == m[W[k]][v[k]].p /\ W[k - 1] = m[W[k]][v[k]].f
  <1>1. ASSUME NEW k \in 2 .. n, P(k - 1) PROVE P(k) /\ Q(k)
    <2>1. CASE k = 2
      BY <1>1, <2>1 DEF IsWalk, Step
    <2>2. CASE k # 2
      <3>1. k - 1 \in 2 .. n - 1 /\ k - 1 + 1 = k
        BY <2>2
      <3>2. W[k - 1] = Step(m, W[k], v[k])
        BY <3>1 DEF IsWalk
      <3> QED BY Zenon, <1>1, <3>2 DEF Step
    <2> QED BY Zenon, <2>1, <2>2
  <1>2. \A k \in 2 .. n : P(k - 1) => P(k) /\ Q(k)
    BY Zenon, <1>1
  <1>3. P(l)
    OBVIOUS
  <1>4. l = 1 => ~m[W[2]][v[2]].ps
    <2>1. 2 \in 2 .. n /\ 2 - 1 = 1
      OBVIOUS
    <2>2. P(1) => P(2)
      BY <1>2, <2>1
    <2> QED BY <2>2 DEF IsWalk
  <1> HIDE DEF P, Q
  <1>5. \A k \in l + 1 .. n : Q(k)
    BY <1>2, <1>3
  <1>6. Reached(m, n, v, l, W)
    BY Zenon, <1>5 DEF Q, Reached, IsWalk
  <1> QED BY Zenon, <1>4, <1>6

\* What is reached, with no large page in the way, the walk finds.
LEMMA WalkFinds ==
  ASSUME NEW m, NEW n, NEW F, NEW L, Tree(m, n, F, L), NEW v \in Indices(n), NEW W,
         IsWalk(m, n, v, W), NEW l \in 1 .. n, NEW s, Reached(m, n, v, l, s),
         l = 1 => ~m[s[2]][v[2]].ps
  PROVE  \A k \in l .. n : W[k] = s[k]
  <1>0. n \in {4, 5}
    BY Zenon DEF Tree
  <1> DEFINE P(k) == W[k] = s[k]
  <1>1. P(n)
    BY Zenon DEF IsWalk, Reached
  <1>2. ASSUME NEW k \in l + 1 .. n, P(k) PROVE P(k - 1)
    <2>1. m[s[k]][v[k]].p /\ s[k - 1] = m[s[k]][v[k]].f
      BY DEF Reached
    <2>2. k \in 2 .. n
      BY <1>0
    <2>3. Reached(m, n, v, k, s)
      BY <1>0 DEF Reached
    <2>4. s[k] \in Frames
      BY <1>0, <2>2, <2>3, ReachedPlaced DEF Placed
    <2>5. Step(m, W[k], v[k]) = s[k - 1]
      BY Zenon, <1>2, <2>1, <2>4, NotTable DEF Step
    <2>6. CASE k = 2
      <3>1. l = 1
        BY <2>6
      <3>2. W[1] = Step(m, W[2], v[2])
        BY Zenon, <1>2, <2>6, <3>1 DEF IsWalk
      <3> QED BY <2>5, <2>6, <3>2
    <2>7. CASE k # 2
      <3>1. k - 1 \in 2 .. n - 1 /\ k - 1 + 1 = k
        BY <1>0, <2>2, <2>7
      <3>2. W[k - 1] = Step(m, W[k], v[k])
        BY <3>1 DEF IsWalk
      <3> QED BY Zenon, <2>5, <3>2
    <2> QED BY Zenon, <2>6, <2>7
  <1>3. \A k \in l + 1 .. n : P(k) => P(k - 1)
    BY Zenon, <1>2
  <1> HIDE DEF P
  <1>4. \A k \in l .. n : P(k)
    BY <1>0, <1>1, <1>3
  <1> QED BY Zenon, <1>4 DEF P

\* The hardware translates a page to what its path maps it to.
LEMMA TranslatesPath ==
  ASSUME NEW m, NEW n, NEW F, NEW L, Tree(m, n, F, L), NEW v \in Indices(n), NEW W,
         IsWalk(m, n, v, W), NEW s, NEW b, Path(m, n, v, s, b)
  PROVE  Translated(m, n, v, W) = Value(m, n, v, s, b)
  <1>1. n \in {4, 5} /\ b \in {1, 2} /\ Along(m, n, F, L, v, s, b)
    BY Zenon, PathEnds
  <1>2. Reached(m, n, v, b, s) /\ m[s[b]][v[b]].p /\ (m[s[2]][v[2]].ps <=> b = 2)
    BY Zenon DEF Path
  <1>3. Reached(m, n, v, 2, s) /\ 2 \in 1 .. n /\ 2 # 1
    BY SMTT(40), <1>1, <1>2 DEF Reached
  <1>4. \A k \in 2 .. n : W[k] = s[k]
    BY SMTT(40), <1>3, WalkFinds
  <1>5. W[2] = s[2] /\ s[2] \in Frames /\ v[2] \in Idx /\ m[s[2]][v[2]].p
    BY <1>1, <1>4 DEF Along
  <1>6. m[s[2]][v[2]] \in Entries
    BY SMTT(40), <1>5 DEF Tree, Memories
  <1>7. m[s[2]][v[2]].f \in Frames
    BY <1>6 DEF Entries
  <1> DEFINE low == Step(m, W[2], v[2])
             rw == \A l \in 2 .. n : m[W[l]][v[l]].rw
  <1>8. low = m[s[2]][v[2]].f /\ low # NoTable
    BY Zenon, <1>5, <1>7, NotTable DEF Step
  <1>9. rw = \A l \in 2 .. n : m[s[l]][v[l]].rw
    BY <1>4
  <1> HIDE DEF rw, low
  <1>10. CASE b = 2
    <2>1. Translated(m, n, v, W) = [frame |-> low + v[1], rw |-> rw]
      BY Zenon, <1>2, <1>5, <1>8, <1>10 DEF Translated, rw, low
    <2>2. Value(m, n, v, s, b) = [frame |-> m[s[2]][v[2]].f + v[1],
                                  rw |-> \A k \in 2 .. n : m[s[k]][v[k]].rw]
      BY Zenon, <1>10 DEF Value
    <2> QED BY Zenon, <1>8, <1>9, <2>1, <2>2
  <1>11. CASE b = 1
    <2>1. s[1] = low /\ m[low][v[1]].p
      <3>1. 2 \in b + 1 .. n /\ 2 - 1 = 1
        BY <1>1, <1>11
      <3>2. s[2 - 1] = m[s[2]][v[2]].f
        BY Zenon, <1>2, <3>1 DEF Reached
      <3>3. s[1] = low
        BY <1>8, <3>2
      <3> QED BY Zenon, <1>2, <1>11, <3>3
    <2>2. Translated(m, n, v, W) = [frame |-> m[low][v[1]].f, rw |-> rw /\ m[low][v[1]].rw]
      <3>1. ~m[W[2]][v[2]].ps
        BY SMTT(40), <1>2, <1>5, <1>11
      <3>2. Translated(m, n, v, W) =
              IF low = NoTable THEN Absent
              ELSE IF m[W[2]][v[2]].ps THEN [frame |-> low + v[1], rw |-> rw]
              ELSE IF ~m[low][v[1]].p THEN Absent
              ELSE [frame |-> m[low][v[1]].f, rw |-> rw /\ m[low][v[1]].rw]
        BY Zenon DEF Translated, rw, low
      <3> QED BY Zenon, <1>8, <2>1, <3>1, <3>2
    <2>3. (\A k \in 1 .. n : m[s[k]][v[k]].rw) = (rw /\ m[low][v[1]].rw)
      <3>1. 1 \in 1 .. n /\ \A k \in 1 .. n : k = 1 \/ k \in 2 .. n
        BY <1>1
      <3>2. \A k \in 2 .. n : k \in 1 .. n
        BY <1>1
      <3>3. (\A k \in 1 .. n : m[s[k]][v[k]].rw) <=> (rw /\ m[low][v[1]].rw)
        BY Zenon, <1>9, <2>1, <3>1, <3>2
      <3> QED BY ZenonT(40), <1>9, <3>3
    <2>4. Value(m, n, v, s, b) = [frame |-> m[s[1]][v[1]].f,
                                  rw |-> \A k \in 1 .. n : m[s[k]][v[k]].rw]
      BY SMTT(40), <1>11 DEF Value
    <2> QED BY Zenon, <2>1, <2>2, <2>3, <2>4
  <1> QED BY Zenon, <1>1, <1>10, <1>11

\* It translates a page without one to nothing.
Unmapped(m, n, v) == \A s, b : ~Path(m, n, v, s, b)

\* A page without a path is not translated.
LEMMA TranslatesNot ==
  ASSUME NEW m, NEW n, NEW F, NEW L, Tree(m, n, F, L), NEW v, NEW W,
         IsWalk(m, n, v, W), Unmapped(m, n, v)
  PROVE  Translated(m, n, v, W) = Absent
  <1>0. n \in {4, 5}
    BY Zenon DEF Tree
  <1> DEFINE low == Step(m, W[2], v[2])
  <1>1. low = NoTable \/ (~m[W[2]][v[2]].ps /\ ~m[low][v[1]].p)
    <2> SUFFICES ASSUME low # NoTable, m[W[2]][v[2]].ps \/ m[low][v[1]].p PROVE FALSE
      BY Zenon
    <2>1. W[2] # NoTable /\ m[W[2]][v[2]].p /\ low = m[W[2]][v[2]].f
      BY Zenon DEF Step
    <2>2. Reached(m, n, v, 2, W)
      <3>1. 2 \in 1 .. n
        BY SMTT(40), <1>0
      <3> QED BY Zenon, <1>0, <2>1, <3>1, WalkReaches
    <2>3. CASE m[W[2]][v[2]].ps
      <3>1. Path(m, n, v, W, 2)
        BY Zenon, <2>1, <2>2, <2>3 DEF Path
      <3> QED BY Zenon, <3>1 DEF Unmapped
    <2>4. CASE ~m[W[2]][v[2]].ps
      <3>1. W[1] = low
        BY Zenon, <2>4 DEF IsWalk
      <3>2. W[1] # NoTable /\ m[W[1]][v[1]].p
        BY Zenon, <2>4, <3>1
      <3>3. Reached(m, n, v, 1, W)
        <4>1. 1 \in 1 .. n
          BY <1>0
        <4> QED BY Zenon, <1>0, <3>2, <4>1, WalkReaches
      <3>4. 1 \in {1, 2} /\ 1 # 2
        OBVIOUS
      <3>5. Path(m, n, v, W, 1)
        BY Zenon, <2>4, <3>2, <3>3, <3>4 DEF Path
      <3> QED BY Zenon, <3>5 DEF Unmapped
    <2> QED BY Zenon, <2>3, <2>4
  <1> QED BY Zenon, <1>1 DEF Translated

\* A page that is mapped as before is translated as before.
LEMMA TranslatesSame ==
  ASSUME NEW m, NEW m2, NEW n, NEW F, NEW L, NEW F2, NEW L2, NEW V, NEW w \in V,
         Tree(m, n, F, L), Tree(m2, n, F2, L2), w \in Indices(n), SameFor(m, m2, n, V),
         NEW W, NEW W2, IsWalk(m, n, w, W), IsWalk(m2, n, w, W2)
  PROVE  Translated(m2, n, w, W2) = Translated(m, n, w, W)
  <1>1. CASE Unmapped(m, n, w)
    <2>1. Unmapped(m2, n, w)
      BY Zenon, <1>1 DEF Unmapped, SameFor
    <2>2. Translated(m, n, w, W) = Absent
      BY Zenon, <1>1, TranslatesNot
    <2>3. Translated(m2, n, w, W2) = Absent
      BY Zenon, <2>1, TranslatesNot
    <2> QED BY Zenon, <2>2, <2>3
  <1>2. CASE ~Unmapped(m, n, w)
    <2>1. PICK s, b : Path(m, n, w, s, b)
      BY Zenon, <1>2 DEF Unmapped
    <2>2. Path(m2, n, w, s, b) /\ Value(m2, n, w, s, b) = Value(m, n, w, s, b)
      BY Zenon, <2>1 DEF SameFor
    <2>3. Translated(m, n, w, W) = Value(m, n, w, s, b)
      BY Zenon, <2>1, TranslatesPath
    <2>4. Translated(m2, n, w, W2) = Value(m2, n, w, s, b)
      BY Zenon, <2>2, TranslatesPath
    <2> QED BY Zenon, <2>2, <2>3, <2>4
  <1> QED BY Zenon, <1>1, <1>2

-----------------------------------------------------------------------------
(* The descent of map_page.                                                *)

\* The levels below l that the walk W does not reach.
Missing(W, l) == {k \in 1 .. l - 1 : W[k] = NoTable}

\* Entries that are present in m stay as they are.
Kept(m, m2) == \A t \in Frames, i \in Idx : m[t][i].p => m2[t][i] = m[t][i]

\* The record at stands at level l of the walk of v: tables were added to m
\* on the way, where the walk W of m ended, and there are frames for the rest.
Stands(n, L, v, l, at, s) ==
  /\ Tree(at.mem, n, at.free, L) /\ Reached(at.mem, n, v, l, s) /\ s[l] = at.t

Got(m, n, v, W, l, at) ==
  /\ at \in [t : Frames, mem : Memories, free : SUBSET Frames]
  /\ \E L, s : Stands(n, L, v, l, at, s)
  /\ SameFor(m, at.mem, n, Indices(n)) /\ Kept(m, at.mem)
  /\ Cardinality(at.free) >= Cardinality(Missing(W, l))
  /\ \/ at.mem = m /\ W[l] = at.t
     \/ W[l] = NoTable /\ Blank(at.mem, at.t)

(***************************************************************************)
(* What the descent needs to know about the number of frames and levels,   *)
(* and about the least free frame.  It is proved at the end (FramesCount), *)
(* from the library's theorems on finite sets.                             *)
(***************************************************************************)
Countable(S) ==
  /\ Cardinality(S) \in Nat
  /\ S = {} => Cardinality(S) = 0
  /\ \A x \in S : Cardinality(S \ {x}) = Cardinality(S) - 1

Counts(U) == \A S \in SUBSET U : Countable(S)

HasLeast(U) == \A S \in SUBSET U : S # {} => \E n \in S : \A k \in S : n <= k

Counted == Counts(Frames) /\ Counts(1 .. 5) /\ HasLeast(Frames)

\* pmm_alloc returns a free frame if there is one.
LEMMA LeastFree ==
  ASSUME Counted, NEW F \in SUBSET Frames, F # {}
  PROVE  (CHOOSE n \in F : \A k \in F : n <= k) \in F
  <1>1. \E n \in F : \A k \in F : n <= k
    BY Zenon DEF Counted, HasLeast
  <1> QED BY Zenon, <1>1

\* One level down, there is one table less to make if the table was missing.
LEMMA MissingStep ==
  ASSUME Counted, NEW n \in {4, 5}, NEW W, NEW l \in 2 .. n
  PROVE  /\ W[l - 1] = NoTable => Cardinality(Missing(W, l)) = Cardinality(Missing(W, l - 1)) + 1
         /\ Cardinality(Missing(W, l - 1)) <= Cardinality(Missing(W, l))
         /\ Cardinality(Missing(W, l - 1)) \in Nat /\ Cardinality(Missing(W, l)) \in Nat
  <1>1. Missing(W, l) \in SUBSET (1 .. 5) /\ Missing(W, l - 1) \in SUBSET (1 .. 5)
    BY DEF Missing
  <1>2. /\ Cardinality(Missing(W, l - 1)) \in Nat /\ Cardinality(Missing(W, l)) \in Nat
        /\ \A x \in Missing(W, l) :
             Cardinality(Missing(W, l) \ {x}) = Cardinality(Missing(W, l)) - 1
    BY Zenon, <1>1 DEF Counted, Counts, Countable
  <1>3. CASE W[l - 1] = NoTable
    <2>1. l - 1 \in Missing(W, l) /\ Missing(W, l) \ {l - 1} = Missing(W, l - 1)
      BY <1>3 DEF Missing
    <2>2. Cardinality(Missing(W, l - 1)) = Cardinality(Missing(W, l)) - 1
      BY Zenon, <1>2, <2>1
    <2> QED BY <1>2, <2>2
  <1>4. CASE W[l - 1] # NoTable
    <2>1. Missing(W, l) = Missing(W, l - 1)
      BY <1>4 DEF Missing
    <2> QED BY <1>2, <1>4, <2>1
  <1> QED BY Zenon, <1>3, <1>4

\* The walk ends where the entry is absent.
LEMMA WalkEnds ==
  ASSUME NEW m, NEW n \in {4, 5}, NEW v, NEW W, IsWalk(m, n, v, W), NEW l \in 2 .. n,
         W[l] = NoTable \/ ~m[W[l]][v[l]].p
  PROVE  W[l - 1] = NoTable
  <1>1. CASE l = 2
    <2>1. Step(m, W[2], v[2]) = NoTable
      BY <1>1 DEF Step
    <2> QED BY <1>1, <2>1 DEF IsWalk
  <1>2. CASE l # 2
    <2>1. l - 1 \in 2 .. n - 1 /\ l - 1 + 1 = l
      BY <1>2
    <2>2. W[l - 1] = Step(m, W[l], v[l])
      BY <2>1 DEF IsWalk
    <2> QED BY Zenon, <2>2 DEF Step
  <1> QED BY Zenon, <1>1, <1>2

\* An update of one entry is a write.
LEMMA WriteIs ==
  ASSUME NEW m \in Memories, NEW t \in Frames, NEW i \in Idx, NEW e \in Entries
  PROVE  Writes(m, [m EXCEPT ![t][i] = e], t, i, e)
  BY DEF Memories, Writes

\* Nothing has changed at first.
LEMMA SameSelf == ASSUME NEW m, NEW n, NEW V PROVE SameFor(m, m, n, V) /\ Kept(m, m)
  BY Zenon DEF SameFor, Kept

\* What two changes leave alone, both together leave alone.
LEMMA SameTwice ==
  ASSUME NEW m, NEW m2, NEW m3, NEW n, NEW V, NEW U, SameFor(m, m2, n, V), SameFor(m2, m3, n, U),
         U \subseteq V
  PROVE  SameFor(m, m3, n, U)
  <1> SUFFICES ASSUME NEW w \in U, NEW s, NEW b
               PROVE  /\ Path(m, n, w, s, b) => /\ Path(m3, n, w, s, b)
                                                /\ Value(m3, n, w, s, b) = Value(m, n, w, s, b)
                      /\ Path(m3, n, w, s, b) => Path(m, n, w, s, b)
    BY Zenon DEF SameFor
  <1>1. /\ Path(m, n, w, s, b) => /\ Path(m2, n, w, s, b)
                                  /\ Value(m2, n, w, s, b) = Value(m, n, w, s, b)
        /\ Path(m2, n, w, s, b) => Path(m, n, w, s, b)
    BY Zenon DEF SameFor
  <1>2. /\ Path(m2, n, w, s, b) => /\ Path(m3, n, w, s, b)
                                   /\ Value(m3, n, w, s, b) = Value(m2, n, w, s, b)
        /\ Path(m3, n, w, s, b) => Path(m2, n, w, s, b)
    BY Zenon DEF SameFor
  <1> QED BY Zenon, <1>1, <1>2

\* A walk goes one level further.
Further(n, s, l, f) == [k \in 1 .. n |-> IF k = l - 1 THEN f ELSE s[k]]

GoesOn(m, n, v, l, f) == \E u : Reached(m, n, v, l, u) /\ u[l] = f

\* A walk that is at a present entry goes on to the table it points to.
LEMMA ReachedFurther ==
  ASSUME NEW m, NEW n \in {4, 5}, NEW v, NEW l \in 2 .. n, NEW s, Reached(m, n, v, l, s),
         NEW f, m[s[l]][v[l]].p, m[s[l]][v[l]].f = f
  PROVE  GoesOn(m, n, v, l - 1, f)
  <1> DEFINE u == Further(n, s, l, f)
  <1>1. u[l - 1] = f /\ \A k \in l .. n : u[k] = s[k]
    BY DEF Further
  <1> HIDE DEF u
  <1>2. s[n] = Root /\ \A k \in l + 1 .. n : m[s[k]][v[k]].p /\ s[k - 1] = m[s[k]][v[k]].f
    BY Zenon DEF Reached
  <1>3. u[n] = Root
    BY <1>1, <1>2
  <1>4. ASSUME NEW k \in l - 1 + 1 .. n PROVE m[u[k]][v[k]].p /\ u[k - 1] = m[u[k]][v[k]].f
    <2>1. CASE k = l
      BY SMTT(40), <1>1, <2>1
    <2>2. CASE k # l
      <3>1. k \in l + 1 .. n /\ k \in l .. n /\ k - 1 \in l .. n
        BY <2>2
      <3>2. u[k] = s[k] /\ u[k - 1] = s[k - 1]
        BY Zenon, <1>1, <3>1
      <3> QED BY Zenon, <1>2, <3>1, <3>2
    <2> QED BY Zenon, <2>1, <2>2
  <1>5. Reached(m, n, v, l - 1, u)
    BY Zenon, <1>3, <1>4 DEF Reached
  <1> QED BY Zenon, <1>1, <1>5 DEF GoesOn

\* The descent follows an entry that is present.
LEMMA GotPresent ==
  ASSUME Counted, NEW m, NEW n \in {4, 5}, NEW v \in Indices(n), NEW W, IsWalk(m, n, v, W),
         NEW l \in 2 .. n, NEW at, Got(m, n, v, W, l, at), at.mem[at.t][v[l]].p
  PROVE  Got(m, n, v, W, l - 1, [at EXCEPT !.t = at.mem[at.t][v[l]].f])
  <1> DEFINE f == at.mem[at.t][v[l]].f
             to == [at EXCEPT !.t = f]
  <1>1. at \in [t : Frames, mem : Memories, free : SUBSET Frames] /\ v[l] \in Idx
    BY SMTT(40) DEF Got, Indices
  <1>2. PICK L, s : Stands(n, L, v, l, at, s)
    BY Zenon DEF Got
  <1>3. /\ Tree(at.mem, n, at.free, L) /\ Reached(at.mem, n, v, l, s) /\ s[l] = at.t
        /\ at.mem[s[l]][v[l]].p /\ at.mem[s[l]][v[l]].f = f
    BY Zenon, <1>2 DEF Stands
  <1>4. at.t \in Frames /\ at.mem \in Memories /\ at.free \in SUBSET Frames
    BY <1>1
  <1>5. at.mem[at.t][v[l]] \in Entries
    BY SMTT(40), <1>1, <1>4 DEF Memories
  <1>6. f \in Frames
    BY <1>5 DEF Entries
  <1>7. /\ to \in [t : Frames, mem : Memories, free : SUBSET Frames]
        /\ to.t = f /\ to.mem = at.mem /\ to.free = at.free
    BY <1>1, <1>6
  <1> HIDE DEF f
  <1>8. PICK u : Reached(at.mem, n, v, l - 1, u) /\ u[l - 1] = f
    <2>1. GoesOn(at.mem, n, v, l - 1, f)
      BY Zenon, <1>3, ReachedFurther
    <2> QED BY Zenon, <2>1 DEF GoesOn
  <1>9. at.mem = m /\ W[l] = at.t /\ W[l] # NoTable
    BY Zenon, <1>1, <1>4, NotTable DEF Got, Blank
  <1> HIDE DEF to
  <1>10. Stands(n, L, v, l - 1, to, u)
    BY Zenon, <1>3, <1>7, <1>8 DEF Stands
  <1>11. Step(m, W[l], v[l]) = f
    BY Zenon, <1>9 DEF Step, f
  <1>12. \/ to.mem = m /\ W[l - 1] = to.t
         \/ W[l - 1] = NoTable /\ Blank(to.mem, to.t)
    <2>1. CASE l # 2
      <3>1. l - 1 \in 2 .. n - 1 /\ l - 1 + 1 = l
        BY <2>1
      <3>2. W[l - 1] = Step(m, W[l], v[l])
        BY <3>1 DEF IsWalk
      <3> QED BY Zenon, <1>7, <1>9, <1>11, <3>2
    <2>2. CASE l = 2 /\ ~m[W[2]][v[2]].ps
      <3>1. W[1] = Step(m, W[2], v[2])
        BY Zenon, <2>2 DEF IsWalk
      <3>2. W[l - 1] = Step(m, W[l], v[l])
        BY <2>2, <3>1
      <3> QED BY Zenon, <1>7, <1>9, <1>11, <3>2
    <2>3. CASE l = 2 /\ m[W[2]][v[2]].ps
      <3>1. W[1] = NoTable
        BY Zenon, <1>9, <2>3 DEF IsWalk
      <3>2. W[l - 1] = NoTable
        BY <2>3, <3>1
      <3>3. at.mem[at.t][v[l]].ps
        BY Zenon, <1>9, <2>3
      <3>4. f \in Given
        BY Zenon, <1>1, <1>3, <1>4, <3>3 DEF Tree, Links, f
      <3>5. Blank(at.mem, f)
        BY Zenon, <1>3, <3>4 DEF Tree
      <3> QED BY Zenon, <1>7, <3>2, <3>5
    <2> QED BY Zenon, <2>1, <2>2, <2>3
  <1>13. SameFor(m, to.mem, n, Indices(n)) /\ Kept(m, to.mem)
    BY Zenon, <1>7 DEF Got
  <1>14. Cardinality(to.free) >= Cardinality(Missing(W, l - 1))
    <2>1. Cardinality(to.free) \in Nat /\ Cardinality(to.free) >= Cardinality(Missing(W, l))
      BY Zenon, <1>4, <1>7 DEF Got, Counted, Counts, Countable
    <2> QED BY SMTT(40), <2>1, MissingStep
  <1> QED BY Zenon, <1>7, <1>10, <1>12, <1>13, <1>14 DEF Got, to, f

\* The descent makes a table where the entry is absent.
LEMMA GotAbsent ==
  ASSUME Counted, NEW m, NEW n \in {4, 5}, NEW v \in Indices(n), NEW W, IsWalk(m, n, v, W),
         NEW l \in 2 .. n, NEW at, Got(m, n, v, W, l, at), ~at.mem[at.t][v[l]].p,
         NEW p \in BOOLEAN, n = 4 => p, NEW new,
         new = CHOOSE f \in at.free : \A k \in at.free : f <= k
  PROVE  Got(m, n, v, W, l - 1,
             [t |-> new, free |-> at.free \ {new},
              mem |-> [at.mem EXCEPT ![at.t][v[l]] = Entry(TRUE, FALSE, p, new)]])
  <1> DEFINE m2 == [at.mem EXCEPT ![at.t][v[l]] = Entry(TRUE, FALSE, p, new)]
             to == [t |-> new, free |-> at.free \ {new}, mem |-> m2]
  <1>1. at \in [t : Frames, mem : Memories, free : SUBSET Frames] /\ v[l] \in Idx
    BY SMTT(40) DEF Got, Indices
  <1>2. PICK L, s : Stands(n, L, v, l, at, s)
    BY Zenon DEF Got
  <1>3. Tree(at.mem, n, at.free, L) /\ Reached(at.mem, n, v, l, s) /\ s[l] = at.t
    BY Zenon, <1>2 DEF Stands
  <1>4. at.t \in Frames /\ at.mem \in Memories /\ at.free \in SUBSET Frames
    BY <1>1
  <1>5. W[l - 1] = NoTable
    <2>1. W[l] = NoTable \/ ~m[W[l]][v[l]].p
      BY Zenon DEF Got
    <2> QED BY Zenon, <2>1, WalkEnds
  <1>6. /\ Cardinality(at.free) \in Nat /\ (at.free = {} => Cardinality(at.free) = 0)
        /\ Cardinality(at.free) >= Cardinality(Missing(W, l - 1)) + 1
        /\ Cardinality(Missing(W, l - 1)) \in Nat
    <2>1. Cardinality(at.free) >= Cardinality(Missing(W, l))
      BY Zenon DEF Got
    <2>2. /\ Cardinality(Missing(W, l)) = Cardinality(Missing(W, l - 1)) + 1
          /\ Cardinality(Missing(W, l - 1)) \in Nat
      BY <1>5, MissingStep
    <2>3. Cardinality(at.free) \in Nat /\ (at.free = {} => Cardinality(at.free) = 0)
      BY Zenon, <1>4 DEF Counted, Counts, Countable
    <2> QED BY Zenon, <2>1, <2>2, <2>3
  <1>7. at.free # {}
    BY SMTT(40), <1>6
  <1>8. new \in at.free /\ new \in Frames
    BY Zenon, <1>4, <1>7, LeastFree
  <1>9. Entry(TRUE, FALSE, p, new) \in Entries
    BY <1>8 DEF Entry, Entries
  <1>10. Writes(at.mem, m2, at.t, v[l], Entry(TRUE, FALSE, p, new))
    BY Zenon, <1>1, <1>4, <1>9, WriteIs
  <1>11. Placed(at.free, L, l, n, s)
    BY <1>3, ReachedPlaced
  <1>12. at.t \in Frames \ (at.free \cup Given) /\ L[at.t] = l /\ L[at.t] \in 2 .. 5
    BY SMTT(40), <1>3, <1>11 DEF Placed
  <1> HIDE DEF m2
  <1>13. Allocates(at.mem, m2, n, at.free, L, at.t, v[l], new, p)
    BY Zenon, <1>1, <1>3, <1>8, <1>10, <1>12 DEF Allocates
  <1>14. /\ Tree(m2, n, at.free \ {new}, Relevel(L, new, L[at.t] - 1))
         /\ SameFor(at.mem, m2, n, Indices(n))
    BY Zenon, <1>13, AllocateKeeps, AllocateSame
  <1>15. m2[at.t][v[l]].p /\ m2[at.t][v[l]].f = new
    <2>1. m2[at.t][v[l]] = Entry(TRUE, FALSE, p, new)
      BY Zenon, <1>10 DEF Writes
    <2>2. Entry(TRUE, FALSE, p, new).p /\ Entry(TRUE, FALSE, p, new).f = new
      BY DEF Entry
    <2> QED BY Zenon, <2>1, <2>2
  <1>16. Kept(at.mem, m2)
    BY Zenon, <1>10 DEF Kept, Writes
  <1>17. Reached(m2, n, v, l, s)
    <2>1. s[n] = Root /\ \A k \in l + 1 .. n : /\ at.mem[s[k]][v[k]].p
                                               /\ s[k - 1] = at.mem[s[k]][v[k]].f
      BY Zenon, <1>3 DEF Reached
    <2>2. ASSUME NEW k \in l + 1 .. n PROVE m2[s[k]][v[k]] = at.mem[s[k]][v[k]]
      <3>1. s[k] \in Frames /\ v[k] \in Idx
        BY SMTT(40), <1>11 DEF Placed, Indices
      <3> QED BY Zenon, <1>16, <2>1, <3>1 DEF Kept
    <2> QED BY <2>1, <2>2 DEF Reached
  <1>18. PICK u : Reached(m2, n, v, l - 1, u) /\ u[l - 1] = new
    <2>1. m2[s[l]][v[l]].p /\ m2[s[l]][v[l]].f = new
      BY Zenon, <1>3, <1>15
    <2>2. GoesOn(m2, n, v, l - 1, new)
      BY Zenon, <1>17, <2>1, ReachedFurther
    <2> QED BY Zenon, <2>2 DEF GoesOn
  <1>19. Blank(m2, new)
    <2> SUFFICES ASSUME NEW j \in Idx PROVE ~m2[new][j].p
      BY Zenon DEF Blank
    <2>1. Blank(at.mem, new) /\ new # at.t
      BY Zenon, <1>3, <1>8, <1>12 DEF Tree
    <2> QED BY Zenon, <1>8, <1>10, <2>1 DEF Blank, Writes
  <1>20. m2 \in Memories
    BY Zenon, <1>10 DEF Writes
  <1>21. /\ to \in [t : Frames, mem : Memories, free : SUBSET Frames]
         /\ to.t = new /\ to.mem = m2 /\ to.free = at.free \ {new}
    BY <1>4, <1>8, <1>20
  <1>22. Cardinality(to.free) >= Cardinality(Missing(W, l - 1))
    <2>1. Cardinality(at.free \ {new}) = Cardinality(at.free) - 1
      BY Zenon, <1>4, <1>8 DEF Counted, Counts, Countable
    <2>2. Cardinality(at.free \ {new}) >= Cardinality(Missing(W, l - 1))
      BY SMTT(40), <1>6, <2>1
    <2> QED BY Zenon, <1>21, <2>1, <2>2
  <1> HIDE DEF to
  <1>23. Stands(n, Relevel(L, new, L[at.t] - 1), v, l - 1, to, u)
    BY Zenon, <1>14, <1>18, <1>21 DEF Stands
  <1>24. SameFor(m, to.mem, n, Indices(n))
    BY Zenon, <1>14, <1>21, SameTwice DEF Got
  <1>25. Kept(m, to.mem)
    <2> SUFFICES ASSUME NEW t \in Frames, NEW i \in Idx, m[t][i].p PROVE m2[t][i] = m[t][i]
      BY Zenon, <1>21 DEF Kept
    <2>1. at.mem[t][i] = m[t][i]
      BY Zenon DEF Got, Kept
    <2> QED BY Zenon, <1>16, <2>1 DEF Kept
  <1>26. W[l - 1] = NoTable /\ Blank(to.mem, to.t)
    BY Zenon, <1>5, <1>19, <1>21
  <1>27. Got(m, n, v, W, l - 1, to)
    BY Zenon, <1>21, <1>22, <1>23, <1>24, <1>25, <1>26 DEF Got
  <1> QED BY Zenon, <1>27 DEF to, m2

\* One level of the descent.
LEMMA DescendGot ==
  ASSUME Counted, levels \in {4, 5}, NEW v \in Indices(levels), NEW W, IsWalk(mem, levels, v, W),
         NEW l \in 2 .. levels, NEW at, Got(mem, levels, v, W, l, at), NEW rw \in BOOLEAN
  PROVE  Got(mem, levels, v, W, l - 1, Descend(at, l, v, rw))
  <1>1. CASE at.mem[at.t][v[l]].p
    <2>1. Descend(at, l, v, rw) = [at EXCEPT !.t = at.mem[at.t][v[l]].f]
      BY Zenon, <1>1 DEF Descend
    <2>2. Got(mem, levels, v, W, l - 1, [at EXCEPT !.t = at.mem[at.t][v[l]].f])
      BY Zenon, <1>1, GotPresent
    <2> QED BY Zenon, <2>1, <2>2
  <1>2. CASE ~at.mem[at.t][v[l]].p
    <2> DEFINE p == TableWritable(rw)
    <2>1. PICK new : new = CHOOSE f \in at.free : \A k \in at.free : f <= k
      BY Zenon
    <2>2. p \in BOOLEAN /\ (levels = 4 => p)
      BY Zenon DEF TableWritable
    <2> HIDE DEF p
    <2>3. Descend(at, l, v, rw) =
            [t |-> new, free |-> at.free \ {new},
             mem |-> [at.mem EXCEPT ![at.t][v[l]] = Entry(TRUE, FALSE, p, new)]]
      BY Zenon, <1>2, <2>1 DEF Descend, p
    <2>4. Got(mem, levels, v, W, l - 1,
              [t |-> new, free |-> at.free \ {new},
               mem |-> [at.mem EXCEPT ![at.t][v[l]] = Entry(TRUE, FALSE, p, new)]])
      BY ZenonT(40), <1>2, <2>1, <2>2, GotAbsent
    <2> QED BY Zenon, <2>3, <2>4
  <1> QED BY Zenon, <1>1, <1>2

Start == [t |-> Root, mem |-> mem, free |-> free]

\* map_page of four levels descends twice to the table of large pages.
LEMMA ReachIs4 ==
  ASSUME levels = 4, NEW v, NEW rw
  PROVE  Reach(v, rw) = Descend(Descend(Start, 4, v, rw), 3, v, rw)
  <1> DEFINE R(a) == [l \in 2 .. 4 |-> IF l = 4 THEN Start ELSE Descend(a[l + 1], l + 1, v, rw)]
             c == Descend(Start, 4, v, rw)
             b == Descend(c, 3, v, rw)
             w == [l \in 2 .. 4 |-> IF l = 4 THEN Start ELSE IF l = 3 THEN c ELSE b]
  <1>1. w = R(w)
    <2>1. w[4] = Start /\ w[3] = c /\ w[2] = b
      OBVIOUS
    <2> SUFFICES ASSUME NEW l \in 2 .. 4 PROVE w[l] = R(w)[l]
      OBVIOUS
    <2>2. l = 2 \/ l = 3 \/ l = 4
      OBVIOUS
    <2> QED BY SMTT(40), <2>1, <2>2
  <1>2. Reach(v, rw) = (CHOOSE a : a = R(a))[2]
    BY DEF Reach, Start
  <1>3. PICK a : Reach(v, rw) = a[2] /\ a = R(a)
    BY Zenon, <1>1, <1>2
  <1>4. a[4] = Start /\ a[3] = Descend(a[4], 4, v, rw) /\ a[2] = Descend(a[3], 3, v, rw)
    BY <1>3
  <1> QED BY Zenon, <1>3, <1>4

\* map_page of five levels descends three times.
LEMMA ReachIs5 ==
  ASSUME levels = 5, NEW v, NEW rw
  PROVE  Reach(v, rw) = Descend(Descend(Descend(Start, 5, v, rw), 4, v, rw), 3, v, rw)
  <1> DEFINE R(a) == [l \in 2 .. 5 |-> IF l = 5 THEN Start ELSE Descend(a[l + 1], l + 1, v, rw)]
             d == Descend(Start, 5, v, rw)
             c == Descend(d, 4, v, rw)
             b == Descend(c, 3, v, rw)
             w == [l \in 2 .. 5 |-> IF l = 5 THEN Start ELSE IF l = 4 THEN d
                                    ELSE IF l = 3 THEN c ELSE b]
  <1>1. w = R(w)
    <2>1. w[5] = Start /\ w[4] = d /\ w[3] = c /\ w[2] = b
      OBVIOUS
    <2> SUFFICES ASSUME NEW l \in 2 .. 5 PROVE w[l] = R(w)[l]
      OBVIOUS
    <2>2. l = 2 \/ l = 3 \/ l = 4 \/ l = 5
      OBVIOUS
    <2> QED BY SMTT(40), <2>1, <2>2
  <1>2. Reach(v, rw) = (CHOOSE a : a = R(a))[2]
    BY DEF Reach, Start
  <1>3. PICK a : Reach(v, rw) = a[2] /\ a = R(a)
    BY Zenon, <1>1, <1>2
  <1>4. /\ a[5] = Start /\ a[4] = Descend(a[5], 5, v, rw)
        /\ a[3] = Descend(a[4], 4, v, rw) /\ a[2] = Descend(a[3], 3, v, rw)
    BY <1>3
  <1> QED BY Zenon, <1>3, <1>4

\* The descent starts in the top table.
LEMMA StartGot ==
  ASSUME NEW L, Tree(mem, levels, free, L), NEW v, NEW W, W[levels] = Root,
         Cardinality(free) >= Cardinality(Missing(W, levels))
  PROVE  Got(mem, levels, v, W, levels, Start)
  <1>1. /\ Start \in [t : Frames, mem : Memories, free : SUBSET Frames]
        /\ Start.t = Root /\ Start.mem = mem /\ Start.free = free
    BY RootIs DEF Start, Tree
  <1> DEFINE s == [k \in {levels} |-> Root]
  <1>2. levels \in Nat
    BY DEF Tree
  <1>3. Reached(mem, levels, v, levels, s) /\ s[levels] = Root
    BY <1>2 DEF Reached
  <1> HIDE DEF s
  <1>4. Stands(levels, L, v, levels, Start, s)
    BY Zenon, <1>1, <1>3 DEF Stands
  <1>5. SameFor(mem, Start.mem, levels, Indices(levels)) /\ Kept(mem, Start.mem)
    BY Zenon, <1>1, SameSelf
  <1> QED BY Zenon, <1>1, <1>4, <1>5 DEF Got

\* The walk of a memory, for both numbers of levels.
LEMMA WalkOfIs ==
  ASSUME NEW m, NEW n \in {4, 5}, NEW v
  PROVE  IsWalk(m, n, v, WalkOf(m, n, v))
  BY Zenon, Walks4, Walks5

\* WalkTables is the walk of the present memory.
LEMMA WalkIs ==
  ASSUME levels \in {4, 5}, NEW v
  PROVE  IsWalk(mem, levels, v, WalkTables(v))
  <1>1. WalkTables(v) = WalkOf(mem, levels, v)
    BY Zenon DEF WalkTables, WalkOf, Follow, Step
  <1> QED BY Zenon, <1>1, WalkOfIs

\* Translate is the translation of the present memory, and of the next.
LEMMA TranslateIs ==
  ASSUME NEW CONSTANT v
  PROVE  /\ Translate(v) = Translated(mem, levels, v, WalkOf(mem, levels, v))
         /\ Translate(v)' = Translated(mem', levels', v, WalkOf(mem', levels', v))
  <1>1. /\ WalkTables(v) = WalkOf(mem, levels, v)
        /\ WalkTables(v)' = WalkOf(mem', levels', v)
    BY Zenon DEF WalkTables, WalkOf, Follow, Step
  <1>2. Translate(v) = Translated(mem, levels, v, WalkTables(v))
    BY Zenon DEF Translate, Translated, Follow, Step
  <1>3. Translate(v)' = Translated(mem', levels', v, WalkTables(v)')
    BY Zenon DEF Translate, Translated, Follow, Step
  <1> QED BY Zenon, <1>1, <1>2, <1>3

\* map_page gets to the table of large pages.
LEMMA ReachGot ==
  ASSUME Counted, NEW L, Tree(mem, levels, free, L), NEW v \in Indices(levels), Bounded(v),
         NEW rw \in BOOLEAN
  PROVE  Got(mem, levels, v, WalkTables(v), 2, Reach(v, rw))
  <1>1. levels \in {4, 5}
    BY Zenon DEF Tree
  <1>2. PICK W : W = WalkTables(v)
    BY Zenon
  <1>3. IsWalk(mem, levels, v, W)
    BY Zenon, <1>1, <1>2, WalkIs
  <1>4. W[levels] = Root
    BY Zenon, <1>3 DEF IsWalk
  <1>5. Missing(W, levels) = {l \in 1 .. levels : W[l] = NoTable}
    BY <1>1, <1>4, RootIs, NotTable DEF Missing
  <1>6. Cardinality(free) >= Cardinality(Missing(W, levels))
    BY Zenon, <1>2, <1>5 DEF Bounded
  <1>7. PICK a : a = Start
    BY Zenon
  <1>8. Got(mem, levels, v, W, levels, a)
    BY Zenon, <1>4, <1>6, <1>7, StartGot
  <1>9. CASE levels = 4
    <2>1. 4 \in 2 .. levels /\ 3 \in 2 .. levels /\ 4 - 1 = 3 /\ 3 - 1 = 2
      BY <1>9
    <2>2. PICK c : c = Descend(a, 4, v, rw)
      BY Zenon
    <2>3. Got(mem, levels, v, W, 4 - 1, Descend(a, 4, v, rw))
      BY Zenon, <1>1, <1>3, <1>8, <1>9, <2>1, DescendGot
    <2>4. Got(mem, levels, v, W, 3, c)
      BY Zenon, <2>1, <2>2, <2>3
    <2>5. Got(mem, levels, v, W, 3 - 1, Descend(c, 3, v, rw))
      BY Zenon, <1>1, <1>3, <2>1, <2>4, DescendGot
    <2>6. Reach(v, rw) = Descend(c, 3, v, rw)
      BY Zenon, <1>7, <1>9, <2>2, ReachIs4
    <2> QED BY Zenon, <1>2, <2>1, <2>5, <2>6
  <1>10. CASE levels = 5
    <2>1. /\ 5 \in 2 .. levels /\ 4 \in 2 .. levels /\ 3 \in 2 .. levels
          /\ 5 - 1 = 4 /\ 4 - 1 = 3 /\ 3 - 1 = 2
      BY <1>10
    <2>2. PICK d : d = Descend(a, 5, v, rw)
      BY Zenon
    <2>3. PICK c : c = Descend(d, 4, v, rw)
      BY Zenon
    <2>4. Got(mem, levels, v, W, 5 - 1, Descend(a, 5, v, rw))
      BY Zenon, <1>1, <1>3, <1>8, <1>10, <2>1, DescendGot
    <2>5. Got(mem, levels, v, W, 4, d)
      BY Zenon, <2>1, <2>2, <2>4
    <2>6. Got(mem, levels, v, W, 4 - 1, Descend(d, 4, v, rw))
      BY Zenon, <1>1, <1>3, <2>1, <2>5, DescendGot
    <2>7. Got(mem, levels, v, W, 3, c)
      BY Zenon, <2>1, <2>3, <2>6
    <2>8. Got(mem, levels, v, W, 3 - 1, Descend(c, 3, v, rw))
      BY Zenon, <1>1, <1>3, <2>1, <2>7, DescendGot
    <2>9. Reach(v, rw) = Descend(c, 3, v, rw)
      BY Zenon, <1>7, <1>10, <2>2, <2>3, ReachIs5
    <2> QED BY Zenon, <1>2, <2>1, <2>8, <2>9
  <1> QED BY Zenon, <1>1, <1>9, <1>10

\* Where map_page writes the entry of a page: at level b, in the table that
\* its walk gets to; other pages are mapped as they were in m.
Targets(m, n, v, b, at) ==
  \E L, s :
    /\ Arrives(at.mem, n, at.free, L, v, b, s) /\ s[b] = at.t
    /\ SameFor(m, at.mem, n, Indices(n))

\* That is where it writes the entry of a large page.
LEMMA LargeTarget ==
  ASSUME Counted, NEW L, Tree(mem, levels, free, L), NEW v \in Indices(levels), Bounded(v),
         NEW rw \in BOOLEAN
  PROVE  Targets(mem, levels, v, 2, Reach(v, rw))
  <1>1. PICK at : at = Reach(v, rw)
    BY Zenon
  <1>2. PICK W : W = WalkTables(v)
    BY Zenon
  <1>3. Got(mem, levels, v, W, 2, at) /\ levels \in {4, 5}
    BY Zenon, <1>1, <1>2, ReachGot DEF Tree
  <1>4. PICK M, s : Stands(levels, M, v, 2, at, s)
    BY Zenon, <1>3 DEF Got
  <1>5. Tree(at.mem, levels, at.free, M) /\ Reached(at.mem, levels, v, 2, s) /\ s[2] = at.t
    BY Zenon, <1>4 DEF Stands
  <1>6. 2 \in 2 .. levels
    BY <1>3
  <1>7. Placed(at.free, M, 2, levels, s)
    BY Zenon, <1>5, <1>6, ReachedPlaced
  <1>8. s[2] \in Frames \ (at.free \cup Given) /\ M[s[2]] = 2
    BY Zenon, <1>6, <1>7 DEF Placed
  <1>9. Arrives(at.mem, levels, at.free, M, v, 2, s)
    BY Zenon, <1>5, <1>8 DEF Arrives
  <1> QED BY Zenon, <1>1, <1>3, <1>5, <1>9 DEF Targets, Got

\* map_page without the flag gets one level further down.
LEMMA SmallGot ==
  ASSUME Counted, NEW L, Tree(mem, levels, free, L), NEW v \in Indices(levels), Bounded(v),
         NEW rw \in BOOLEAN
  PROVE  Got(mem, levels, v, WalkTables(v), 1, Descend(Reach(v, rw), 2, v, rw))
  <1>1. PICK a : a = Reach(v, rw)
    BY Zenon
  <1>2. PICK W : W = WalkTables(v)
    BY Zenon
  <1>3. Got(mem, levels, v, W, 2, a) /\ levels \in {4, 5}
    BY Zenon, <1>1, <1>2, ReachGot DEF Tree
  <1>4. IsWalk(mem, levels, v, W)
    BY Zenon, <1>2, <1>3, WalkIs
  <1>5. 2 \in 2 .. levels /\ 2 - 1 = 1
    BY <1>3
  <1>6. Got(mem, levels, v, W, 2 - 1, Descend(a, 2, v, rw))
    BY Zenon, <1>3, <1>4, <1>5, DescendGot
  <1> QED BY Zenon, <1>1, <1>2, <1>5, <1>6

\* It writes the entry of a small page there, unless a large page was in
\* the way.
LEMMA SmallTarget ==
  ASSUME Counted, NEW L, Tree(mem, levels, free, L), NEW v \in Indices(levels), Bounded(v),
         NEW rw \in BOOLEAN, Descend(Reach(v, rw), 2, v, rw).t \notin Given
  PROVE  Targets(mem, levels, v, 1, Descend(Reach(v, rw), 2, v, rw))
  <1>1. PICK at : at = Descend(Reach(v, rw), 2, v, rw)
    BY Zenon
  <1>2. PICK W : W = WalkTables(v)
    BY Zenon
  <1>3. Got(mem, levels, v, W, 1, at)
    BY Zenon, <1>1, <1>2, SmallGot
  <1>4. PICK M, s : Stands(levels, M, v, 1, at, s)
    BY Zenon, <1>3 DEF Got
  <1>5. Tree(at.mem, levels, at.free, M) /\ Reached(at.mem, levels, v, 1, s) /\ s[1] = at.t
    BY Zenon, <1>4 DEF Stands
  <1>6. s[1] \in Frames \ at.free /\ (s[1] \notin Given => M[s[1]] = 1)
    <2>1. EndOf(at.mem, levels, at.free, M, v, s)
      BY Zenon, <1>1, <1>5, EndOfWalk
    <2> QED BY Zenon, <2>1 DEF EndOf
  <1>7. s[1] \notin Given
    BY Zenon, <1>1, <1>5
  <1>8. Arrives(at.mem, levels, at.free, M, v, 1, s)
    BY Zenon, <1>5, <1>6, <1>7 DEF Arrives
  <1> QED BY Zenon, <1>1, <1>3, <1>5, <1>8 DEF Targets, Got

-----------------------------------------------------------------------------
(* What the operations do to the tables.                                   *)

\* Memory in which v has been mapped to f at level b, and no other page has
\* been touched.
Mapped(m, m2, n, F, v, b, f, rw) ==
  \E L, s :
    /\ Arrives(m2, n, F, L, v, b, s) /\ Leaf(m2[s[b]][v[b]], b, rw, f)
    /\ SameFor(m, m2, n, Beside(n, v, b))

\* Large pages end at level 2.
Kind(ps, b) == ps \in BOOLEAN /\ (ps <=> b = 2)

\* The entry of a mapping is a leaf.
LEMMA EntryLeaf ==
  ASSUME NEW ps \in BOOLEAN, NEW b, ps <=> b = 2, NEW rw \in BOOLEAN, NEW f,
         NEW e, e = Entry(TRUE, ps, rw, f)
  PROVE  Leaf(e, b, rw, f)
  BY DEF Leaf, Entry

\* The entry that map_page writes maps the page, and no other.
LEMMA TargetMapped ==
  ASSUME NEW m, NEW n, NEW v, NEW b, NEW at, Targets(m, n, v, b, at),
         NEW ps, Kind(ps, b), NEW rw \in BOOLEAN, NEW f \in Given,
         NEW m2, m2 = [at.mem EXCEPT ![at.t][v[b]] = Entry(TRUE, ps, rw, f)]
  PROVE  Mapped(m, m2, n, at.free, v, b, f, rw)
  <1>1. PICK L, s : /\ Arrives(at.mem, n, at.free, L, v, b, s) /\ s[b] = at.t
                    /\ SameFor(m, at.mem, n, Indices(n))
    BY Zenon DEF Targets
  <1>2. /\ Tree(at.mem, n, at.free, L) /\ v \in Indices(n) /\ s[b] \in Frames \ (at.free \cup Given)
        /\ L[s[b]] = b /\ n \in {4, 5} /\ at.mem \in Memories /\ b \in {1, 2}
    BY Zenon, <1>1 DEF Arrives, Tree
  <1>3. v[b] \in Idx
    BY SMTT(40), <1>2 DEF Indices
  <1>4. Entry(TRUE, ps, rw, f) \in Entries
    BY RootIs DEF Entry, Entries, Kind
  <1>5. Writes(at.mem, m2, s[b], v[b], Entry(TRUE, ps, rw, f))
    BY Zenon, <1>1, <1>2, <1>3, <1>4, WriteIs
  <1>6. (L[s[b]] = 1 /\ ~ps) \/ (L[s[b]] = 2 /\ ps)
    BY <1>2 DEF Kind
  <1>7. PutsLeaf(at.mem, m2, n, at.free, L, s[b], v[b], ps, rw, f)
    BY Zenon, <1>2, <1>3, <1>5, <1>6 DEF PutsLeaf
  <1>8. Tree(m2, n, at.free, L)
    BY Zenon, <1>7, LeafKeeps
  <1>9. Differs(at.mem, m2, s[b], v[b])
    BY Zenon, <1>5 DEF Differs, Writes
  <1>10. Arrives(m2, n, at.free, L, v, b, s)
    BY Zenon, <1>1, <1>8, <1>9, StillArrives
  <1>11. SameFor(at.mem, m2, n, Beside(n, v, b))
    BY Zenon, <1>1, <1>8, <1>9, OthersSame
  <1>12. Beside(n, v, b) \subseteq Indices(n)
    BY Zenon DEF Beside
  <1>13. SameFor(m, m2, n, Beside(n, v, b))
    BY ZenonT(40), <1>1, <1>11, <1>12, SameTwice
  <1>14. Leaf(m2[s[b]][v[b]], b, rw, f)
    <2>1. m2[s[b]][v[b]] = Entry(TRUE, ps, rw, f)
      BY Zenon, <1>5 DEF Writes
    <2> QED BY Zenon, <2>1, EntryLeaf DEF Kind
  <1> QED BY Zenon, <1>10, <1>13, <1>14 DEF Mapped

\* Memory in which v has been unmapped at level b.
Dropped(m, m2, n, F, v, b) ==
  \E L, s :
    /\ Arrives(m2, n, F, L, v, b, s) /\ ~m2[s[b]][v[b]].p
    /\ SameFor(m, m2, n, Beside(n, v, b))

\* Clearing the present bit of one entry.
LEMMA ClearIs ==
  ASSUME NEW m \in Memories, NEW t \in Frames, NEW i \in Idx
  PROVE  Clears(m, [m EXCEPT ![t][i].p = FALSE], t, i)
  <1>1. m[t][i] \in Entries
    BY DEF Memories
  <1>2. [m[t][i] EXCEPT !.p = FALSE] \in Entries /\ ~[m[t][i] EXCEPT !.p = FALSE].p
    BY ZenonT(40), <1>1 DEF Entries
  <1>3. PICK e \in Entries : e = [m[t][i] EXCEPT !.p = FALSE] /\ ~e.p
    BY Zenon, <1>2
  <1>4. [m EXCEPT ![t][i].p = FALSE] = [m EXCEPT ![t][i] = e]
    BY <1>3 DEF Memories
  <1>5. PICK m2 : m2 = [m EXCEPT ![t][i] = e]
    BY Zenon
  <1>6. Writes(m, m2, t, i, e)
    BY Zenon, <1>5, WriteIs
  <1>7. Clears(m, m2, t, i)
    BY Zenon, <1>3, <1>6 DEF Clears, Writes
  <1> QED BY Zenon, <1>4, <1>5, <1>7

\* An entry that unmap_page clears at the end of a walk unmaps its pages only.
LEMMA ClearDropped ==
  ASSUME NEW m, NEW n, NEW F, NEW L, NEW v, NEW b, NEW s, Arrives(m, n, F, L, v, b, s)
  PROVE  Dropped(m, [m EXCEPT ![s[b]][v[b]].p = FALSE], n, F, v, b)
  <1>1. /\ Tree(m, n, F, L) /\ v \in Indices(n) /\ s[b] \in Frames
        /\ n \in {4, 5} /\ m \in Memories /\ b \in {1, 2}
    BY Zenon DEF Arrives, Tree
  <1>2. v[b] \in Idx
    BY <1>1 DEF Indices
  <1>3. PICK m2 : m2 = [m EXCEPT ![s[b]][v[b]].p = FALSE]
    BY Zenon
  <1>4. Clears(m, m2, s[b], v[b])
    BY Zenon, <1>1, <1>2, <1>3, ClearIs
  <1>5. Tree(m2, n, F, L)
    BY Zenon, <1>1, <1>4, ClearKeeps
  <1>6. Differs(m, m2, s[b], v[b]) /\ ~m2[s[b]][v[b]].p
    BY Zenon, <1>4 DEF Differs, Clears
  <1>7. Arrives(m2, n, F, L, v, b, s)
    BY Zenon, <1>5, <1>6, StillArrives
  <1>8. SameFor(m, m2, n, Beside(n, v, b))
    BY Zenon, <1>5, <1>6, OthersSame
  <1>9. Dropped(m, m2, n, F, v, b)
    BY Zenon, <1>6, <1>7, <1>8 DEF Dropped
  <1> QED BY Zenon, <1>3, <1>9

-----------------------------------------------------------------------------
(* Pages and their blocks.                                                 *)

\* A page has an index for each level.
LEMMA PageIndices == ASSUME NEW v \in Pages PROVE v \in Indices(levels)
  BY Zenon DEF Pages, Indices

\* The pages of a large page agree on all indices but the lowest.
LEMMA BlockIs ==
  ASSUME NEW n \in {4, 5}, NEW v \in Indices(n), NEW w \in Vpages
  PROVE  /\ w \in Block(v) => w \in Indices(n)
         /\ w \in Indices(n) => (w \in Block(v) <=> \A k \in 2 .. n : w[k] = v[k])
  <1>1. DOMAIN v = 1 .. n /\ DOMAIN v \ {1} = 2 .. n
    BY DEF Indices
  <1>2. w \in Block(v) <=> DOMAIN w = 1 .. n /\ \A k \in 2 .. n : w[k] = v[k]
    BY Zenon, <1>1 DEF Block
  <1>3. w \in Indices(n) => DOMAIN w = 1 .. n
    BY Zenon DEF Indices
  <1>4. DOMAIN w = 1 .. n => w \in Indices(n)
    <2>1. w \in [1 .. 4 -> Idx] \/ w \in [1 .. 5 -> Idx]
      BY Zenon, PagingAssumption
    <2>2. 1 .. 4 # 1 .. n => n = 5 /\ 5 \in 1 .. n /\ 5 \notin 1 .. 4
      OBVIOUS
    <2>3. 1 .. 5 # 1 .. n => n = 4 /\ 5 \in 1 .. 5 /\ 5 \notin 1 .. n
      OBVIOUS
    <2> QED BY Zenon, <2>1, <2>2, <2>3 DEF Indices
  <1> QED BY Zenon, <1>2, <1>3, <1>4

-----------------------------------------------------------------------------
(* unmap_page.                                                             *)

\* An entry leads to a frame or nowhere.
LEMMA FollowType ==
  ASSUME mem \in Memories, NEW t \in Frames \cup {NoTable}, NEW i \in Idx
  PROVE  Follow(t, i) \in Frames \cup {NoTable}
  <1>1. ASSUME t \in Frames PROVE mem[t][i].f \in Frames
    <2>1. mem[t][i] \in Entries
      BY <1>1 DEF Memories
    <2> QED BY <2>1 DEF Entries
  <1> QED BY Zenon, <1>1 DEF Follow

\* The tables that unmap_page of four levels looks up.
LEMMA UnmapTableIs4 ==
  ASSUME levels = 4, NEW v
  PROVE  UnmapTable(v) = Follow(Follow(Root, v[4]), v[3])
  <1> DEFINE R(t) == [l \in 2 .. 4 |-> IF l = 4 THEN Root
                                    ELSE Follow(t[l + 1], UnmapIndex(v, l + 1))]
             c == Follow(Root, UnmapIndex(v, 4))
             b == Follow(c, UnmapIndex(v, 3))
             w == [l \in 2 .. 4 |-> IF l = 4 THEN Root ELSE IF l = 3 THEN c ELSE b]
  <1>1. w = R(w)
    <2>1. w[4] = Root /\ w[3] = c /\ w[2] = b
      OBVIOUS
    <2> SUFFICES ASSUME NEW l \in 2 .. 4 PROVE w[l] = R(w)[l]
      OBVIOUS
    <2>2. l = 2 \/ l = 3 \/ l = 4
      OBVIOUS
    <2> QED BY <2>1, <2>2
  <1>2. UnmapTable(v) = (CHOOSE t : t = R(t))[2]
    BY DEF UnmapTable
  <1>3. PICK t : UnmapTable(v) = t[2] /\ t = R(t)
    BY Zenon, <1>1, <1>2
  <1>4. /\ t[4] = Root /\ t[3] = Follow(t[4], UnmapIndex(v, 4))
        /\ t[2] = Follow(t[3], UnmapIndex(v, 3))
    BY <1>3
  <1>5. UnmapIndex(v, 4) = v[4] /\ UnmapIndex(v, 3) = v[3]
    BY DEF UnmapIndex
  <1> QED BY Zenon, <1>3, <1>4, <1>5

\* With five levels, the index of the fourth level is used twice.
LEMMA UnmapTableIs5 ==
  ASSUME levels = 5, NEW v
  PROVE  UnmapTable(v) = Follow(Follow(Follow(Root, v[4]), v[4]), v[3])
  <1> DEFINE R(t) == [l \in 2 .. 5 |-> IF l = 5 THEN Root
                                    ELSE Follow(t[l + 1], UnmapIndex(v, l + 1))]
             d == Follow(Root, UnmapIndex(v, 5))
             c == Follow(d, UnmapIndex(v, 4))
             b == Follow(c, UnmapIndex(v, 3))
             w == [l \in 2 .. 5 |-> IF l = 5 THEN Root ELSE IF l = 4 THEN d
                                    ELSE IF l = 3 THEN c ELSE b]
  <1>1. w = R(w)
    <2>1. w[5] = Root /\ w[4] = d /\ w[3] = c /\ w[2] = b
      OBVIOUS
    <2> SUFFICES ASSUME NEW l \in 2 .. 5 PROVE w[l] = R(w)[l]
      OBVIOUS
    <2>2. l = 2 \/ l = 3 \/ l = 4 \/ l = 5
      OBVIOUS
    <2> QED BY SMTT(40), <2>1, <2>2
  <1>2. UnmapTable(v) = (CHOOSE t : t = R(t))[2]
    BY DEF UnmapTable
  <1>3. PICK t : UnmapTable(v) = t[2] /\ t = R(t)
    BY Zenon, <1>1, <1>2
  <1>4. /\ t[5] = Root /\ t[4] = Follow(t[5], UnmapIndex(v, 5))
        /\ t[3] = Follow(t[4], UnmapIndex(v, 4)) /\ t[2] = Follow(t[3], UnmapIndex(v, 3))
    BY <1>3
  <1>5. UnmapIndex(v, 5) = v[4] /\ UnmapIndex(v, 4) = v[4] /\ UnmapIndex(v, 3) = v[3]
    BY DEF UnmapIndex
  <1> QED BY Zenon, <1>3, <1>4, <1>5

\* Whatever it finds with the wrong index, it clears one entry of a table.
LEMMA UnmapKeeps ==
  ASSUME NEW L, Tree(mem, levels, free, L), NEW v \in Indices(levels), Unmap(v)
  PROVE  Tree(mem', levels', free', L)
  <1>1. levels \in {4, 5} /\ mem \in Memories /\ levels' = levels /\ free' = free
    BY Zenon DEF Tree, Unmap
  <1>2. v[1] \in Idx /\ v[2] \in Idx /\ v[3] \in Idx /\ v[4] \in Idx
    BY <1>1 DEF Indices
  <1>3. PICK t : t = UnmapTable(v)
    BY Zenon
  <1>4. t \in Frames \cup {NoTable}
    <2>1. Root \in Frames \cup {NoTable}
      BY Zenon, RootIs
    <2>2. PICK c : c = Follow(Root, v[4])
      BY Zenon
    <2>3. c \in Frames \cup {NoTable}
      BY Zenon, <1>1, <1>2, <2>1, <2>2, FollowType
    <2>4. CASE levels = 4
      <3>1. t = Follow(c, v[3])
        BY Zenon, <1>3, <2>2, <2>4, UnmapTableIs4
      <3> QED BY Zenon, <1>1, <1>2, <2>3, <3>1, FollowType
    <2>5. CASE levels = 5
      <3>1. PICK b : b = Follow(c, v[4])
        BY Zenon
      <3>2. b \in Frames \cup {NoTable}
        BY Zenon, <1>1, <1>2, <2>3, <3>1, FollowType
      <3>3. t = Follow(b, v[3])
        BY Zenon, <1>3, <2>2, <2>5, <3>1, UnmapTableIs5
      <3> QED BY Zenon, <1>1, <1>2, <3>2, <3>3, FollowType
    <2> QED BY Zenon, <1>1, <2>4, <2>5
  <1>5. PICK low : low = Follow(t, v[2])
    BY Zenon
  <1>6. low \in Frames \cup {NoTable}
    BY Zenon, <1>1, <1>2, <1>4, <1>5, FollowType
  <1>7. \/ mem' = mem
        \/ t \in Frames /\ mem' = [mem EXCEPT ![t][v[2]].p = FALSE]
        \/ low \in Frames /\ mem' = [mem EXCEPT ![low][v[1]].p = FALSE]
    BY Zenon, <1>3, <1>4, <1>5, <1>6 DEF Unmap
  <1>8. ASSUME NEW u \in Frames, NEW i \in Idx, mem' = [mem EXCEPT ![u][i].p = FALSE]
        PROVE  Tree(mem', levels, free, L)
    <2>1. Clears(mem, mem', u, i)
      BY Zenon, <1>1, <1>8, ClearIs
    <2> QED BY Zenon, <2>1, ClearKeeps
  <1>9. Tree(mem', levels, free, L)
    BY Zenon, <1>2, <1>7, <1>8
  <1> QED BY Zenon, <1>1, <1>9

\* With four levels unmap_page follows the walk of the page.
LEMMA UnmapDrops ==
  ASSUME NEW L, Tree(mem, levels, free, L), levels = 4, NEW v \in Indices(levels), Unmap(v)
  PROVE  \/ mem' = mem /\ Unmapped(mem, 4, v)
         \/ \E b \in {1, 2} : Dropped(mem, mem', 4, free, v, b)
  <1>1. PICK W : W = WalkTables(v)
    BY Zenon
  <1>2. IsWalk(mem, 4, v, W) /\ Tree(mem, 4, free, L) /\ v \in Indices(4)
    BY Zenon, <1>1, WalkIs
  <1>3. /\ W[4] = Root /\ W[3] = Step(mem, W[4], v[4]) /\ W[2] = Step(mem, W[3], v[3])
        /\ W[1] = IF W[2] # NoTable /\ mem[W[2]][v[2]].ps THEN NoTable ELSE Step(mem, W[2], v[2])
    <2>1. /\ W[4] = Root /\ \A l \in 2 .. 4 - 1 : W[l] = Step(mem, W[l + 1], v[l + 1])
          /\ W[1] = IF W[2] # NoTable /\ mem[W[2]][v[2]].ps THEN NoTable ELSE Step(mem, W[2], v[2])
      BY Zenon, <1>2 DEF IsWalk
    <2>2. 2 \in 2 .. 4 - 1 /\ 3 \in 2 .. 4 - 1 /\ 2 + 1 = 3 /\ 3 + 1 = 4
      OBVIOUS
    <2> QED BY Zenon, <2>1, <2>2
  <1>4. UnmapTable(v) = W[2]
    <2>1. UnmapTable(v) = Follow(Follow(Root, v[4]), v[3])
      BY Zenon, UnmapTableIs4
    <2> QED BY Zenon, <1>3, <2>1 DEF Follow, Step
  <1>5. mem' = IF W[2] = NoTable THEN mem
               ELSE IF mem[W[2]][v[2]].ps THEN [mem EXCEPT ![W[2]][v[2]].p = FALSE]
               ELSE IF W[1] = NoTable THEN mem
               ELSE [mem EXCEPT ![W[1]][v[1]].p = FALSE]
    <2>1. ~mem[W[2]][v[2]].ps => W[1] = Follow(W[2], v[2])
      BY Zenon, <1>3 DEF Follow, Step
    <2> QED BY Zenon, <1>4, <2>1 DEF Unmap
  <1>6. 2 \in 1 .. 4 /\ 1 \in 1 .. 4 /\ 2 \in 2 .. 4 /\ 1 # 2 /\ 4 \in {4, 5}
    OBVIOUS
  <1>7. ASSUME NEW s, NEW b, Path(mem, 4, v, s, b)
        PROVE  /\ W[2] # NoTable
               /\ W[1] # NoTable \/ mem[W[2]][v[2]].ps
    <2>1. b \in {1, 2} /\ Along(mem, 4, free, L, v, s, b)
      BY Zenon, <1>2, <1>7, PathEnds
    <2>2. Reached(mem, 4, v, b, s) /\ (mem[s[2]][v[2]].ps <=> b = 2)
      BY Zenon, <1>7 DEF Path
    <2>3. Reached(mem, 4, v, 2, s)
      BY SMTT(40), <2>1, <2>2 DEF Reached
    <2>4. s[2] \in Frames
      BY <2>1 DEF Along
    <2>5. \A k \in 2 .. 4 : W[k] = s[k]
      BY SMTT(40), <1>2, <1>6, <2>3, WalkFinds
    <2>6. W[2] = s[2]
      BY Zenon, <1>6, <2>5
    <2>7. CASE b = 1
      <3>1. \A k \in 1 .. 4 : W[k] = s[k]
        BY SMTT(40), <1>2, <1>6, <2>2, <2>7, WalkFinds
      <3>2. s[1] \in Frames
        BY SMTT(40), <2>1, <2>7 DEF Along
      <3> QED BY Zenon, <1>6, <2>4, <2>6, <3>1, <3>2, NotTable
    <2>8. CASE b = 2
      BY Zenon, <2>2, <2>4, <2>6, <2>8, NotTable
    <2> QED BY Zenon, <2>1, <2>7, <2>8
  <1>8. CASE W[2] = NoTable
    BY Zenon, <1>5, <1>7, <1>8 DEF Unmapped
  <1>9. CASE W[2] # NoTable /\ mem[W[2]][v[2]].ps
    <2>1. Reached(mem, 4, v, 2, W)
      BY Zenon, <1>2, <1>6, <1>9, WalkReaches
    <2>2. Placed(free, L, 2, 4, W)
      BY Zenon, <1>2, <1>6, <2>1, ReachedPlaced
    <2>3. W[2] \in Frames \ (free \cup Given) /\ L[W[2]] = 2
      BY Zenon, <1>6, <2>2 DEF Placed
    <2>4. Arrives(mem, 4, free, L, v, 2, W)
      BY Zenon, <1>2, <2>1, <2>3 DEF Arrives
    <2>5. Dropped(mem, [mem EXCEPT ![W[2]][v[2]].p = FALSE], 4, free, v, 2)
      BY Zenon, <2>4, ClearDropped
    <2> QED BY Zenon, <1>5, <1>9, <2>5
  <1>10. CASE W[2] # NoTable /\ ~mem[W[2]][v[2]].ps /\ W[1] = NoTable
    BY Zenon, <1>5, <1>7, <1>10 DEF Unmapped
  <1>11. CASE W[2] # NoTable /\ ~mem[W[2]][v[2]].ps /\ W[1] # NoTable
    <2>1. Reached(mem, 4, v, 1, W)
      BY Zenon, <1>2, <1>6, <1>11, WalkReaches
    <2>2. W[1] \in Frames \ free /\ W[1] \notin Given /\ L[W[1]] = 1
      <3>1. EndOf(mem, 4, free, L, v, W)
        BY Zenon, <1>2, <2>1, EndOfWalk
      <3> QED BY Zenon, <1>11, <3>1 DEF EndOf
    <2>3. Arrives(mem, 4, free, L, v, 1, W)
      BY Zenon, <1>2, <2>1, <2>2 DEF Arrives
    <2>4. Dropped(mem, [mem EXCEPT ![W[1]][v[1]].p = FALSE], 4, free, v, 1)
      BY Zenon, <2>3, ClearDropped
    <2> QED BY Zenon, <1>5, <1>11, <2>4
  <1> QED BY Zenon, <1>8, <1>9, <1>10, <1>11

-----------------------------------------------------------------------------
(* The invariant: until a frame has been written by mistake, the tables    *)
(* are a tree.                                                             *)

HasTree == \E L : Tree(mem, levels, free, L)

PagingInv == levels \in {4, 5} /\ (stray = {} => HasTree)

\* map_page with the flag for large pages.
LEMMA MapLargeDoes ==
  ASSUME Counted, HasTree, NEW v \in Pages, NEW f \in Large, NEW rw \in BOOLEAN, MapLarge(v, f, rw)
  PROVE  /\ Mapped(mem, mem', levels, free', v, 2, f, rw)
         /\ levels' = levels /\ stray' = stray
  <1>1. PICK L : Tree(mem, levels, free, L)
    BY Zenon DEF HasTree
  <1>2. v \in Indices(levels) /\ f \in Given /\ Bounded(v)
    BY Zenon, PageIndices, RootIs DEF MapLarge
  <1>3. PICK at : at = Reach(v, rw)
    BY Zenon
  <1>4. Targets(mem, levels, v, 2, at)
    BY Zenon, <1>1, <1>2, <1>3, LargeTarget
  <1>5. /\ mem' = [at.mem EXCEPT ![at.t][v[2]] = Entry(TRUE, TRUE, rw, f)]
        /\ free' = at.free /\ levels' = levels /\ stray' = stray
    BY Zenon, <1>3 DEF MapLarge
  <1>6. Kind(TRUE, 2)
    BY Zenon DEF Kind
  <1>7. Mapped(mem, mem', levels, at.free, v, 2, f, rw)
    BY Zenon, <1>2, <1>4, <1>5, <1>6, TargetMapped
  <1> QED BY Zenon, <1>5, <1>7

\* map_page without it, if no frame is overwritten.
LEMMA MapSmallDoes ==
  ASSUME Counted, HasTree, NEW v \in Pages, NEW f \in Given, NEW rw \in BOOLEAN, MapSmall(v, f, rw),
         stray' = {}
  PROVE  Mapped(mem, mem', levels, free', v, 1, f, rw) /\ levels' = levels
  <1>1. PICK L : Tree(mem, levels, free, L)
    BY Zenon DEF HasTree
  <1>2. v \in Indices(levels) /\ Bounded(v)
    BY Zenon, PageIndices DEF MapSmall
  <1>3. PICK at : at = Descend(Reach(v, rw), 2, v, rw)
    BY Zenon
  <1>4. /\ mem' = [at.mem EXCEPT ![at.t][v[1]] = Entry(TRUE, FALSE, rw, f)]
        /\ free' = at.free /\ levels' = levels /\ stray' = stray \cup ({at.t} \cap Given)
    BY Zenon, <1>3 DEF MapSmall
  <1>5. at.t \notin Given
    BY Zenon, <1>4
  <1>6. Targets(mem, levels, v, 1, at)
    BY Zenon, <1>1, <1>2, <1>3, <1>5, SmallTarget
  <1>7. PICK ps : ps = FALSE
    BY Zenon
  <1>8. Kind(ps, 1) /\ mem' = [at.mem EXCEPT ![at.t][v[1]] = Entry(TRUE, ps, rw, f)]
    <2>1. 1 # 2
      OBVIOUS
    <2>2. Kind(ps, 1)
      BY Zenon, <1>7, <2>1 DEF Kind
    <2> QED BY Zenon, <1>4, <1>7, <2>2
  <1>9. Mapped(mem, mem', levels, at.free, v, 1, f, rw)
    BY Zenon, <1>6, <1>8, TargetMapped
  <1> QED BY Zenon, <1>4, <1>9

\* The empty top table is a tree.
LEMMA PagingInit == Init => PagingInv
  <1> SUFFICES ASSUME Init PROVE levels \in {4, 5} /\ HasTree
    BY Zenon DEF PagingInv
  <1> DEFINE L == [t \in Frames |-> IF t = Root THEN levels ELSE 1]
  <1>1. /\ levels \in {4, 5} /\ mem = [t \in Frames |-> [i \in Idx |-> NoEntry]]
        /\ free = Free[levels]
    BY Zenon DEF Init
  <1>2. free \subseteq Frames \ (Given \cup {Root})
    BY <1>1, PagingAssumption
  <1>3. L \in [Frames -> 1 .. 5] /\ L[Root] = levels
    BY <1>1, RootIs
  <1> HIDE DEF L
  <1>4. NoEntry \in Entries /\ ~NoEntry.p
    BY RootIs DEF NoEntry, Entry, Entries, Root
  <1>5. mem \in Memories /\ \A t \in Frames, i \in Idx : ~mem[t][i].p
    BY <1>1, <1>4 DEF Memories
  <1>6. Links(mem, levels, free, L) /\ Leaves(mem, L) /\ Single(mem)
    BY Zenon, <1>5 DEF Links, Leaves, Single
  <1>7. \A t \in free \cup Given : Blank(mem, t)
    BY Zenon, <1>2, <1>5, RootIs DEF Blank
  <1>8. Tree(mem, levels, free, L)
    BY Zenon, <1>1, <1>2, <1>3, <1>5, <1>6, <1>7 DEF Tree
  <1> QED BY Zenon, <1>1, <1>8 DEF HasTree

\* Where a page has been mapped the tables are a tree.
LEMMA MappedTree ==
  ASSUME NEW m, NEW m2, NEW n, NEW F, NEW v, NEW b, NEW f, NEW rw,
         Mapped(m, m2, n, F, v, b, f, rw)
  PROVE  \E L : Tree(m2, n, F, L)
  BY Zenon DEF Mapped, Arrives

\* Every step keeps the invariant.
LEMMA PagingStep == ASSUME Counted PROVE PagingInv /\ [Next]_vars => PagingInv'
  <1> SUFFICES ASSUME PagingInv, [Next]_vars PROVE PagingInv'
    BY Zenon
  <1>1. levels \in {4, 5} /\ (stray = {} => HasTree)
    BY Zenon DEF PagingInv
  <1>2. CASE UNCHANGED vars
    <2>1. levels' = levels /\ stray' = stray /\ mem' = mem /\ free' = free
      BY Zenon, <1>2 DEF vars
    <2> QED BY Zenon, <1>1, <2>1 DEF PagingInv, HasTree
  <1>3. ASSUME NEW v \in Pages, NEW rw \in BOOLEAN, NEW f \in Given \ Large, MapSmall(v, f, rw)
        PROVE  PagingInv'
    <2>1. stray = {} /\ levels' = levels /\ f \in Given
      BY Zenon, <1>3 DEF MapSmall, Bounded
    <2>2. ASSUME stray' = {} PROVE HasTree'
      <3>1. Mapped(mem, mem', levels, free', v, 1, f, rw)
        BY Zenon, <1>1, <1>3, <2>1, <2>2, MapSmallDoes
      <3> QED BY Zenon, <2>1, <3>1, MappedTree DEF HasTree
    <2> QED BY Zenon, <1>1, <2>1, <2>2 DEF PagingInv
  <1>4. ASSUME NEW v \in Pages, NEW rw \in BOOLEAN, NEW f \in Large, MapLarge(v, f, rw)
        PROVE  PagingInv'
    <2>1. stray = {}
      BY Zenon, <1>4 DEF MapLarge, Bounded
    <2>2. Mapped(mem, mem', levels, free', v, 2, f, rw) /\ levels' = levels
      BY Zenon, <1>1, <1>4, <2>1, MapLargeDoes
    <2>3. HasTree'
      BY Zenon, <2>2, MappedTree DEF HasTree
    <2> QED BY Zenon, <1>1, <2>2, <2>3 DEF PagingInv
  <1>5. ASSUME NEW v \in Pages, Unmap(v)
        PROVE  PagingInv'
    <2>1. levels' = levels /\ stray' = stray /\ v \in Indices(levels)
      BY Zenon, <1>5, PageIndices DEF Unmap
    <2>2. ASSUME stray = {} PROVE HasTree'
      <3>1. PICK L : Tree(mem, levels, free, L)
        BY Zenon, <1>1, <2>2 DEF HasTree
      <3>2. Tree(mem', levels', free', L)
        BY Zenon, <1>5, <2>1, <3>1, UnmapKeeps
      <3> QED BY Zenon, <3>2 DEF HasTree
    <2> QED BY Zenon, <1>1, <2>1, <2>2 DEF PagingInv
  <1> QED BY Zenon, <1>2, <1>3, <1>4, <1>5 DEF Next

\* Tables that form a tree are private.
LEMMA TreePrivate == HasTree => TablesPrivate
  <1> SUFFICES ASSUME HasTree PROVE TablesPrivate
    BY Zenon
  <1>1. PICK L : Tree(mem, levels, free, L)
    BY Zenon DEF HasTree
  <1>2. levels \in {4, 5} /\ L[Root] = levels
    BY Zenon, <1>1 DEF Tree
  <1> DEFINE walks == [v \in Pages |-> WalkTables(v)]
  <1>3. ASSUME NEW v \in Pages, NEW l \in 1 .. (levels - 1), walks[v][l] # NoTable
        PROVE  /\ v \in Indices(levels) /\ l \in 1 .. levels
               /\ Reached(mem, levels, v, l, walks[v])
               /\ walks[v][l] \notin free \cup Given \cup {Root} /\ L[walks[v][l]] = l
    <2>1. PICK W : W = walks[v]
      BY Zenon
    <2>2. W = WalkTables(v) /\ W[l] # NoTable
      BY Zenon, <1>3, <2>1
    <2>3. v \in Indices(levels) /\ IsWalk(mem, levels, v, W)
      BY Zenon, <1>2, <2>2, PageIndices, WalkIs
    <2>4. l \in 1 .. levels /\ l # levels /\ (l # 1 => l \in 2 .. levels)
      BY <1>2
    <2>5. Reached(mem, levels, v, l, W) /\ (l = 1 => ~mem[W[2]][v[2]].ps)
      BY Zenon, <1>2, <2>2, <2>3, <2>4, WalkReaches
    <2>6. W[l] \notin free \cup Given /\ L[W[l]] = l
      <3>1. CASE l = 1
        <4>1. Reached(mem, levels, v, 1, W) /\ ~mem[W[2]][v[2]].ps
          BY Zenon, <2>5, <3>1
        <4>2. EndOf(mem, levels, free, L, v, W)
          BY Zenon, <1>1, <2>3, <4>1, EndOfWalk
        <4>3. W[1] \notin free \cup Given /\ L[W[1]] = 1
          BY Zenon, <4>1, <4>2 DEF EndOf
        <4> QED BY Zenon, <3>1, <4>3
      <3>2. CASE l # 1
        <4>1. Placed(free, L, l, levels, W)
          BY Zenon, <1>1, <2>3, <2>4, <2>5, <3>2, ReachedPlaced
        <4>2. l \in l .. levels
          BY <1>2
        <4> QED BY Zenon, <4>1, <4>2 DEF Placed
      <3> QED BY Zenon, <3>1, <3>2
    <2>7. W[l] # Root
      BY Zenon, <1>2, <2>4, <2>6
    <2> QED BY Zenon, <2>1, <2>3, <2>4, <2>5, <2>6, <2>7
  <1> HIDE DEF walks
  <1>4. ASSUME NEW v \in Pages, NEW l \in 1 .. (levels - 1), walks[v][l] # NoTable
        PROVE  /\ walks[v][l] \notin free \cup Given \cup {Root}
               /\ \A w \in Pages : \A k \in 1 .. (levels - 1) :
                    walks[v][l] = walks[w][k] =>
                      l = k /\ \A j \in (l + 1) .. levels : v[j] = w[j]
    <2>1. walks[v][l] \notin free \cup Given \cup {Root}
      BY Zenon, <1>3, <1>4
    <2>2. ASSUME NEW w \in Pages, NEW k \in 1 .. (levels - 1), walks[v][l] = walks[w][k]
          PROVE  l = k /\ \A j \in (l + 1) .. levels : v[j] = w[j]
      <3>1. /\ v \in Indices(levels) /\ l \in 1 .. levels
            /\ Reached(mem, levels, v, l, walks[v])
            /\ walks[v][l] \notin Given /\ L[walks[v][l]] = l
        BY Zenon, <1>3, <1>4, <2>2
      <3>2. /\ w \in Indices(levels)
            /\ Reached(mem, levels, w, k, walks[w]) /\ L[walks[w][k]] = k
        BY Zenon, <1>3, <1>4, <2>2
      <3>3. l = k
        BY Zenon, <1>4, <2>2, <3>1, <3>2
      <3>4. Reached(mem, levels, w, l, walks[w]) /\ walks[v][l] = walks[w][l]
        BY Zenon, <1>4, <2>2, <3>2, <3>3
      <3>5. Agree(v, w, walks[v], walks[w], l, levels)
        BY Zenon, <1>1, <3>1, <3>2, <3>4, ReachedSame
      <3> QED BY Zenon, <3>3, <3>5 DEF Agree
    <2> QED BY Zenon, <2>1, <2>2
  <1> QED BY Zenon, <1>4 DEF TablesPrivate, walks

\* The walk's second table is the one that the steps down reach.
SecondIs(W, s) == W[2] = s[2]

LEMMA WalkFinds2 ==
  ASSUME NEW m, NEW n, NEW F, NEW L, Tree(m, n, F, L), NEW v \in Indices(n), NEW W,
         IsWalk(m, n, v, W), NEW s, Reached(m, n, v, 2, s)
  PROVE  SecondIs(W, s)
  <1>1. n \in {4, 5}
    BY Zenon DEF Tree
  <1>2. 2 \in 1 .. n /\ 2 # 1 /\ 2 \in 2 .. n
    BY <1>1
  <1>3. \A k \in 2 .. n : W[k] = s[k]
    BY <1>2, WalkFinds
  <1> QED BY Zenon, <1>2, <1>3 DEF SecondIs

\* map_page comes to a frame that callers map through a large page only.
LEMMA StrayStep ==
  ASSUME Counted, HasTree, NEW v \in Pages, NEW f \in Given, NEW rw \in BOOLEAN, MapSmall(v, f, rw),
         stray' # stray
  PROVE  LET t == WalkTables(v)[2]
         IN  /\ t # NoTable
             /\ mem[t][v[2]].p /\ mem[t][v[2]].ps
             /\ stray' = stray \cup {mem[t][v[2]].f}
  <1>1. PICK L : Tree(mem, levels, free, L)
    BY Zenon DEF HasTree
  <1>2. v \in Indices(levels) /\ Bounded(v) /\ levels \in {4, 5}
    BY Zenon, <1>1, PageIndices DEF MapSmall, Tree
  <1>3. PICK at : at = Descend(Reach(v, rw), 2, v, rw)
    BY Zenon
  <1>4. PICK W : W = WalkTables(v)
    BY Zenon
  <1>5. stray' = stray \cup ({at.t} \cap Given)
    BY Zenon, <1>3 DEF MapSmall
  <1>6. at.t \in Given /\ stray' = stray \cup {at.t}
    BY Zenon, <1>5
  <1>7. Got(mem, levels, v, W, 1, at) /\ IsWalk(mem, levels, v, W)
    BY Zenon, <1>1, <1>2, <1>3, <1>4, SmallGot, WalkIs
  <1>8. PICK M, s : Stands(levels, M, v, 1, at, s)
    BY Zenon, <1>7 DEF Got
  <1>9. Tree(at.mem, levels, at.free, M) /\ Reached(at.mem, levels, v, 1, s) /\ s[1] = at.t
    BY Zenon, <1>8 DEF Stands
  <1>10. /\ at.mem[s[2]][v[2]].ps /\ s[1] = at.mem[s[2]][v[2]].f
         /\ at.mem[s[2]][v[2]].p
    <2>1. s[1] \in Given
      BY Zenon, <1>6, <1>9
    <2>2. EndOf(at.mem, levels, at.free, M, v, s)
      BY Zenon, <1>2, <1>9, EndOfWalk
    <2>3. 2 \in 2 .. levels
      BY <1>2
    <2> QED BY Zenon, <2>1, <2>2, <2>3 DEF EndOf
  <1>11. Reached(at.mem, levels, v, 2, s)
    <2>1. \A k \in 2 + 1 .. levels : k \in 1 + 1 .. levels
      BY <1>2
    <2> QED BY Zenon, <1>9, <2>1 DEF Reached
  <1>12. Path(at.mem, levels, v, s, 2)
    BY Zenon, <1>10, <1>11 DEF Path
  <1>13. Path(mem, levels, v, s, 2)
    BY Zenon, <1>2, <1>7, <1>12 DEF Got, SameFor
  <1>14. Reached(mem, levels, v, 2, s) /\ mem[s[2]][v[2]].p /\ mem[s[2]][v[2]].ps
    BY Zenon, <1>13 DEF Path
  <1>15. s[2] \in Frames /\ v[2] \in Idx
    <2>1. Along(mem, levels, free, L, v, s, 2)
      BY Zenon, <1>1, <1>2, <1>13, PathEnds
    <2>2. 2 \in 2 .. levels
      BY <1>2
    <2> QED BY Zenon, <2>1, <2>2 DEF Along
  <1>16. at.mem[s[2]][v[2]] = mem[s[2]][v[2]]
    BY Zenon, <1>7, <1>14, <1>15 DEF Got, Kept
  <1>17. W[2] = s[2]
    <2>1. SecondIs(W, s)
      BY Zenon, <1>1, <1>2, <1>7, <1>14, WalkFinds2
    <2> QED BY Zenon, <2>1 DEF SecondIs
  <1> QED BY Zenon, <1>4, <1>6, <1>9, <1>10, <1>14, <1>15, <1>16, <1>17, NotTable

-----------------------------------------------------------------------------
(* Four levels implement an address space.                                 *)

\* Two memories hold trees, and the same for the pages V.
Alike(m, m2, n, V) ==
  SameFor(m, m2, n, V) /\ (\E F, L : Tree(m, n, F, L)) /\ (\E F, L : Tree(m2, n, F, L))

SameTranslation(m, m2, n, w, W, W2) == Translated(m2, n, w, W2) = Translated(m, n, w, W)

LEMMA TranslatesAlike ==
  ASSUME NEW m, NEW m2, NEW n, NEW V, Alike(m, m2, n, V), NEW w \in V, w \in Indices(n),
         NEW W, IsWalk(m, n, w, W), NEW W2, IsWalk(m2, n, w, W2)
  PROVE  SameTranslation(m, m2, n, w, W, W2)
  <1>1. PICK F, L : Tree(m, n, F, L)
    BY Zenon DEF Alike
  <1>2. PICK F2, L2 : Tree(m2, n, F2, L2)
    BY Zenon DEF Alike
  <1>3. SameFor(m, m2, n, V)
    BY Zenon DEF Alike
  <1> QED BY <1>1, <1>2, <1>3, TranslatesSame DEF SameTranslation

\* What the translation of a page is after it, or its large page, has been
\* mapped; and that of a page that is not concerned.
LEMMA MappedTranslates ==
  ASSUME NEW m, NEW F, NEW L, Tree(m, 4, F, L), NEW m2, NEW F2, NEW v, NEW b, NEW f,
         NEW rw \in BOOLEAN, Mapped(m, m2, 4, F2, v, b, f, rw), NEW w \in Indices(4)
  PROVE  /\ w \in With(4, v, b) =>
              Translated(m2, 4, w, WalkOf(m2, 4, w))
                = [frame |-> IF b = 2 THEN f + w[1] ELSE f, rw |-> rw]
         /\ w \in Beside(4, v, b) =>
              Translated(m2, 4, w, WalkOf(m2, 4, w)) = Translated(m, 4, w, WalkOf(m, 4, w))
  <1>1. PICK L2, s : /\ Arrives(m2, 4, F2, L2, v, b, s) /\ Leaf(m2[s[b]][v[b]], b, rw, f)
                     /\ SameFor(m, m2, 4, Beside(4, v, b))
    BY Zenon DEF Mapped
  <1>2. Tree(m2, 4, F2, L2) /\ 4 \in {4, 5}
    BY Zenon, <1>1 DEF Arrives
  <1>3. PICK W, W2 : W = WalkOf(m, 4, w) /\ W2 = WalkOf(m2, 4, w)
    BY Zenon
  <1>4. IsWalk(m, 4, w, W) /\ IsWalk(m2, 4, w, W2)
    BY Zenon, <1>2, <1>3, WalkOfIs
  <1>5. ASSUME w \in With(4, v, b)
        PROVE  Translated(m2, 4, w, W2) = [frame |-> IF b = 2 THEN f + w[1] ELSE f, rw |-> rw]
    <2>0. PICK r : r = [frame |-> IF b = 2 THEN f + w[1] ELSE f, rw |-> rw]
      BY Zenon
    <2>1. Path(m2, 4, w, s, b) /\ HasValue(m2, 4, w, s, b, r)
      BY Zenon, <1>1, <1>5, <2>0, LeafMaps
    <2>2. Value(m2, 4, w, s, b) = [frame |-> IF b = 2 THEN f + w[1] ELSE f, rw |-> rw]
      BY Zenon, <2>0, <2>1 DEF HasValue
    <2>3. Translated(m2, 4, w, W2) = Value(m2, 4, w, s, b)
      BY Zenon, <1>2, <1>4, <2>1, TranslatesPath
    <2> QED BY Zenon, <2>2, <2>3
  <1>6. ASSUME w \in Beside(4, v, b)
        PROVE  Translated(m2, 4, w, W2) = Translated(m, 4, w, W)
    <2>1. Alike(m, m2, 4, Beside(4, v, b))
      BY Zenon, <1>1, <1>2 DEF Alike
    <2>2. SameTranslation(m, m2, 4, w, W, W2)
      BY Zenon, <1>4, <1>6, <2>1, TranslatesAlike
    <2> QED BY Zenon, <2>2 DEF SameTranslation
  <1> QED BY Zenon, <1>3, <1>5, <1>6

\* What the translations are after unmap_page.
LEMMA DroppedTranslates ==
  ASSUME NEW m, NEW F, NEW L, Tree(m, 4, F, L), NEW m2, NEW F2, NEW v, NEW b,
         Dropped(m, m2, 4, F2, v, b), NEW w \in Indices(4)
  PROVE  /\ w \in With(4, v, b) => Translated(m2, 4, w, WalkOf(m2, 4, w)) = Absent
         /\ w \in Beside(4, v, b) =>
              Translated(m2, 4, w, WalkOf(m2, 4, w)) = Translated(m, 4, w, WalkOf(m, 4, w))
  <1>1. PICK L2, s : /\ Arrives(m2, 4, F2, L2, v, b, s) /\ ~m2[s[b]][v[b]].p
                     /\ SameFor(m, m2, 4, Beside(4, v, b))
    BY Zenon DEF Dropped
  <1>2. Tree(m2, 4, F2, L2) /\ 4 \in {4, 5}
    BY Zenon, <1>1 DEF Arrives
  <1>3. PICK W, W2 : W = WalkOf(m, 4, w) /\ W2 = WalkOf(m2, 4, w)
    BY Zenon
  <1>4. IsWalk(m, 4, w, W) /\ IsWalk(m2, 4, w, W2)
    BY Zenon, <1>2, <1>3, WalkOfIs
  <1>5. ASSUME w \in With(4, v, b) PROVE Translated(m2, 4, w, W2) = Absent
    <2>1. Unmapped(m2, 4, w)
      BY Zenon, <1>1, <1>5, ClearMaps DEF Unmapped
    <2> QED BY Zenon, <1>2, <1>4, <2>1, TranslatesNot
  <1>6. ASSUME w \in Beside(4, v, b)
        PROVE  Translated(m2, 4, w, W2) = Translated(m, 4, w, W)
    <2>1. Alike(m, m2, 4, Beside(4, v, b))
      BY Zenon, <1>1, <1>2 DEF Alike
    <2>2. SameTranslation(m, m2, 4, w, W, W2)
      BY Zenon, <1>4, <1>6, <2>1, TranslatesAlike
    <2> QED BY Zenon, <2>2 DEF SameTranslation
  <1> QED BY Zenon, <1>3, <1>5, <1>6

\* The pages concerned: v itself, or its large page.
LEMMA Concerned ==
  ASSUME levels = 4, NEW v \in Pages, NEW w \in Pages
  PROVE  /\ w \in Indices(4)
         /\ w = v => w \in With(4, v, 1)
         /\ w # v => w \in Beside(4, v, 1)
         /\ w \in Block(v) => w \in With(4, v, 2)
         /\ w \notin Block(v) => w \in Beside(4, v, 2)
  <1>1. v \in Indices(4) /\ w \in Indices(4) /\ w \in Vpages /\ v \in Vpages
    BY Zenon, PageIndices DEF Pages
  <1>2. w = v => w \in With(4, v, 1)
    BY Zenon, <1>1 DEF With
  <1>3. w # v => w \in Beside(4, v, 1)
    BY <1>1 DEF Indices, Beside
  <1>4. 4 \in {4, 5}
    OBVIOUS
  <1>5. w \in Block(v) <=> \A k \in 2 .. 4 : w[k] = v[k]
    BY Zenon, <1>1, <1>4, BlockIs
  <1>6. w \in Block(v) => w \in With(4, v, 2)
    BY Zenon, <1>1, <1>5 DEF With
  <1>7. w \notin Block(v) => w \in Beside(4, v, 2)
    BY Zenon, <1>1, <1>5 DEF Beside
  <1> QED BY Zenon, <1>1, <1>2, <1>3, <1>6, <1>7

\* The translation of every page, as the address space sees it.
Trans == [w \in Vpages |-> IF w \in Pages THEN Translate(w) ELSE Absent]

\* It is the translation of memory before and after a step.
LEMMA TransIs ==
  ASSUME levels = 4, levels' = levels, NEW CONSTANT w \in Vpages
  PROVE  /\ w \in Pages => /\ Trans[w] = Translated(mem, 4, w, WalkOf(mem, 4, w))
                           /\ Trans'[w] = Translated(mem', 4, w, WalkOf(mem', 4, w))
         /\ w \notin Pages => Trans[w] = Absent /\ Trans'[w] = Absent
  <1>1. Pages' = Pages
    BY Zenon DEF Pages
  <1>2. /\ Trans[w] = IF w \in Pages THEN Translate(w) ELSE Absent
        /\ Trans'[w] = IF w \in Pages' THEN Translate(w)' ELSE Absent
    BY Zenon DEF Trans, Absent
  <1>3. /\ Translate(w) = Translated(mem, 4, w, WalkOf(mem, 4, w))
        /\ Translate(w)' = Translated(mem', 4, w, WalkOf(mem', 4, w))
    BY Zenon, TranslateIs
  <1> QED BY Zenon, <1>1, <1>2, <1>3

\* Mapping a small page maps it in the address space.
LEMMA SmallSpace ==
  ASSUME levels = 4, levels' = levels, HasTree, NEW CONSTANT v \in Pages, NEW f,
         NEW rw \in BOOLEAN, Mapped(mem, mem', levels, free', v, 1, f, rw)
  PROVE  Space!Map(v, f, rw)
  <1>1. PICK L : Tree(mem, 4, free, L)
    BY Zenon DEF HasTree
  <1>2. Mapped(mem, mem', 4, free', v, 1, f, rw)
    BY Zenon
  <1>3. ASSUME NEW w \in Vpages
        PROVE  Trans'[w] = IF w = v THEN [frame |-> f, rw |-> rw] ELSE Trans[w]
    <2>1. CASE w \notin Pages
      BY Zenon, <2>1, TransIs
    <2>2. CASE w \in Pages
      <3>1. /\ w \in Indices(4) /\ (w = v => w \in With(4, v, 1))
            /\ (w # v => w \in Beside(4, v, 1))
        BY Zenon, <2>2, Concerned
      <3>2. /\ w \in With(4, v, 1) =>
                 Translated(mem', 4, w, WalkOf(mem', 4, w))
                   = [frame |-> IF 1 = 2 THEN f + w[1] ELSE f, rw |-> rw]
            /\ w \in Beside(4, v, 1) =>
                 Translated(mem', 4, w, WalkOf(mem', 4, w))
                   = Translated(mem, 4, w, WalkOf(mem, 4, w))
        BY <1>1, <1>2, <3>1, MappedTranslates
      <3>3. [frame |-> IF 1 = 2 THEN f + w[1] ELSE f, rw |-> rw] = [frame |-> f, rw |-> rw]
        OBVIOUS
      <3>4. /\ Trans[w] = Translated(mem, 4, w, WalkOf(mem, 4, w))
            /\ Trans'[w] = Translated(mem', 4, w, WalkOf(mem', 4, w))
        BY Zenon, <2>2, TransIs
      <3> QED BY Zenon, <3>1, <3>2, <3>3, <3>4
    <2> QED BY Zenon, <2>1, <2>2
  <1>4. v \in Vpages
    BY Zenon DEF Pages
  <1>5. PICK A, B : A = Trans /\ B = Trans'
    BY Zenon
  <1>6. A = [w \in Vpages |-> A[w]] /\ B = [w \in Vpages |-> B[w]]
    BY Zenon, <1>5 DEF Trans
  <1>7. \A w \in Vpages : B[w] = IF w = v THEN [frame |-> f, rw |-> rw] ELSE A[w]
    BY Zenon, <1>3, <1>5
  <1>8. B = [A EXCEPT ![v] = [frame |-> f, rw |-> rw]]
    BY <1>4, <1>6, <1>7
  <1>9. Trans' = [Trans EXCEPT ![v] = [frame |-> f, rw |-> rw]]
    BY Zenon, <1>5, <1>8
  <1> QED BY Zenon, <1>9 DEF Space!Map, Trans

\* Mapping a large page maps its block there.
LEMMA LargeSpace ==
  ASSUME levels = 4, levels' = levels, HasTree, NEW CONSTANT v \in Pages, NEW f,
         NEW rw \in BOOLEAN, Mapped(mem, mem', levels, free', v, 2, f, rw)
  PROVE  Space!MapLarge(v, f, rw)
  <1>1. PICK L : Tree(mem, 4, free, L)
    BY Zenon DEF HasTree
  <1>2. Mapped(mem, mem', 4, free', v, 2, f, rw)
    BY Zenon
  <1>3. ASSUME NEW w \in Vpages
        PROVE  Trans'[w] = IF w \in Block(v) THEN [frame |-> f + Offset(w), rw |-> rw]
                           ELSE Trans[w]
    <2>1. CASE w \notin Pages
      <3>1. w \notin Block(v)
        <4>1. 4 \in {4, 5} /\ v \in Indices(4)
          BY Zenon, PageIndices
        <4>2. w \notin Indices(4)
          BY Zenon, <2>1 DEF Pages, Indices
        <4> QED BY Zenon, <4>1, <4>2, BlockIs
      <3> QED BY Zenon, <2>1, <3>1, TransIs
    <2>2. CASE w \in Pages
      <3>1. /\ w \in Indices(4) /\ (w \in Block(v) => w \in With(4, v, 2))
            /\ (w \notin Block(v) => w \in Beside(4, v, 2))
        BY Zenon, <2>2, Concerned
      <3>2. /\ w \in With(4, v, 2) =>
                 Translated(mem', 4, w, WalkOf(mem', 4, w))
                   = [frame |-> IF 2 = 2 THEN f + w[1] ELSE f, rw |-> rw]
            /\ w \in Beside(4, v, 2) =>
                 Translated(mem', 4, w, WalkOf(mem', 4, w))
                   = Translated(mem, 4, w, WalkOf(mem, 4, w))
        BY SMTT(40), <1>1, <1>2, <3>1, MappedTranslates
      <3>3. [frame |-> IF 2 = 2 THEN f + w[1] ELSE f, rw |-> rw]
              = [frame |-> f + Offset(w), rw |-> rw]
        BY Zenon DEF Offset
      <3>4. /\ Trans[w] = Translated(mem, 4, w, WalkOf(mem, 4, w))
            /\ Trans'[w] = Translated(mem', 4, w, WalkOf(mem', 4, w))
        BY Zenon, <2>2, TransIs
      <3> QED BY Zenon, <3>1, <3>2, <3>3, <3>4
    <2> QED BY Zenon, <2>1, <2>2
  <1>4. Trans' = [w \in Vpages |-> Trans'[w]]
    BY Zenon DEF Trans
  <1>5. Trans' = [w \in Vpages |-> IF w \in Block(v) THEN [frame |-> f + Offset(w), rw |-> rw]
                                   ELSE Trans[w]]
    BY Zenon, <1>3, <1>4
  <1> QED BY Zenon, <1>5 DEF Space!MapLarge, Trans

\* Unmap as AddressSpace has it, page by page.
Gone(S) == \A w \in Vpages : Trans'[w] = IF w \in S THEN Absent ELSE Trans[w]

\* Pages that are gone are unmapped there.
LEMMA GoneIs == ASSUME NEW CONSTANT v, NEW S \in {{v}, Block(v)}, Gone(S) PROVE Space!Unmap(v)
  <1>1. Trans' = [w \in Vpages |-> Trans'[w]]
    BY Zenon DEF Trans
  <1>2. Trans' = [w \in Vpages |-> IF w \in S THEN Absent ELSE Trans[w]]
    BY Zenon, <1>1 DEF Gone
  <1> QED BY Zenon, <1>2 DEF Space!Unmap, Trans

\* unmap_page unmaps the page, or the large page that it is in.
LEMMA UnmapSpace ==
  ASSUME levels = 4, HasTree, NEW CONSTANT v \in Pages, Unmap(v)
  PROVE  Space!Unmap(v)
  <1>1. PICK L : Tree(mem, 4, free, L)
    BY Zenon DEF HasTree
  <1>2. v \in Indices(levels) /\ v \in Indices(4) /\ levels' = levels
    BY Zenon, PageIndices DEF Unmap
  <1>3. Tree(mem, levels, free, L)
    BY Zenon, <1>1
  <1>4. \/ mem' = mem /\ Unmapped(mem, 4, v)
        \/ \E b \in {1, 2} : Dropped(mem, mem', 4, free, v, b)
    BY <1>2, <1>3, UnmapDrops
  <1>5. CASE mem' = mem /\ Unmapped(mem, 4, v)
    <2>1. ASSUME NEW w \in Vpages PROVE Trans'[w] = IF w \in {v} THEN Absent ELSE Trans[w]
      <3>1. Trans'[w] = Trans[w]
        BY Zenon, <1>2, <1>5, TransIs
      <3>2. w = v => Trans[w] = Absent
        <4> SUFFICES ASSUME w = v PROVE Trans[w] = Absent
          OBVIOUS
        <4>1. Trans[w] = Translated(mem, 4, v, WalkOf(mem, 4, v))
          BY Zenon, <1>2, TransIs
        <4>2. 4 \in {4, 5}
          OBVIOUS
        <4>3. IsWalk(mem, 4, v, WalkOf(mem, 4, v))
          BY Zenon, <4>2, WalkOfIs
        <4> QED BY Zenon, <1>1, <1>5, <4>1, <4>3, TranslatesNot
      <3> QED BY Zenon, <3>1, <3>2
    <2> QED BY Zenon, <2>1, GoneIs DEF Gone
  <1>6. ASSUME Dropped(mem, mem', 4, free, v, 1) PROVE Space!Unmap(v)
    <2>1. ASSUME NEW w \in Vpages PROVE Trans'[w] = IF w \in {v} THEN Absent ELSE Trans[w]
      <3>1. CASE w \notin Pages
        BY Zenon, <1>2, <3>1, TransIs
      <3>2. CASE w \in Pages
        <4>1. /\ w \in Indices(4) /\ (w = v => w \in With(4, v, 1))
              /\ (w # v => w \in Beside(4, v, 1))
          BY Zenon, <3>2, Concerned
        <4>2. /\ w \in With(4, v, 1) => Translated(mem', 4, w, WalkOf(mem', 4, w)) = Absent
              /\ w \in Beside(4, v, 1) =>
                   Translated(mem', 4, w, WalkOf(mem', 4, w))
                     = Translated(mem, 4, w, WalkOf(mem, 4, w))
          BY <1>1, <1>6, <4>1, DroppedTranslates
        <4> QED BY Zenon, <1>2, <3>2, <4>1, <4>2, TransIs
      <3> QED BY Zenon, <3>1, <3>2
    <2> QED BY Zenon, <2>1, GoneIs DEF Gone
  <1>7. ASSUME Dropped(mem, mem', 4, free, v, 2) PROVE Space!Unmap(v)
    <2>1. ASSUME NEW w \in Vpages PROVE Trans'[w] = IF w \in Block(v) THEN Absent ELSE Trans[w]
      <3>1. CASE w \notin Pages
        BY Zenon, <1>2, <3>1, TransIs
      <3>2. CASE w \in Pages
        <4>1. /\ w \in Indices(4) /\ (w \in Block(v) => w \in With(4, v, 2))
              /\ (w \notin Block(v) => w \in Beside(4, v, 2))
          BY Zenon, <3>2, Concerned
        <4>2. /\ w \in With(4, v, 2) => Translated(mem', 4, w, WalkOf(mem', 4, w)) = Absent
              /\ w \in Beside(4, v, 2) =>
                   Translated(mem', 4, w, WalkOf(mem', 4, w))
                     = Translated(mem, 4, w, WalkOf(mem, 4, w))
          BY <1>1, <1>7, <4>1, DroppedTranslates
        <4> QED BY Zenon, <1>2, <3>2, <4>1, <4>2, TransIs
      <3> QED BY Zenon, <3>1, <3>2
    <2> QED BY Zenon, <2>1, GoneIs DEF Gone
  <1> QED BY Zenon, <1>4, <1>5, <1>6, <1>7

-----------------------------------------------------------------------------
(* Counting, from the library's theorems.                                  *)

Fin == INSTANCE FiniteSetTheorems

\* The library's sets are counted as these are.
LEMMA SameFinite ==
  ASSUME NEW S
  PROVE  (IsFiniteSet(S) <=> Fin!IsFiniteSet(S)) /\ Cardinality(S) = Fin!Cardinality(S)
  <1>1. IsFiniteSet(S) <=> Fin!IsFiniteSet(S)
    BY Zenon DEF IsFiniteSet, Fin!IsFiniteSet
  <1>2. Cardinality(S) = Fin!Cardinality(S)
    BY Zenon DEF Cardinality, Fin!Cardinality
  <1> QED BY Zenon, <1>1, <1>2

\* A finite set is counted as the descent needs it.
LEMMA FiniteCounts == ASSUME NEW U, Fin!IsFiniteSet(U) PROVE Counts(U)
  <1> SUFFICES ASSUME NEW S \in SUBSET U PROVE Countable(S)
    BY Zenon DEF Counts
  <1>1. Fin!IsFiniteSet(S)
    BY Fin!FS_Subset
  <1>2. Cardinality(S) \in Nat
    BY Zenon, <1>1, SameFinite, Fin!FS_CardinalityType
  <1>3. S = {} => Cardinality(S) = 0
    BY SameFinite, Fin!FS_EmptySet
  <1>4. \A x \in S : Cardinality(S \ {x}) = Cardinality(S) - 1
    BY <1>1, SameFinite, Fin!FS_RemoveElement
  <1> QED BY Zenon, <1>2, <1>3, <1>4 DEF Countable

Smaller == {p \in Nat \X Nat : p[1] < p[2]}

\* So are the frames and the levels.
LEMMA FramesCount == Counted
  <1>1. 0 \in Int /\ MaxFrame \in Int /\ 1 \in Int /\ 5 \in Int /\ Frames \subseteq Nat
    BY PagingAssumption DEF Frames
  <1>2. Fin!IsFiniteSet(Frames) /\ Fin!IsFiniteSet(1 .. 5)
    BY Zenon, <1>1, Fin!FS_Interval DEF Frames
  <1>3. HasLeast(Frames)
    <2> SUFFICES ASSUME NEW S \in SUBSET Frames, S # {} PROVE \E n \in S : \A k \in S : n <= k
      BY Zenon DEF HasLeast
    <2>1. Fin!OpToRel(<, Nat) = Smaller
      BY DEF Fin!OpToRel, Smaller
    <2>2. Fin!IsWellFoundedOn(Smaller, Nat)
      BY Zenon, <2>1, Fin!NatLessThanWellFounded
    <2>3. PICK n \in S : \A k \in S : ~ (<<k, n>> \in Smaller)
      BY Zenon, <1>1, <2>2, Fin!WFMin
    <2>4. \A k \in S : ~(k < n)
      BY Zenon, <1>1, <2>3 DEF Smaller
    <2>5. \A k \in S : n <= k
      BY <1>1, <2>4
    <2> QED BY Zenon, <2>5
  <1> QED BY Zenon, <1>2, <1>3, FiniteCounts DEF Counted

\* Hence every step keeps the invariant.
LEMMA PagingKept == PagingInv /\ [Next]_vars => PagingInv'
  BY Zenon, FramesCount, PagingStep

-----------------------------------------------------------------------------
(* The theorems.                                                           *)

\* At every moment the tables of map_page are private to the pages that
\* agree on the indices above them, and are neither free nor mapped, until
\* a frame has been written by mistake: for any number of pages, indices
\* and frames, with four levels and with five.
THEOREM PrivateTables == Spec => []TablesPrivate
  <1>1. PagingInv => TablesPrivate
    <2>1. stray # {} => TablesPrivate
      BY Zenon DEF TablesPrivate
    <2> QED BY Zenon, <2>1, TreePrivate DEF PagingInv
  <1> QED BY PagingInit, PagingKept, <1>1, PTL DEF Spec

\* map_page writes to a frame that is not a table only for a small page
\* inside a large one that is present.
THEOREM StrayFromLarge == Spec => StrayOnlyUnderLarge
  <1> DEFINE A == stray' # stray =>
                    \E v \in Pages :
                      LET t == WalkTables(v)[2]
                      IN  /\ t # NoTable
                          /\ mem[t][v[2]].p /\ mem[t][v[2]].ps
                          /\ stray' = stray \cup {mem[t][v[2]].f}
  <1>1. PagingInv /\ [Next]_vars => [A]_vars
    <2> SUFFICES ASSUME PagingInv, Next, stray' # stray PROVE A
      BY Zenon DEF vars
    <2>1. PICK v \in Pages, rw \in BOOLEAN, f \in Given \ Large : MapSmall(v, f, rw)
      BY Zenon DEF Next, MapLarge, Unmap
    <2>2. HasTree /\ f \in Given
      BY Zenon, <2>1 DEF PagingInv, MapSmall, Bounded
    <2> QED BY Zenon, <2>1, <2>2, FramesCount, StrayStep
  <1> QED BY PagingInit, PagingKept, <1>1, PTL DEF Spec, StrayOnlyUnderLarge

\* map_page and unmap_page with four levels do to the translations of all
\* pages what an address space does, as long as no frame has been written by
\* mistake: the page or its block gets what was asked for, and no other page
\* changes.
THEOREM AddressSpaceKept == Spec => IsAddressSpace
  <1> DEFINE A == levels = 4 /\ stray' = {} =>
                    \A v \in Pages :
                      /\ Unmap(v) => Space!Unmap(v)
                      /\ \A rw \in BOOLEAN :
                           /\ \A f \in Given \ Large : MapSmall(v, f, rw) => Space!Map(v, f, rw)
                           /\ \A f \in Large : MapLarge(v, f, rw) => Space!MapLarge(v, f, rw)
  <1>1. PagingInv /\ [Next]_vars => [A]_vars
    <2> SUFFICES ASSUME PagingInv, levels = 4, stray' = {}, NEW v \in Pages
                 PROVE  /\ Unmap(v) => Space!Unmap(v)
                        /\ \A rw \in BOOLEAN :
                             /\ \A f \in Given \ Large : MapSmall(v, f, rw) => Space!Map(v, f, rw)
                             /\ \A f \in Large : MapLarge(v, f, rw) => Space!MapLarge(v, f, rw)
      BY Zenon
    <2>1. ASSUME Unmap(v) PROVE Space!Unmap(v)
      <3>1. HasTree
        BY Zenon, <2>1 DEF PagingInv, Unmap
      <3> QED BY Zenon, <2>1, <3>1, UnmapSpace
    <2>2. ASSUME NEW rw \in BOOLEAN, NEW f \in Given \ Large, MapSmall(v, f, rw)
          PROVE  Space!Map(v, f, rw)
      <3>1. HasTree /\ f \in Given
        BY Zenon, <2>2 DEF PagingInv, MapSmall, Bounded
      <3>2. Mapped(mem, mem', levels, free', v, 1, f, rw) /\ levels' = levels
        BY Zenon, <2>2, <3>1, FramesCount, MapSmallDoes
      <3> QED BY Zenon, <3>1, <3>2, SmallSpace
    <2>3. ASSUME NEW rw \in BOOLEAN, NEW f \in Large, MapLarge(v, f, rw)
          PROVE  Space!MapLarge(v, f, rw)
      <3>1. HasTree
        BY Zenon, <2>3 DEF PagingInv, MapLarge, Bounded
      <3>2. Mapped(mem, mem', levels, free', v, 2, f, rw) /\ levels' = levels
        BY Zenon, <2>3, <3>1, FramesCount, MapLargeDoes
      <3> QED BY Zenon, <3>1, <3>2, LargeSpace
    <2> QED BY Zenon, <2>1, <2>2, <2>3
  <1> QED BY PagingInit, PagingKept, <1>1, PTL DEF Spec, IsAddressSpace
=============================================================================
