------------------------- MODULE KernelMemoryProofs -------------------------
(***************************************************************************)
(* Theorems about KernelMemory.                                            *)
(***************************************************************************)
EXTENDS KernelMemory, FiniteSetTheorems, WellFoundedInduction, TLAPS

-----------------------------------------------------------------------------
(* Page numbers and their digits *)

\* A number is its quotient and its remainder.
LEMMA Digits ==
  ASSUME NEW a \in Nat, NEW b \in Nat, NEW f \in Nat, f > 0, a \div f = b \div f, a % f = b % f
  PROVE  a = b
<1>1. a = f * (a \div f) + (a % f)
  OBVIOUS
<1>2. b = f * (b \div f) + (b % f)
  OBVIOUS
<1>3. QED
  BY <1>1, <1>2

\* Quotients stay below what their numbers stay below.
LEMMA QuotientBelow ==
  ASSUME NEW a \in Nat, NEW m \in Nat, NEW f \in Nat, f > 0, a < f * m
  PROVE  a \div f \in Nat /\ a \div f < m
<1>1. a = f * (a \div f) + (a % f) /\ a % f >= 0 /\ a \div f \in Nat
  OBVIOUS
<1>2. ASSUME NEW q \in Nat, q >= m PROVE f * q >= f * m
  <2>1. f * (q - m) >= 0
    BY <1>2
  <2>2. f * (q - m) = f * q - f * m
    OBVIOUS
  <2>3. QED
    BY <2>1, <2>2
<1>3. QED
  BY <1>1, <1>2

\* The number of the table of level k on the way to page v.
Number(v, k) == IF k = 0 THEN 0 ELSE Shifted(v)[k]

\* Every page has its digits, and the digits and the number of the table at each
\* level make up the number of the next one.
LEMMA Path ==
  ASSUME NEW v \in Pages
  PROVE  /\ \A k \in 0 .. 4 : Number(v, k) \in Nat
         /\ \A k \in 0 .. 3 : /\ Number(v, k + 1) \div FANOUT = Number(v, k)
                              /\ Number(v, k + 1) % FANOUT = Index(v, k)
                              /\ Index(v, k) \in 0 .. FANOUT - 1
         /\ Number(v, 4) = v
<1> DEFINE F == FANOUT
           a == v \div F
           b == a \div F
           c == b \div F
<1>1. F \in Nat /\ F > 0 /\ v \in Nat /\ v < F * (F * (F * F))
  BY VirtMemAssumption DEF Pages, PAGES
<1>2. F * F \in Nat /\ F * (F * F) \in Nat
  BY <1>1
<1>3. a \in Nat /\ a < F * (F * F)
  BY <1>1, <1>2, QuotientBelow
<1>4. b \in Nat /\ b < F * F
  <2> HIDE DEF a
  <2>1. QED
    BY <1>1, <1>2, <1>3, QuotientBelow
<1>5. c \in Nat /\ c < F
  <2> HIDE DEF b
  <2>1. QED
    BY <1>1, <1>4, QuotientBelow
<1>6. c \div F = 0
  <2> HIDE DEF c
  <2>1. QED
    BY <1>1, <1>5
<1>7. /\ Number(v, 0) = 0 /\ Number(v, 1) = c /\ Number(v, 2) = b /\ Number(v, 3) = a /\ Number(v, 4) = v
      /\ Index(v, 0) = c % F /\ Index(v, 1) = b % F /\ Index(v, 2) = a % F /\ Index(v, 3) = v % F
  BY DEF Number, Index, Shifted
<1>8. \A x \in Nat : x % F \in 0 .. F - 1
  BY <1>1
<1>9. \A k \in 0 .. 4 : Number(v, k) \in Nat
  BY <1>1, <1>3, <1>4, <1>5, <1>7
<1>10. ASSUME NEW k \in 0 .. 3
       PROVE  /\ Number(v, k + 1) \div FANOUT = Number(v, k)
              /\ Number(v, k + 1) % FANOUT = Index(v, k)
              /\ Index(v, k) \in 0 .. FANOUT - 1
  <2>1. CASE k = 0
    BY <1>5, <1>6, <1>7, <1>8, <2>1
  <2>2. CASE k = 1
    BY <1>4, <1>7, <1>8, <2>2
  <2>3. CASE k = 2
    BY <1>3, <1>7, <1>8, <2>3
  <2>4. CASE k = 3
    BY <1>1, <1>7, <1>8, <2>4
  <2>5. QED
    BY <2>1, <2>2, <2>3, <2>4
<1>11. QED
  BY <1>7, <1>9, <1>10

-----------------------------------------------------------------------------
(* The tree of page tables.  e: the entries of the tables, lev: the level of *)
(* a table, -1 if it is not in use, num: its number in its level.            *)

Slots == 0 .. FANOUT - 1

\* The table of level k on the way to page v; at level 4 the frame.
StepDown(e, t, i) == IF t = NONE THEN NONE ELSE e[t][i]
At1(e, v) == StepDown(e, ROOT, Index(v, 0))
At2(e, v) == StepDown(e, At1(e, v), Index(v, 1))
At3(e, v) == StepDown(e, At2(e, v), Index(v, 2))
At4(e, v) == StepDown(e, At3(e, v), Index(v, 3))
At(e, v, k) ==
  IF k = 0 THEN ROOT ELSE IF k = 1 THEN At1(e, v) ELSE IF k = 2 THEN At2(e, v)
  ELSE IF k = 3 THEN At3(e, v) ELSE At4(e, v)

\* An entry of the upper three levels leads to a table of the next level, with
\* the number that the entry stands for.
Below(e, lev, num) ==
  \A t \in Tables, i \in Slots : lev[t] \in 0 .. 2 /\ e[t][i] # NONE =>
    /\ e[t][i] \in Tables /\ lev[e[t][i]] = lev[t] + 1
    /\ num[e[t][i]] \div FANOUT = num[t] /\ num[e[t][i]] % FANOUT = i

\* No two tables stand for the same pages.
Unique(lev, num) ==
  \A t, u \in Tables : lev[t] = lev[u] /\ lev[t] # -1 /\ num[t] = num[u] => t = u

\* Every table in use is reached.
Reached(e, lev) ==
  \A c \in Tables : lev[c] \in 1 .. 3 =>
    \E t \in Tables, i \in Slots : lev[t] = lev[c] - 1 /\ e[t][i] = c

TreeType(e, lev, num) ==
  /\ e \in [Tables -> Entries]
  /\ lev \in [Tables -> -1 .. 3] /\ num \in [Tables -> Nat]
  /\ num[ROOT] = 0 /\ lev[ROOT] = 0 /\ lev[KERNEL_PDP] = 1
  /\ \A t \in Tables : lev[t] = 0 => t = ROOT

Tree(e, lev, num) ==
  TreeType(e, lev, num) /\ Below(e, lev, num) /\ Unique(lev, num) /\ Reached(e, lev)

\* NONE is no table and no frame.
LEMMA NoneIsNothing ==
  /\ ROOT \in Tables /\ KERNEL_PDP \in Tables /\ NONE \notin Tables /\ NONE \notin Frames
  /\ Blocks \subseteq Tables /\ ROOT \notin Blocks /\ KERNEL_PDP \notin Blocks /\ Tables \subseteq Frames
  /\ FANOUT \in Nat /\ FANOUT > 0
  BY VirtMemAssumption DEF Tables, Frames

\* The table on the way to a page has the number of that page in its level.
LEMMA WalkDown ==
  ASSUME NEW e, NEW lev, NEW num, Tree(e, lev, num), NEW v \in Pages, NEW k \in 0 .. 3, At(e, v, k) # NONE
  PROVE  At(e, v, k) \in Tables /\ lev[At(e, v, k)] = k /\ num[At(e, v, k)] = Number(v, k)
<1>1. /\ e \in [Tables -> Entries] /\ num \in [Tables -> Nat]
      /\ num[ROOT] = 0 /\ lev[ROOT] = 0
  BY DEF Tree, TreeType
<1>2. /\ \A j \in 0 .. 4 : Number(v, j) \in Nat
      /\ \A j \in 0 .. 3 : /\ Number(v, j + 1) \div FANOUT = Number(v, j)
                           /\ Number(v, j + 1) % FANOUT = Index(v, j)
                           /\ Index(v, j) \in Slots
  BY Path DEF Slots
<1>3. ASSUME NEW j \in 0 .. 2, NEW t \in Tables, lev[t] = j, num[t] = Number(v, j),
             NEW c, c = e[t][Index(v, j)], c # NONE
      PROVE  c \in Tables /\ lev[c] = j + 1 /\ num[c] = Number(v, j + 1)
  <2>1. Index(v, j) \in Slots /\ j \in 0 .. 3
    BY <1>2
  <2>2. c \in Tables /\ lev[c] = j + 1 /\ num[c] \div FANOUT = num[t] /\ num[c] % FANOUT = Index(v, j)
    BY <1>3, <2>1 DEF Tree, Below
  <2>3. num[c] \in Nat /\ Number(v, j + 1) \in Nat
    BY <1>1, <1>2, <2>2
  <2>4. num[c] = Number(v, j + 1)
    BY <1>2, <1>3, <2>1, <2>2, <2>3, Digits, NoneIsNothing
  <2>5. QED
    BY <2>2, <2>4
<1>4. Number(v, 0) = 0 /\ ROOT \in Tables /\ NONE \notin Tables
  BY NoneIsNothing DEF Number
<1>5. At1(e, v) # NONE => At1(e, v) \in Tables /\ lev[At1(e, v)] = 1 /\ num[At1(e, v)] = Number(v, 1)
  BY <1>1, <1>3, <1>4 DEF At1, StepDown
<1>6. At2(e, v) # NONE => At2(e, v) \in Tables /\ lev[At2(e, v)] = 2 /\ num[At2(e, v)] = Number(v, 2)
  BY <1>3, <1>5 DEF At2, StepDown
<1>7. At3(e, v) # NONE => At3(e, v) \in Tables /\ lev[At3(e, v)] = 3 /\ num[At3(e, v)] = Number(v, 3)
  BY <1>3, <1>6 DEF At3, StepDown
<1>8. QED
  BY <1>1, <1>4, <1>5, <1>6, <1>7 DEF At

\* And a table with the number of a page is on the way to it.
LEMMA WalkUp ==
  ASSUME NEW e, NEW lev, NEW num, Tree(e, lev, num), NEW v \in Pages, NEW k \in 0 .. 3,
         NEW t \in Tables, lev[t] = k, num[t] = Number(v, k)
  PROVE  At(e, v, k) = t
<1>1. \A j \in 0 .. 3 : /\ Number(v, j + 1) \div FANOUT = Number(v, j)
                        /\ Number(v, j + 1) % FANOUT = Index(v, j)
  BY Path
<1>2. ASSUME NEW j \in 0 .. 2, NEW c \in Tables, lev[c] = j + 1, num[c] = Number(v, j + 1)
      PROVE  \E u \in Tables : lev[u] = j /\ num[u] = Number(v, j) /\ e[u][Index(v, j)] = c
  <2>1. PICK u \in Tables, i \in Slots : lev[u] = j /\ e[u][i] = c
    BY <1>2 DEF Tree, Reached
  <2>2. c # NONE
    BY NoneIsNothing
  <2>3. num[c] \div FANOUT = num[u] /\ num[c] % FANOUT = i
    BY <1>2, <2>1, <2>2 DEF Tree, Below
  <2>4. num[u] = Number(v, j) /\ i = Index(v, j)
    BY <1>1, <1>2, <2>3
  <2>5. QED
    BY <2>1, <2>4
<1>3. \A c \in Tables : lev[c] = 0 => c = ROOT
  BY DEF Tree, TreeType
<1>4. NONE \notin Tables
  BY NoneIsNothing
<1>5. ASSUME NEW c \in Tables, lev[c] = 1, num[c] = Number(v, 1) PROVE At1(e, v) = c
  <2>1. \E u \in Tables : lev[u] = 0 /\ e[u][Index(v, 0)] = c
    BY <1>2, <1>5
  <2>2. QED
    BY <1>3, <1>4, <2>1 DEF At1, StepDown
<1>6. ASSUME NEW c \in Tables, lev[c] = 2, num[c] = Number(v, 2) PROVE At2(e, v) = c
  <2>1. \E u \in Tables : lev[u] = 1 /\ num[u] = Number(v, 1) /\ e[u][Index(v, 1)] = c
    BY <1>2, <1>6
  <2>2. QED
    BY <1>4, <1>5, <2>1 DEF At2, StepDown
<1>7. ASSUME NEW c \in Tables, lev[c] = 3, num[c] = Number(v, 3) PROVE At3(e, v) = c
  <2>1. \E u \in Tables : lev[u] = 2 /\ num[u] = Number(v, 2) /\ e[u][Index(v, 2)] = c
    BY <1>2, <1>7
  <2>2. QED
    BY <1>4, <1>6, <2>1 DEF At3, StepDown
<1>8. QED
  BY <1>3, <1>5, <1>6, <1>7 DEF At

\* Frames are looked up in the table of level 3.
LEMMA Frame ==
  ASSUME NEW e, NEW v
  PROVE  At(e, v, 4) = StepDown(e, At(e, v, 3), Index(v, 3))
  BY DEF At, At4

\* Two pages never share an entry.
LEMMA OneEntryEach ==
  ASSUME NEW e, NEW lev, NEW num, Tree(e, lev, num), NEW u \in Pages, NEW v \in Pages,
         At(e, u, 3) = At(e, v, 3), At(e, u, 3) # NONE, Index(u, 3) = Index(v, 3)
  PROVE  u = v
<1>1. num[At(e, u, 3)] = Number(u, 3) /\ num[At(e, v, 3)] = Number(v, 3)
  BY WalkDown
<1>2. Number(u, 3) = Number(v, 3)
  BY <1>1
<1>3. /\ Number(u, 4) = u /\ Number(u, 4) \div FANOUT = Number(u, 3) /\ Number(u, 4) % FANOUT = Index(u, 3)
      /\ Number(v, 4) = v /\ Number(v, 4) \div FANOUT = Number(v, 3) /\ Number(v, 4) % FANOUT = Index(v, 3)
  <2>1. \A k \in 0 .. 3 : k = 3 => k + 1 = 4
    OBVIOUS
  <2>2. QED
    BY <2>1, Path
<1>4. u \in Nat /\ v \in Nat /\ FANOUT \in Nat /\ FANOUT > 0
  BY VirtMemAssumption DEF Pages
<1>5. QED
  BY <1>2, <1>3, <1>4, Digits

\* Two trees with the same tables have the same paths.
LEMMA SamePaths ==
  ASSUME NEW e, NEW f, NEW lev, NEW num, Tree(e, lev, num), Tree(f, lev, num), NEW v \in Pages, NEW k \in 0 .. 3
  PROVE  At(f, v, k) = At(e, v, k)
<1>1. CASE At(e, v, k) # NONE
  <2>1. At(e, v, k) \in Tables /\ lev[At(e, v, k)] = k /\ num[At(e, v, k)] = Number(v, k)
    BY <1>1, WalkDown
  <2>2. QED
    BY <2>1, WalkUp
<1>2. CASE At(f, v, k) # NONE
  <2>1. At(f, v, k) \in Tables /\ lev[At(f, v, k)] = k /\ num[At(f, v, k)] = Number(v, k)
    BY <1>2, WalkDown
  <2>2. QED
    BY <2>1, WalkUp
<1>3. QED
  BY <1>1, <1>2

\* A change in tables of the last level, and in tables not in use, leaves the
\* tree as it is.
LEMMA LeavesChange ==
  ASSUME NEW e, NEW f, NEW lev, NEW num, Tree(e, lev, num), f \in [Tables -> Entries],
         \A t \in Tables : lev[t] \in 0 .. 2 => f[t] = e[t]
  PROVE  Tree(f, lev, num)
<1>1. TreeType(f, lev, num)
  BY DEF Tree, TreeType
<1>2. Below(f, lev, num)
  BY DEF Tree, Below
<1>3. Reached(f, lev)
  <2> SUFFICES ASSUME NEW c \in Tables, lev[c] \in 1 .. 3
               PROVE  \E t \in Tables, i \in Slots : lev[t] = lev[c] - 1 /\ f[t][i] = c
    BY DEF Reached
  <2>1. PICK t \in Tables, i \in Slots : lev[t] = lev[c] - 1 /\ e[t][i] = c
    BY DEF Tree, Reached
  <2>2. lev[t] \in 0 .. 2
    BY <2>1
  <2>3. QED
    BY <2>1, <2>2
<1>4. QED
  BY <1>1, <1>2, <1>3 DEF Tree

\* The translations of a tree that has one table more, an empty one.
LEMMA NewTablePaths ==
  ASSUME NEW e, NEW lev, NEW num, Tree(e, lev, num), NEW f, NEW lev2, NEW num2, Tree(f, lev2, num2),
         NEW b \in Tables, lev[b] = -1, f[b] = Empty,
         \A x \in Tables : x # b => lev2[x] = lev[x],
         \A x \in Tables : x # b => num2[x] = num[x],
         \A x \in Tables : lev[x] = 3 => f[x] = e[x],
         NEW u \in Pages
  PROVE  At(f, u, 4) = At(e, u, 4)
<1> DEFINE x == At(f, u, 3)
           y == At(e, u, 3)
<1>1. Index(u, 3) \in Slots
  BY Path DEF Slots
<1>2. y # NONE => y \in Tables /\ lev[y] = 3 /\ num[y] = Number(u, 3)
  BY WalkDown
<1>3. x # NONE => x \in Tables /\ lev2[x] = 3 /\ num2[x] = Number(u, 3)
  BY WalkDown
<1>4. ASSUME NEW z \in Tables, lev2[z] = 3, num2[z] = Number(u, 3) PROVE x = z
  BY <1>4, WalkUp
<1>5. ASSUME NEW z \in Tables, lev[z] = 3, num[z] = Number(u, 3) PROVE y = z
  BY <1>5, WalkUp
<1> HIDE DEF x, y
<1>6. y # NONE => x = y /\ y # b
  <2> SUFFICES ASSUME y # NONE PROVE x = y /\ y # b
    OBVIOUS
  <2>1. y # b
    BY <1>2
  <2>2. lev2[y] = 3 /\ num2[y] = Number(u, 3)
    BY <1>2, <2>1
  <2>3. QED
    BY <1>2, <1>4, <2>1, <2>2
<1>7. x # NONE /\ x # b => y = x
  BY <1>3, <1>5
<1>8. StepDown(f, x, Index(u, 3)) = StepDown(e, y, Index(u, 3))
  <2>1. CASE x = b
    <3>1. Empty[Index(u, 3)] = NONE /\ b # NONE
      BY <1>1, NoneIsNothing DEF Empty, Slots
    <3>2. QED
      BY <1>6, <2>1, <3>1 DEF StepDown
  <2>2. CASE x = NONE
    BY <1>6, <2>2 DEF StepDown
  <2>3. CASE x # b /\ x # NONE
    <3>1. y = x /\ x \in Tables /\ lev[x] = 3
      BY <1>3, <1>7, <2>3
    <3>2. QED
      BY <2>3, <3>1 DEF StepDown
  <2>4. QED
    BY <2>1, <2>2, <2>3
<1>9. QED
  BY <1>8, Frame DEF x, y

\* Tables f: those of e with a new, empty table b in slot i0 of table t.
Grown(e, f, t, i0, b) ==
  /\ f \in [Tables -> Entries] /\ f[b] = Empty /\ f[t][i0] = b
  /\ \A i \in Slots : i # i0 => f[t][i] = e[t][i]
  /\ \A x \in Tables : x # t /\ x # b => f[x] = e[x]

\* What NewTable makes of the entries.
LEMMA GrownBy ==
  ASSUME NEW e \in [Tables -> Entries], NEW t \in Tables, NEW i0 \in Slots, NEW b \in Blocks, b # t
  PROVE  Grown(e, [e EXCEPT ![t][i0] = b, ![b] = Empty], t, i0, b)
<1> DEFINE f == [e EXCEPT ![t][i0] = b, ![b] = Empty]
           row == [e[t] EXCEPT ![i0] = b]
           g == [e EXCEPT ![t] = row]
<1>1. e[t] \in Entries /\ b \in Frames \cup {NONE} /\ Empty \in Entries /\ b \in Tables
  BY NoneIsNothing DEF Empty, Entries
<1>2. row \in Entries /\ row[i0] = b /\ \A i \in Slots : i # i0 => row[i] = e[t][i]
  BY <1>1 DEF Entries, Slots
<1>3. f = [g EXCEPT ![b] = Empty]
  OBVIOUS
<1> HIDE DEF row
<1>4. g \in [Tables -> Entries] /\ g[t] = row /\ \A x \in Tables : x # t => g[x] = e[x]
  BY <1>2
<1> HIDE DEF g
<1>5. f \in [Tables -> Entries] /\ f[b] = Empty /\ \A x \in Tables : x # b => f[x] = g[x]
  BY <1>1, <1>3, <1>4
<1> HIDE DEF f
<1>6. Grown(e, f, t, i0, b)
  BY <1>2, <1>4, <1>5 DEF Grown
<1>7. QED
  BY <1>6 DEF f

\* A function after one change.
Changed(f, g, x, y) == g = [f EXCEPT ![x] = y]

\* map_create_table: a new, empty table below the last table on the way to a
\* page makes a larger tree, and changes no translation.
LEMMA NewTableTree ==
  ASSUME NEW e, NEW lev, NEW num, Tree(e, lev, num), NEW v \in Pages, NEW k \in 0 .. 2,
         At(e, v, k) # NONE, At(e, v, k + 1) = NONE, NEW b \in Blocks, lev[b] = -1,
         NEW f, Grown(e, f, At(e, v, k), Index(v, k), b),
         NEW lev2, Changed(lev, lev2, b, k + 1), NEW num2, Changed(num, num2, b, Number(v, k + 1))
  PROVE  Tree(f, lev2, num2) /\ \A u \in Pages : At(f, u, 4) = At(e, u, 4)
<1> DEFINE t == At(e, v, k)
           i0 == Index(v, k)
<1>1. /\ e \in [Tables -> Entries] /\ lev \in [Tables -> -1 .. 3] /\ num \in [Tables -> Nat]
      /\ num[ROOT] = 0 /\ lev[ROOT] = 0 /\ lev[KERNEL_PDP] = 1
      /\ \A x \in Tables : lev[x] = 0 => x = ROOT
  BY DEF Tree, TreeType
<1>2. /\ t \in Tables /\ lev[t] = k /\ num[t] = Number(v, k)
      /\ b \in Tables /\ b # NONE /\ b # t /\ NONE \notin Tables
      /\ k \in 0 .. 3
  BY WalkDown, NoneIsNothing
<1>3. /\ Number(v, k + 1) \in Nat /\ Number(v, k + 1) \div FANOUT = Number(v, k)
      /\ Number(v, k + 1) % FANOUT = i0 /\ i0 \in Slots
  BY Path DEF Slots
<1>4. e[t][i0] = NONE
  <2>1. CASE k = 0
    BY <1>2, <2>1 DEF At, At1, StepDown
  <2>2. CASE k = 1
    BY <1>2, <2>2 DEF At, At2, StepDown
  <2>3. CASE k = 2
    BY <1>2, <2>3 DEF At, At3, StepDown
  <2>4. QED
    BY <2>1, <2>2, <2>3
<1>5. Empty \in Entries /\ \A i \in Slots : Empty[i] = NONE
  BY DEF Empty, Entries, Slots
<1>6. /\ f \in [Tables -> Entries] /\ f[b] = Empty /\ f[t][i0] = b
      /\ \A i \in Slots : i # i0 => f[t][i] = e[t][i]
      /\ \A x \in Tables : x # t /\ x # b => f[x] = e[x]
  BY DEF Grown
<1> HIDE DEF t, i0
<1>7. /\ lev2[b] = k + 1 /\ \A x \in Tables : x # b => lev2[x] = lev[x]
      /\ num2[b] = Number(v, k + 1) /\ \A x \in Tables : x # b => num2[x] = num[x]
      /\ lev2 \in [Tables -> -1 .. 3] /\ num2 \in [Tables -> Nat]
  <2>1. lev2 = [lev EXCEPT ![b] = k + 1] /\ num2 = [num EXCEPT ![b] = Number(v, k + 1)]
    BY DEF Changed
  <2>2. k + 1 \in -1 .. 3
    OBVIOUS
  <2>3. QED
    BY <1>1, <1>2, <1>3, <2>1, <2>2
<1>8. TreeType(f, lev2, num2)
  <2>1. ROOT # b /\ KERNEL_PDP # b /\ ROOT \in Tables /\ KERNEL_PDP \in Tables
    BY NoneIsNothing
  <2>2. \A x \in Tables : lev2[x] = 0 => x = ROOT
    BY <1>1, <1>7
  <2>3. QED
    BY <1>1, <1>6, <1>7, <2>1, <2>2 DEF TreeType
<1>9. Below(f, lev2, num2)
  <2> SUFFICES ASSUME NEW x \in Tables, NEW i \in Slots, lev2[x] \in 0 .. 2, f[x][i] # NONE
               PROVE  /\ f[x][i] \in Tables /\ lev2[f[x][i]] = lev2[x] + 1
                      /\ num2[f[x][i]] \div FANOUT = num2[x] /\ num2[f[x][i]] % FANOUT = i
    BY DEF Below
  <2>1. x # b
    BY <1>5, <1>6
  <2>2. CASE x = t /\ i = i0
    <3>1. f[x][i] = b /\ lev2[x] = k /\ num2[x] = Number(v, k)
      BY <1>2, <1>6, <1>7, <2>2
    <3>2. QED
      BY <1>2, <1>3, <1>7, <2>2, <3>1
  <2>3. CASE ~(x = t /\ i = i0)
    <3>1. f[x][i] = e[x][i] /\ lev2[x] = lev[x] /\ num2[x] = num[x]
      BY <1>6, <1>7, <2>1, <2>3
    <3>2. /\ e[x][i] \in Tables /\ lev[e[x][i]] = lev[x] + 1
          /\ num[e[x][i]] \div FANOUT = num[x] /\ num[e[x][i]] % FANOUT = i
      BY <3>1 DEF Tree, Below
    <3>3. e[x][i] # b
      BY <1>1, <3>1, <3>2
    <3>4. QED
      BY <1>7, <3>1, <3>2, <3>3
  <2>4. QED
    BY <2>2, <2>3
<1>10. Unique(lev2, num2)
  <2>1. \A x \in Tables : ~(lev[x] = k + 1 /\ num[x] = Number(v, k + 1))
    <3> SUFFICES ASSUME NEW x \in Tables, lev[x] = k + 1, num[x] = Number(v, k + 1) PROVE FALSE
      OBVIOUS
    <3>1. At(e, v, k + 1) = x
      BY WalkUp
    <3>2. QED
      BY <1>2, <3>1
  <2>2. QED
    BY <1>7, <2>1 DEF Tree, Unique
<1>11. Reached(f, lev2)
  <2> SUFFICES ASSUME NEW c \in Tables, lev2[c] \in 1 .. 3
               PROVE  \E x \in Tables, i \in Slots : lev2[x] = lev2[c] - 1 /\ f[x][i] = c
    BY DEF Reached
  <2>1. CASE c = b
    <3>1. lev2[t] = lev2[c] - 1 /\ f[t][i0] = c
      BY <1>2, <1>6, <1>7, <2>1
    <3>2. QED
      BY <1>2, <1>3, <3>1
  <2>2. CASE c # b
    <3>1. lev[c] \in 1 .. 3 /\ lev2[c] = lev[c]
      BY <1>7, <2>2
    <3>2. PICK x \in Tables, i \in Slots : lev[x] = lev[c] - 1 /\ e[x][i] = c
      BY <3>1 DEF Tree, Reached
    <3>3. x # b /\ ~(x = t /\ i = i0)
      BY <1>2, <1>4, <3>1, <3>2
    <3>4. f[x][i] = c /\ lev2[x] = lev[x]
      BY <1>6, <1>7, <3>2, <3>3
    <3>5. QED
      BY <3>1, <3>2, <3>4
  <2>3. QED
    BY <2>1, <2>2
<1>12. Tree(f, lev2, num2)
  BY <1>8, <1>9, <1>10, <1>11 DEF Tree
<1>13. ASSUME NEW u \in Pages PROVE At(f, u, 4) = At(e, u, 4)
  <2>1. \A x \in Tables : lev[x] = 3 => f[x] = e[x]
    BY <1>2, <1>6
  <2>2. QED
    BY <1>2, <1>6, <1>7, <1>12, <2>1, NewTablePaths
<1>14. QED
  BY <1>12, <1>13

\* Tables f: those of e with x in slot i of table t.
Set(e, f, t, i, x) == f = [e EXCEPT ![t][i] = x]

\* map_set_entry: an entry of a table of the last level is the translation of
\* one page.
LEMMA SetLeaf ==
  ASSUME NEW e, NEW lev, NEW num, Tree(e, lev, num), NEW v \in Pages, At(e, v, 3) # NONE,
         NEW x \in Frames \cup {NONE}, NEW f, Set(e, f, At(e, v, 3), Index(v, 3), x)
  PROVE  /\ Tree(f, lev, num) /\ At(f, v, 4) = x
         /\ \A u \in Pages : u # v => At(f, u, 4) = At(e, u, 4)
<1> DEFINE t == At(e, v, 3)
           i == Index(v, 3)
<1>1. t \in Tables /\ lev[t] = 3 /\ i \in Slots
  BY WalkDown, Path DEF Slots
<1>2. e \in [Tables -> Entries]
  BY DEF Tree, TreeType
<1>3. f = [e EXCEPT ![t] = [e[t] EXCEPT ![i] = x]]
  BY DEF Set
<1> HIDE DEF t, i
<1>4. /\ f \in [Tables -> Entries] /\ f[t][i] = x
      /\ \A j \in Slots : j # i => f[t][j] = e[t][j]
      /\ \A y \in Tables : y # t => f[y] = e[y]
  <2> DEFINE row == [e[t] EXCEPT ![i] = x]
  <2>1. row \in Entries /\ row[i] = x /\ \A j \in Slots : j # i => row[j] = e[t][j]
    BY <1>1, <1>2 DEF Entries, Slots
  <2> HIDE DEF row
  <2>2. f = [e EXCEPT ![t] = row]
    BY <1>3 DEF row
  <2>3. QED
    BY <1>1, <1>2, <2>1, <2>2
<1>5. \A y \in Tables : lev[y] \in 0 .. 2 => f[y] = e[y]
  BY <1>1, <1>4
<1>6. Tree(f, lev, num)
  BY <1>4, <1>5, LeavesChange
<1>7. ASSUME NEW u \in Pages PROVE At(f, u, 4) = StepDown(f, At(e, u, 3), Index(u, 3))
  <2>1. At(f, u, 3) = At(e, u, 3)
    BY <1>6, SamePaths
  <2>2. QED
    BY <2>1, Frame
<1>8. At(f, v, 4) = x
  BY <1>1, <1>4, <1>7, NoneIsNothing DEF StepDown, t, i
<1>9. ASSUME NEW u \in Pages, u # v PROVE At(f, u, 4) = At(e, u, 4)
  <2>1. ~(At(e, u, 3) = t /\ Index(u, 3) = i)
    BY <1>9, OneEntryEach DEF t, i
  <2>2. At(e, u, 3) # NONE => At(e, u, 3) \in Tables
    BY WalkDown
  <2>3. Index(u, 3) \in Slots
    BY Path DEF Slots
  <2>4. StepDown(f, At(e, u, 3), Index(u, 3)) = StepDown(e, At(e, u, 3), Index(u, 3))
    BY <1>4, <2>1, <2>2, <2>3 DEF StepDown
  <2>5. QED
    BY <1>7, <2>4, Frame
<1>10. QED
  BY <1>6, <1>8, <1>9

\* Tables f: those of e without the translations of a range of pages.
Cleared(e, f, range) ==
  f = [t \in Tables |-> [i \in Slots |->
         IF \E v \in range : At(e, v, 3) = t /\ Index(v, 3) = i THEN NONE ELSE e[t][i]]]

\* vmm_unmap: the pages of the range lose their translation, the others keep it.
LEMMA ClearRange ==
  ASSUME NEW e, NEW lev, NEW num, Tree(e, lev, num), NEW range \in SUBSET Pages,
         NEW f, Cleared(e, f, range)
  PROVE  /\ Tree(f, lev, num)
         /\ \A u \in Pages : At(f, u, 4) = IF u \in range THEN NONE ELSE At(e, u, 4)
<1>1. e \in [Tables -> Entries]
  BY DEF Tree, TreeType
<1>2. \A t \in Tables, i \in Slots :
        f[t][i] = IF \E v \in range : At(e, v, 3) = t /\ Index(v, 3) = i THEN NONE ELSE e[t][i]
  BY DEF Cleared
<1>3. f \in [Tables -> Entries]
  <2>1. \A t \in Tables : e[t] \in [Slots -> Frames \cup {NONE}]
    BY <1>1 DEF Entries, Slots
  <2>2. \A t \in Tables : [i \in Slots |->
           IF \E v \in range : At(e, v, 3) = t /\ Index(v, 3) = i THEN NONE ELSE e[t][i]] \in [Slots -> Frames \cup {NONE}]
    BY <2>1
  <2>3. QED
    BY <2>2 DEF Cleared, Entries, Slots
<1>4. ASSUME NEW t \in Tables, lev[t] \in 0 .. 2 PROVE f[t] = e[t]
  <2>1. ASSUME NEW v \in range PROVE At(e, v, 3) # t
    <3>1. v \in Pages /\ t # NONE
      BY NoneIsNothing
    <3>2. At(e, v, 3) # NONE => lev[At(e, v, 3)] = 3
      BY <3>1, WalkDown
    <3>3. QED
      BY <1>4, <3>1, <3>2
  <2>2. \A i \in Slots : f[t][i] = e[t][i]
    BY <1>2, <2>1
  <2>3. e[t] \in [Slots -> Frames \cup {NONE}] /\ f[t] \in [Slots -> Frames \cup {NONE}]
    BY <1>1, <1>3 DEF Entries, Slots
  <2>4. QED
    BY <2>2, <2>3
<1>5. Tree(f, lev, num)
  BY <1>3, <1>4, LeavesChange
<1>6. ASSUME NEW u \in Pages PROVE At(f, u, 4) = IF u \in range THEN NONE ELSE At(e, u, 4)
  <2>1. At(f, u, 4) = StepDown(f, At(e, u, 3), Index(u, 3)) /\ At(e, u, 4) = StepDown(e, At(e, u, 3), Index(u, 3))
    <3>1. At(f, u, 3) = At(e, u, 3)
      BY <1>5, SamePaths
    <3>2. QED
      BY <3>1, Frame
  <2>2. CASE At(e, u, 3) = NONE
    BY <2>1, <2>2 DEF StepDown
  <2>3. CASE At(e, u, 3) # NONE
    <3> DEFINE t == At(e, u, 3)
               i == Index(u, 3)
    <3>1. t \in Tables /\ i \in Slots
      BY <2>3, WalkDown, Path DEF Slots
    <3>2. (\E v \in range : At(e, v, 3) = t /\ Index(v, 3) = i) <=> u \in range
      <4>1. ASSUME NEW v \in range, At(e, v, 3) = t, Index(v, 3) = i PROVE u = v
        <5>1. v \in Pages
          OBVIOUS
        <5>2. QED
          BY <2>3, <4>1, <5>1, OneEntryEach
      <4>2. QED
        BY <4>1
    <3>3. f[t][i] = IF u \in range THEN NONE ELSE e[t][i]
      BY <1>2, <3>1, <3>2
    <3>4. QED
      BY <2>1, <2>3, <3>3 DEF StepDown
  <2>4. QED
    BY <2>2, <2>3
<1>7. QED
  BY <1>5, <1>6

\* The blocks of the tables in use.
InUse(lev) == {b \in Blocks : lev[b] # -1}

Kids(e, tables) == {e[t][i] : t \in tables, i \in Slots} \ {NONE}

\* The tables below those of a level are those of the next level.
LEMMA NextLevel ==
  ASSUME NEW e, NEW lev, NEW num, Tree(e, lev, num), NEW k \in 0 .. 2
  PROVE  Kids(e, {t \in Tables : lev[t] = k}) = {t \in Tables : lev[t] = k + 1}
<1>1. ASSUME NEW t \in Tables, lev[t] = k, NEW i \in Slots, e[t][i] # NONE
      PROVE  e[t][i] \in Tables /\ lev[e[t][i]] = k + 1
  BY <1>1 DEF Tree, Below
<1>2. ASSUME NEW c \in Tables, lev[c] = k + 1 PROVE \E t \in Tables, i \in Slots : lev[t] = k /\ e[t][i] = c
  BY <1>2 DEF Tree, Reached
<1>3. NONE \notin Tables
  BY NoneIsNothing
<1>4. QED
  BY <1>1, <1>2, <1>3 DEF Kids

\* TableBlocks, of entries e.
TablesOf(e) ==
  (Kids(e, {ROOT}) \cup Kids(e, Kids(e, {ROOT})) \cup Kids(e, Kids(e, Kids(e, {ROOT})))) \cap Blocks

\* They are the tables of the levels below the root.
LEMMA TablesInUse ==
  ASSUME NEW e, NEW lev, NEW num, Tree(e, lev, num)
  PROVE  TablesOf(e) = InUse(lev)
<1>1. {t \in Tables : lev[t] = 0} = {ROOT}
  BY NoneIsNothing DEF Tree, TreeType
<1>2. Kids(e, {t \in Tables : lev[t] = 0}) = {t \in Tables : lev[t] = 1}
  <2>1. \A k \in 0 .. 2 : k = 0 => Kids(e, {t \in Tables : lev[t] = k}) = {t \in Tables : lev[t] = k + 1}
    BY NextLevel
  <2>2. QED
    BY <2>1
<1>3. Kids(e, {t \in Tables : lev[t] = 1}) = {t \in Tables : lev[t] = 2}
  <2>1. \A k \in 0 .. 2 : k = 1 => Kids(e, {t \in Tables : lev[t] = k}) = {t \in Tables : lev[t] = k + 1}
    BY NextLevel
  <2>2. QED
    BY <2>1
<1>4. Kids(e, {t \in Tables : lev[t] = 2}) = {t \in Tables : lev[t] = 3}
  <2>1. \A k \in 0 .. 2 : k = 2 => Kids(e, {t \in Tables : lev[t] = k}) = {t \in Tables : lev[t] = k + 1}
    BY NextLevel
  <2>2. QED
    BY <2>1
<1>5. TablesOf(e) = ({t \in Tables : lev[t] = 1} \cup {t \in Tables : lev[t] = 2}
                     \cup {t \in Tables : lev[t] = 3}) \cap Blocks
  BY <1>1, <1>2, <1>3, <1>4 DEF TablesOf
<1>6. \A b \in Blocks : b \in Tables /\ lev[b] \in -1 .. 3 /\ lev[b] # 0
  BY NoneIsNothing DEF Tree, TreeType
<1>7. QED
  BY <1>5, <1>6 DEF InUse

\* Walk, TableBlocks and vmm_get_physical_addr, in this state and in the next.
LEMMA Walking ==
  ASSUME NEW v
  PROVE  /\ Walk(v)[1] = At(entries, v, 0) /\ Walk(v)[2] = At(entries, v, 1)
         /\ Walk(v)[3] = At(entries, v, 2) /\ Walk(v)[4] = At(entries, v, 3)
         /\ vmm_get_physical_addr(v) = At(entries, v, 4)
  BY NoneIsNothing DEF Walk, Entry, At, At1, At2, At3, At4, StepDown, vmm_get_physical_addr

\* The same in the next state.
LEMMA WalkingNext ==
  ASSUME NEW CONSTANT v
  PROVE  vmm_get_physical_addr(v)' = At(entries', v, 4)
  BY NoneIsNothing DEF Walk, Entry, At, At1, At2, At3, At4, StepDown, vmm_get_physical_addr

\* The kernel's own tables.
LEMMA TheTables == TableBlocks = TablesOf(entries) /\ TableBlocks' = TablesOf(entries')
  BY DEF TableBlocks, TablesOf, Children, Kids, Slots

\* Limine's tables: the root and one table below it.
StartLevel == [t \in Tables |-> IF t = ROOT THEN 0 ELSE IF t = KERNEL_PDP THEN 1 ELSE -1]
StartNumber == [t \in Tables |-> IF t = KERNEL_PDP THEN Number(MMIO_VIRTUAL_BASE, 1) ELSE 0]

\* The tables the kernel is started with are a tree, and translate no page.
LEMMA StartTree ==
  ASSUME VirtMemInit
  PROVE  /\ Tree(entries, StartLevel, StartNumber) /\ InUse(StartLevel) = {}
         /\ \A v \in Pages : vmm_get_physical_addr(v) = NONE
<1> DEFINE B == MMIO_VIRTUAL_BASE
           j == Index(B, 0)
<1>1. /\ ROOT \in Tables /\ KERNEL_PDP \in Tables /\ ROOT # KERNEL_PDP /\ NONE \notin Tables
      /\ ROOT \notin Blocks /\ KERNEL_PDP \notin Blocks /\ B \in Pages
      /\ Tables \subseteq Frames /\ Tables = Blocks \cup {ROOT, KERNEL_PDP}
  BY NoneIsNothing, VirtMemAssumption DEF Tables
<1>2. /\ j \in Slots /\ Number(B, 1) \in Nat /\ Number(B, 1) \div FANOUT = 0 /\ Number(B, 1) % FANOUT = j
  <2>1. Number(B, 0) = 0 /\ \A k \in 0 .. 3 : k = 0 => k + 1 = 1
    BY DEF Number
  <2>2. QED
    BY <1>1, <2>1, Path DEF Slots
<1>3. Empty \in Entries /\ \A i \in Slots : Empty[i] = NONE
  BY DEF Empty, Entries, Slots
<1>4. [Empty EXCEPT ![j] = KERNEL_PDP] \in Entries
  BY <1>1, <1>2, <1>3 DEF Entries, Slots
<1>5. \A t \in Tables : [i \in Slots |-> t] \in Entries
  BY <1>1 DEF Entries, Slots
<1>6. entries = [t \in Tables |->
       CASE t = ROOT -> [Empty EXCEPT ![j] = KERNEL_PDP]
         [] t = KERNEL_PDP -> Empty
         [] OTHER -> [i \in Slots |-> t]]
  BY DEF VirtMemInit, Slots
<1>7. entries[ROOT] = [Empty EXCEPT ![j] = KERNEL_PDP] /\ entries[KERNEL_PDP] = Empty
  BY <1>1, <1>6
<1>8. entries \in [Tables -> Entries]
  BY <1>3, <1>4, <1>5, <1>6
<1>9. \A i \in Slots : entries[ROOT][i] = IF i = j THEN KERNEL_PDP ELSE NONE
  BY <1>2, <1>3, <1>7 DEF Empty, Slots
<1> HIDE DEF j
<1>10. /\ StartLevel \in [Tables -> -1 .. 3] /\ StartNumber \in [Tables -> Nat]
       /\ StartLevel[ROOT] = 0 /\ StartLevel[KERNEL_PDP] = 1 /\ StartNumber[ROOT] = 0
       /\ StartNumber[KERNEL_PDP] = Number(B, 1)
       /\ \A t \in Tables : t # ROOT /\ t # KERNEL_PDP => StartLevel[t] = -1
  BY <1>1, <1>2 DEF StartLevel, StartNumber
<1>11. TreeType(entries, StartLevel, StartNumber)
  BY <1>8, <1>10 DEF TreeType
<1>12. Below(entries, StartLevel, StartNumber)
  <2> SUFFICES ASSUME NEW t \in Tables, NEW i \in Slots, StartLevel[t] \in 0 .. 2, entries[t][i] # NONE
               PROVE  /\ entries[t][i] \in Tables /\ StartLevel[entries[t][i]] = StartLevel[t] + 1
                      /\ StartNumber[entries[t][i]] \div FANOUT = StartNumber[t]
                      /\ StartNumber[entries[t][i]] % FANOUT = i
    BY DEF Below
  <2>a. t = ROOT \/ t = KERNEL_PDP
    BY <1>10
  <2>b. t # KERNEL_PDP
    BY <1>3, <1>7
  <2>1. t = ROOT /\ i = j
    BY <1>9, <2>a, <2>b
  <2>2. QED
    BY <1>1, <1>2, <1>9, <1>10, <2>1
<1>13. Unique(StartLevel, StartNumber)
  BY <1>10 DEF Unique
<1>14. Reached(entries, StartLevel)
  <2> SUFFICES ASSUME NEW c \in Tables, StartLevel[c] \in 1 .. 3
               PROVE  \E t \in Tables, i \in Slots : StartLevel[t] = StartLevel[c] - 1 /\ entries[t][i] = c
    BY DEF Reached
  <2>1. c = KERNEL_PDP
    BY <1>10
  <2>2. StartLevel[ROOT] = StartLevel[c] - 1 /\ entries[ROOT][j] = c
    BY <1>2, <1>9, <1>10, <2>1
  <2>3. QED
    BY <1>1, <1>2, <2>2
<1>15. Tree(entries, StartLevel, StartNumber)
  BY <1>11, <1>12, <1>13, <1>14 DEF Tree
<1>16. InUse(StartLevel) = {}
  BY <1>1, <1>10 DEF InUse
<1>17. ASSUME NEW v \in Pages PROVE vmm_get_physical_addr(v) = NONE
  <2>1. Index(v, 0) \in Slots /\ Index(v, 1) \in Slots
    BY Path DEF Slots
  <2>2. At1(entries, v) \in {KERNEL_PDP, NONE}
    BY <1>1, <1>9, <2>1 DEF At1, StepDown
  <2>3. At2(entries, v) = NONE
    BY <1>3, <1>7, <2>1, <2>2 DEF At2, StepDown
  <2>4. At(entries, v, 4) = NONE
    BY <2>3 DEF At, At3, At4, StepDown
  <2>5. QED
    BY <2>4, Walking
<1>18. QED
  BY <1>15, <1>16, <1>17

\* Depth is the level of the last table on the way to the page that is mapped.
LEMMA DepthIs ==
  /\ Depth \in 0 .. 3 /\ At(entries, ThisPage, Depth) # NONE
  /\ Depth < 3 => At(entries, ThisPage, Depth + 1) = NONE
  /\ Table(Depth) = At(entries, ThisPage, Depth)
<1> DEFINE v == ThisPage
<1>1. \A k \in 0 .. 3 : Table(k) = At(entries, v, k)
  BY Walking DEF Table
<1>2. At(entries, v, 0) # NONE
  BY NoneIsNothing DEF At
<1> HIDE DEF v
<1>3. \E k \in 0 .. 3 : Table(k) # NONE /\ (k = 3 \/ Table(k + 1) = NONE)
  <2>1. CASE At(entries, v, 1) = NONE
    BY <1>1, <1>2, <2>1
  <2>2. CASE At(entries, v, 1) # NONE /\ At(entries, v, 2) = NONE
    BY <1>1, <2>2
  <2>3. CASE At(entries, v, 2) # NONE /\ At(entries, v, 3) = NONE
    BY <1>1, <2>3
  <2>4. CASE At(entries, v, 3) # NONE
    BY <1>1, <2>4
  <2>5. QED
    BY <2>1, <2>2, <2>3, <2>4
<1>4. Depth \in 0 .. 3 /\ Table(Depth) # NONE /\ (Depth = 3 \/ Table(Depth + 1) = NONE)
  BY <1>3 DEF Depth
<1>5. QED
  BY <1>1, <1>4 DEF v

-----------------------------------------------------------------------------
(* The pages *)

\* q is the run of n blocks at b.
IsRun(q, b, n) == q = [start |-> b, count |-> n]

BlocksOf(runs) == {b \in Blocks : \E r \in runs : b \in RunBlocks(r)}

\* The runs that are out are not empty, lie in memory, are marked as used and do
\* not overlap.
RunsOK(runs, marked) ==
  /\ runs \subseteq RunType
  /\ \A r \in runs : r.count > 0 /\ RunBlocks(r) \subseteq Blocks /\ RunBlocks(r) \subseteq marked
  /\ \A r, s \in runs : r # s => RunBlocks(r) \cap RunBlocks(s) = {}

PagesInv == booting = FALSE /\ RunsOK(live, used) /\ others \subseteq live

\* A run begins with its first block.
LEMMA RunStarts ==
  ASSUME NEW r \in RunType, r.count > 0
  PROVE  r.start \in RunBlocks(r)
  BY DEF RunType, RunBlocks, Run

\* Runs with the same first block are the same.
LEMMA OneRunEach ==
  ASSUME NEW runs, NEW marked, RunsOK(runs, marked), NEW r \in runs, NEW s \in runs, r.start = s.start
  PROVE  r = s
<1>1. r \in RunType /\ s \in RunType /\ r.count > 0 /\ s.count > 0
  BY DEF RunsOK
<1>2. r.start \in RunBlocks(r) /\ r.start \in RunBlocks(s)
  BY <1>1, RunStarts
<1>3. QED
  BY <1>2 DEF RunsOK

\* n blocks at b are in memory and not marked.
NotMarked(b, n, marked) == b + n <= TotalBlocks /\ Run(b, n) \cap marked = {}

\* A free run of n blocks at b can be handed out.
LEMMA TakeRun ==
  ASSUME NEW runs, NEW marked, RunsOK(runs, marked), NEW b \in Blocks, NEW n \in Nat, n > 0,
         NotMarked(b, n, marked),
         NEW q, IsRun(q, b, n)
  PROVE  /\ RunsOK(runs \cup {q}, marked \cup Run(b, n)) /\ q \notin runs
         /\ q.start = b /\ q.count = n /\ RunBlocks(q) = Run(b, n)
         /\ Run(b, n) \subseteq Blocks /\ b \in Run(b, n)
<1>1. b \in Nat /\ TotalBlocks \in Nat /\ b + n <= TotalBlocks /\ Run(b, n) \cap marked = {}
  BY BlocksAssumption DEF Blocks, NotMarked
<1>2. q \in RunType /\ q.start = b /\ q.count = n /\ RunBlocks(q) = Run(b, n)
  BY <1>1 DEF RunType, RunBlocks, IsRun
<1>3. Run(b, n) \subseteq Blocks /\ b \in Run(b, n)
  BY <1>1 DEF Run, Blocks
<1>4. \A r \in runs : RunBlocks(r) \cap Run(b, n) = {}
  BY <1>1 DEF RunsOK
<1>5. q \notin runs
  BY <1>2, <1>3, <1>4
<1> HIDE DEF RunBlocks
<1>6. RunsOK(runs \cup {q}, marked \cup Run(b, n))
  <2>1. runs \cup {q} \subseteq RunType
    BY <1>2 DEF RunsOK
  <2>2. \A r \in runs \cup {q} : /\ r.count > 0 /\ RunBlocks(r) \subseteq Blocks
                                 /\ RunBlocks(r) \subseteq marked \cup Run(b, n)
    BY <1>2, <1>3 DEF RunsOK
  <2>3. \A r, s \in runs \cup {q} : r # s => RunBlocks(r) \cap RunBlocks(s) = {}
    BY <1>2, <1>4 DEF RunsOK
  <2>4. QED
    BY <2>1, <2>2, <2>3 DEF RunsOK
<1>7. QED
  BY <1>2, <1>3, <1>5, <1>6

\* The blocks of some of the runs, with that one.
LEMMA TakeRunBlocks ==
  ASSUME NEW runs, NEW marked, RunsOK(runs, marked), NEW b \in Blocks, NEW n \in Nat, n > 0,
         NotMarked(b, n, marked),
         NEW q, IsRun(q, b, n), NEW some \in SUBSET runs
  PROVE  BlocksOf(some \cup {q}) = BlocksOf(some) \cup Run(b, n) /\ BlocksOf(some) \cap Run(b, n) = {}
<1>1. RunBlocks(q) = Run(b, n) /\ Run(b, n) \subseteq Blocks
  <2>1. q.start = b /\ q.count = n
    BY DEF IsRun
  <2>2. b \in Nat /\ b + n <= TotalBlocks /\ TotalBlocks \in Nat
    BY BlocksAssumption DEF Blocks, NotMarked
  <2>3. QED
    BY <2>1, <2>2 DEF RunBlocks, Run, Blocks
<1>2. \A r \in runs : RunBlocks(r) \cap Run(b, n) = {}
  BY DEF RunsOK, NotMarked
<1> HIDE DEF RunBlocks
<1>3. QED
  BY <1>1, <1>2 DEF BlocksOf

\* The first n blocks of a run can be taken back.
LEMMA ReleaseRun ==
  ASSUME NEW runs, NEW marked, RunsOK(runs, marked), NEW r \in runs, NEW n \in Nat, n > 0, n <= r.count
  PROVE  /\ RunsOK((runs \ {r}) \cup Rest(r, n), marked \ Run(r.start, n))
         /\ Run(r.start, n) \subseteq RunBlocks(r)
         /\ \A s \in Rest(r, n) : RunBlocks(s) = RunBlocks(r) \ Run(r.start, n) /\ s.start \notin Run(r.start, n)
<1>1. r \in RunType /\ r.start \in Nat /\ r.count \in Nat /\ RunBlocks(r) \subseteq Blocks /\ RunBlocks(r) \subseteq marked
  BY DEF RunsOK, RunType
<1>2. Run(r.start, n) \subseteq RunBlocks(r)
  BY <1>1 DEF Run, RunBlocks
<1>3. ASSUME NEW s \in Rest(r, n)
      PROVE  s \in RunType /\ s.count > 0 /\ RunBlocks(s) = RunBlocks(r) \ Run(r.start, n)
             /\ s.start \notin Run(r.start, n)
  <2>1. n # r.count /\ s = [start |-> r.start + n, count |-> r.count - n]
    BY DEF Rest
  <2>2. s.start = r.start + n /\ s.count = r.count - n
    BY <2>1
  <2>3. QED
    BY <1>1, <2>1, <2>2 DEF RunType, Run, RunBlocks
<1>4. RunBlocks(r) = Run(r.start, n) \/ \E s \in Rest(r, n) : TRUE
  BY DEF Rest, RunBlocks
<1>5. \A s \in runs : s # r => RunBlocks(s) \cap RunBlocks(r) = {}
  BY DEF RunsOK
<1>6. \A s, t \in Rest(r, n) : s = t
  BY DEF Rest
<1> HIDE DEF RunBlocks
<1>7. RunsOK((runs \ {r}) \cup Rest(r, n), marked \ Run(r.start, n))
  <2> DEFINE R == (runs \ {r}) \cup Rest(r, n)
  <2>1. R \subseteq RunType
    BY <1>3 DEF RunsOK
  <2>2. \A s \in R : /\ s.count > 0 /\ RunBlocks(s) \subseteq Blocks
                     /\ RunBlocks(s) \subseteq marked \ Run(r.start, n)
    BY <1>1, <1>2, <1>3, <1>5 DEF RunsOK
  <2>3. \A s, t \in R : s # t => RunBlocks(s) \cap RunBlocks(t) = {}
    BY <1>3, <1>5, <1>6 DEF RunsOK
  <2>4. QED
    BY <2>1, <2>2, <2>3 DEF RunsOK
<1>8. QED
  BY <1>2, <1>3, <1>7

\* The blocks of some of the runs, without those.
LEMMA ReleaseRunBlocks ==
  ASSUME NEW runs, NEW marked, RunsOK(runs, marked), NEW r \in runs, NEW n \in Nat, n > 0, n <= r.count,
         NEW some \in SUBSET runs, r \in some
  PROVE  BlocksOf((some \ {r}) \cup Rest(r, n)) = BlocksOf(some) \ Run(r.start, n)
<1>1. Run(r.start, n) \subseteq RunBlocks(r)
  BY ReleaseRun
<1>2. \A s \in Rest(r, n) : RunBlocks(s) = RunBlocks(r) \ Run(r.start, n)
  BY ReleaseRun
<1>3. \A s \in runs : s # r => RunBlocks(s) \cap RunBlocks(r) = {}
  BY DEF RunsOK
<1>4. RunBlocks(r) = Run(r.start, n) \/ \E s \in Rest(r, n) : TRUE
  BY DEF Rest, RunBlocks
<1>5. ASSUME NEW b \in Blocks
      PROVE  (\E s \in (some \ {r}) \cup Rest(r, n) : b \in RunBlocks(s))
             <=> (\E s \in some : b \in RunBlocks(s)) /\ b \notin Run(r.start, n)
  <2>1. (\E s \in Rest(r, n) : b \in RunBlocks(s)) <=> b \in RunBlocks(r) /\ b \notin Run(r.start, n)
    BY <1>2, <1>4
  <2>2. (\E s \in some \ {r} : b \in RunBlocks(s)) => b \notin RunBlocks(r) /\ b \notin Run(r.start, n)
    BY <1>1, <1>3
  <2>3. QED
    BY <2>1, <2>2
<1>6. QED
  BY <1>5 DEF BlocksOf

-----------------------------------------------------------------------------
(* The windows.  tr: the translation of every page, nx: next_mmio_vaddr,     *)
(* ws: the windows, c: the call under way.                                   *)

WindowType == [vaddr : Nat, paddr : Nat, size : Nat \ {0}]

\* n pages at a are part of the area of windows, below nx.
InArea(a, n, nx) == MMIO_VIRTUAL_BASE <= a /\ a + n <= nx /\ a + n <= MMIO_END

\* m pages at a and n pages at b do not overlap.
Apart(a, m, b, n) == a + m <= b \/ b + n <= a

\* The first n pages at v lead to the frames at p.
LeadTo(tr, v, n, p) == \A j \in Nat : j < n => tr[v + j] = p + j

\* Windows lie below nx, lead to their devices and do not overlap; the area
\* above nx is not mapped.  A page that faulted in stands for itself.
WinOK(tr, nx, ws) ==
  /\ nx \in Nat /\ MMIO_VIRTUAL_BASE <= nx /\ ws \subseteq WindowType
  /\ \A v \in Pages : nx <= v /\ v < MMIO_END => tr[v] = NONE
  /\ \A w \in ws : InArea(w.vaddr, PageCount(w.size), nx) /\ LeadTo(tr, w.vaddr, PageCount(w.size), w.paddr)
  /\ \A w, x \in ws : w # x => Apart(w.vaddr, PageCount(w.size), x.vaddr, PageCount(x.size))
  /\ \A v \in FaultPages : tr[v] \in {NONE, v}

CallRecord == [vaddr : Nat, paddr : Nat, size : Nat, pages : Nat, i : Nat,
               by : {"driver", "probe", "fault"}]

\* A mapping under way.  Of a window, the pages up to i are mapped and the others are
\* not, and none of them belongs to another one.
CallOK(tr, nx, ws, c) ==
  /\ c \in CallRecord
  /\ c.i < c.pages /\ c.vaddr + c.pages <= PAGES /\ c.paddr + c.pages <= PAGES
  /\ c.by = "fault" => c.vaddr \in FaultPages /\ c.pages = 1 /\ c.paddr = c.vaddr
  /\ c.by # "fault" =>
       /\ \A j \in Nat : c.i <= j /\ j < c.pages => tr[c.vaddr + j] = NONE
       /\ c.size # 0 /\ c.pages = PageCount(c.size) /\ InArea(c.vaddr, c.pages, nx)
       /\ \A w \in ws : Apart(w.vaddr, PageCount(w.size), c.vaddr, c.pages)
       /\ LeadTo(tr, c.vaddr, c.i, c.paddr)

\* Every byte of a size lies in one of its pages.
LEMMA PagesEnough ==
  ASSUME NEW s \in Nat
  PROVE  /\ PageCount(s) \in Nat /\ (s # 0 => PageCount(s) > 0)
         /\ \A byte \in 0 .. s - 1 : byte \div PAGE \in Nat /\ byte \div PAGE < PageCount(s)
<1>1. PAGE \in Nat /\ PAGE > 0
  BY KernelPagesAssumption
<1> DEFINE c == (s + PAGE - 1) \div PAGE
<1>2. c \in Nat /\ s + PAGE - 1 = PAGE * c + ((s + PAGE - 1) % PAGE) /\ (s + PAGE - 1) % PAGE <= PAGE - 1
  <2>1. s + PAGE - 1 \in Nat
    BY <1>1
  <2>2. QED
    BY <1>1, <2>1
<1>3. PAGE * c >= s
  BY <1>1, <1>2
<1> HIDE DEF c
<1>4. ASSUME NEW byte \in 0 .. s - 1 PROVE byte \div PAGE \in Nat /\ byte \div PAGE < c
  <2>1. byte \in Nat /\ byte < PAGE * c
    BY <1>1, <1>2, <1>3
  <2>2. QED
    BY <1>1, <1>2, <2>1, QuotientBelow
<1>5. s # 0 => c > 0
  <2>1. ASSUME s # 0, c = 0 PROVE FALSE
    BY <1>1, <1>3, <2>1
  <2>2. QED
    BY <1>2, <2>1
<1>6. QED
  BY <1>2, <1>4, <1>5 DEF PageCount, c

\* vmm_map_mmio: the pages behind the last window are not mapped.
LEMMA NewWindow ==
  ASSUME NEW tr, NEW nx, NEW ws, WinOK(tr, nx, ws), NEW p \in Nat, NEW s \in Nat, s # 0,
         NEW by \in {"driver", "probe"}, p + PageCount(s) <= PAGES, nx + PageCount(s) <= MMIO_END,
         NEW c, c = [vaddr |-> nx, paddr |-> p, size |-> s, pages |-> PageCount(s), i |-> 0, by |-> by]
  PROVE  WinOK(tr, nx + PageCount(s), ws) /\ CallOK(tr, nx + PageCount(s), ws, c)
<1> DEFINE n == PageCount(s)
<1>1. n \in Nat /\ n > 0 /\ nx \in Nat /\ MMIO_VIRTUAL_BASE \in Nat /\ MMIO_END \in Nat /\ MMIO_END <= PAGES /\ PAGES \in Nat
      /\ MMIO_VIRTUAL_BASE <= nx
  BY PagesEnough, VirtMemAssumption DEF WinOK, Pages, PAGES
<1>2. \A w \in ws : w.vaddr \in Nat /\ PageCount(w.size) \in Nat
  BY PagesEnough DEF WinOK, WindowType
<1>3. \A w \in ws : MMIO_VIRTUAL_BASE <= w.vaddr /\ w.vaddr + PageCount(w.size) <= nx /\ w.vaddr + PageCount(w.size) <= MMIO_END
  BY DEF WinOK, InArea
<1>4. /\ c \in CallRecord /\ c.vaddr = nx /\ c.paddr = p /\ c.size = s /\ c.pages = n /\ c.i = 0 /\ c.by = by
  BY <1>1 DEF CallRecord
<1> HIDE DEF n
<1>5. WinOK(tr, nx + n, ws)
  <2>1. \A w \in ws : InArea(w.vaddr, PageCount(w.size), nx + n)
    BY <1>1, <1>2, <1>3 DEF InArea
  <2>2. \A v \in Pages : nx + n <= v /\ v < MMIO_END => tr[v] = NONE
    BY <1>1 DEF WinOK, Pages
  <2>3. nx + n \in Nat /\ MMIO_VIRTUAL_BASE <= nx + n
    BY <1>1
  <2>4. QED
    BY <2>1, <2>2, <2>3 DEF WinOK
<1>6. \A j \in Nat : j < n => tr[nx + j] = NONE
  <2> SUFFICES ASSUME NEW j \in Nat, j < n PROVE tr[nx + j] = NONE
    OBVIOUS
  <2>1. nx + j \in Pages /\ nx <= nx + j /\ nx + j < MMIO_END
    BY <1>1 DEF Pages, n
  <2>2. QED
    BY <2>1 DEF WinOK
<1>7. \A w \in ws : Apart(w.vaddr, PageCount(w.size), nx, n)
  BY <1>3 DEF Apart
<1>8. nx + n <= PAGES /\ p + n <= PAGES /\ InArea(nx, n, nx + n)
  BY <1>1 DEF InArea, n
<1>9. LeadTo(tr, nx, 0, p)
  BY DEF LeadTo
<1>10. CallOK(tr, nx + n, ws, c)
  BY <1>1, <1>4, <1>6, <1>7, <1>8, <1>9 DEF CallOK, n
<1>11. QED
  BY <1>5, <1>10 DEF n

\* The page fault handler maps a page outside the area of windows.
LEMMA NewFault ==
  ASSUME NEW tr, NEW nx, NEW ws, NEW v \in FaultPages,
         NEW c, c = [vaddr |-> v, paddr |-> v, size |-> PAGE, pages |-> 1, i |-> 0, by |-> "fault"]
  PROVE  CallOK(tr, nx, ws, c)
<1>1. v \in Nat /\ v + 1 <= PAGES /\ PAGE \in Nat /\ PAGES \in Nat
  BY VirtMemAssumption, KernelPagesAssumption DEF Pages, PAGES
<1>2. /\ c \in CallRecord /\ c.vaddr = v /\ c.paddr = v /\ c.size = PAGE /\ c.pages = 1 /\ c.i = 0 /\ c.by = "fault"
  BY <1>1 DEF CallRecord
<1>3. QED
  BY <1>1, <1>2 DEF CallOK

\* The page that is being mapped belongs to no window, and stands for nothing else.
LEMMA PageInCall ==
  ASSUME NEW tr, NEW nx, NEW ws, WinOK(tr, nx, ws), NEW c, CallOK(tr, nx, ws, c)
  PROVE  /\ c.vaddr + c.i \in Pages /\ tr[c.vaddr + c.i] \in {NONE, c.paddr + c.i} /\ c.paddr + c.i \in Pages
         /\ ~(nx <= c.vaddr + c.i /\ c.vaddr + c.i < MMIO_END)
         /\ \A w \in ws, j \in Nat : j < PageCount(w.size) => w.vaddr + j # c.vaddr + c.i /\ w.vaddr + j \in Pages
<1>1. /\ c.vaddr \in Nat /\ c.paddr \in Nat /\ c.i \in Nat /\ c.pages \in Nat /\ c.i < c.pages
      /\ c.vaddr + c.pages <= PAGES /\ c.paddr + c.pages <= PAGES
  BY DEF CallOK, CallRecord
<1>2. nx \in Nat /\ MMIO_VIRTUAL_BASE \in Nat /\ MMIO_END \in Nat /\ MMIO_END <= PAGES /\ PAGES \in Nat
      /\ MMIO_VIRTUAL_BASE <= nx
  BY VirtMemAssumption DEF WinOK, Pages, PAGES
<1>3. c.vaddr + c.i \in Pages /\ c.paddr + c.i \in Pages
  BY <1>1, <1>2 DEF Pages
<1>4. tr[c.vaddr + c.i] \in {NONE, c.paddr + c.i}
  <2>1. CASE c.by = "fault"
    <3>1. c.vaddr \in FaultPages /\ c.paddr = c.vaddr /\ c.pages = 1
      BY <2>1 DEF CallOK
    <3>2. c.vaddr + c.i = c.vaddr /\ c.paddr + c.i = c.vaddr
      BY <1>1, <3>1
    <3>3. tr[c.vaddr] \in {NONE, c.vaddr}
      BY <3>1 DEF WinOK
    <3>4. QED
      BY <3>2, <3>3
  <2>2. CASE c.by # "fault"
    BY <1>1, <2>2 DEF CallOK
  <2>3. QED
    BY <2>1, <2>2
<1>5. c.by = "fault" => /\ c.vaddr + c.i = c.vaddr
                        /\ ~(MMIO_VIRTUAL_BASE <= c.vaddr /\ c.vaddr < MMIO_END)
  <2> SUFFICES ASSUME c.by = "fault"
               PROVE c.vaddr + c.i = c.vaddr /\ ~(MMIO_VIRTUAL_BASE <= c.vaddr /\ c.vaddr < MMIO_END)
    OBVIOUS
  <2>1. c.vaddr \in FaultPages /\ c.pages = 1
    BY DEF CallOK
  <2>2. c.i = 0
    BY <1>1, <2>1
  <2>3. c.vaddr \notin MMIO_VIRTUAL_BASE .. MMIO_END - 1
    BY <2>1, WindowsAssumption
  <2>4. QED
    BY <1>1, <1>2, <2>2, <2>3
<1>6. c.by # "fault" => c.vaddr + c.pages <= nx
  BY DEF CallOK, InArea
<1>7. ~(nx <= c.vaddr + c.i /\ c.vaddr + c.i < MMIO_END)
  BY <1>1, <1>2, <1>5, <1>6
<1>8. ASSUME NEW w \in ws, NEW j \in Nat, j < PageCount(w.size)
      PROVE  w.vaddr + j # c.vaddr + c.i /\ w.vaddr + j \in Pages
  <2>1. /\ w.vaddr \in Nat /\ PageCount(w.size) \in Nat /\ MMIO_VIRTUAL_BASE <= w.vaddr
        /\ w.vaddr + PageCount(w.size) <= MMIO_END
    BY PagesEnough DEF WinOK, WindowType, InArea
  <2>2. w.vaddr + j \in Pages
    BY <1>2, <1>8, <2>1 DEF Pages
  <2>3. CASE c.by = "fault"
    <3>1. MMIO_VIRTUAL_BASE <= w.vaddr + j /\ w.vaddr + j < MMIO_END
      BY <1>2, <1>8, <2>1
    <3>2. ~(MMIO_VIRTUAL_BASE <= c.vaddr + c.i /\ c.vaddr + c.i < MMIO_END)
      BY <1>5, <2>3
    <3>3. QED
      BY <2>2, <3>1, <3>2
  <2>4. CASE c.by # "fault"
    <3>1. Apart(w.vaddr, PageCount(w.size), c.vaddr, c.pages)
      BY <2>4 DEF CallOK
    <3>2. QED
      BY <1>1, <1>8, <2>1, <2>2, <3>1 DEF Apart
  <2>5. QED
    BY <2>2, <2>3, <2>4
<1>9. QED
  BY <1>3, <1>4, <1>7, <1>8

\* Translation tr with page v led to x.
Mapped(tr, tr2, v, x) == tr2[v] = x /\ \A u \in Pages : u # v => tr2[u] = tr[u]

\* map_set_entry: the windows stay as they are, and the call has one page more.
LEMMA SetPage ==
  ASSUME NEW tr, NEW nx, NEW ws, WinOK(tr, nx, ws), NEW c, CallOK(tr, nx, ws, c),
         NEW tr2, Mapped(tr, tr2, c.vaddr + c.i, c.paddr + c.i)
  PROVE  /\ WinOK(tr2, nx, ws)
         /\ c.i + 1 < c.pages => CallOK(tr2, nx, ws, [c EXCEPT !.i = @ + 1])
         /\ c.by # "fault" => LeadTo(tr2, c.vaddr, c.i + 1, c.paddr)
<1> DEFINE v == c.vaddr + c.i
<1>1. /\ v \in Pages /\ ~(nx <= v /\ v < MMIO_END)
      /\ \A w \in ws, j \in Nat : j < PageCount(w.size) => w.vaddr + j # v /\ w.vaddr + j \in Pages
  BY PageInCall
<1>2. tr2[v] = c.paddr + c.i /\ \A u \in Pages : u # v => tr2[u] = tr[u]
  BY DEF Mapped
<1>3. /\ c \in CallRecord /\ c.vaddr \in Nat /\ c.i \in Nat /\ c.pages \in Nat /\ c.i < c.pages
      /\ c.vaddr + c.pages <= PAGES
  BY DEF CallOK, CallRecord
<1>4. PAGES \in Nat
  BY VirtMemAssumption DEF PAGES
<1> HIDE DEF v
<1>5. WinOK(tr2, nx, ws)
  <2>1. \A u \in Pages : nx <= u /\ u < MMIO_END => tr2[u] = NONE
    BY <1>1, <1>2 DEF WinOK
  <2>2. \A w \in ws : LeadTo(tr2, w.vaddr, PageCount(w.size), w.paddr)
    BY <1>1, <1>2 DEF WinOK, LeadTo
  <2>3. ASSUME NEW u \in FaultPages PROVE tr2[u] \in {NONE, u}
    <3>1. u \in Pages /\ tr[u] \in {NONE, u}
      BY VirtMemAssumption DEF WinOK
    <3>2. CASE u # v
      BY <1>2, <3>1, <3>2
    <3>3. CASE u = v
      <4>1. c.by = "fault"
        <5> SUFFICES ASSUME c.by # "fault" PROVE FALSE
          OBVIOUS
        <5>1. MMIO_VIRTUAL_BASE <= c.vaddr /\ c.vaddr + c.pages <= MMIO_END
          BY DEF CallOK, InArea
        <5>2. MMIO_VIRTUAL_BASE \in Nat /\ MMIO_END \in Nat
          BY VirtMemAssumption DEF Pages, PAGES
        <5>3. v \in MMIO_VIRTUAL_BASE .. MMIO_END - 1
          BY <1>3, <5>1, <5>2 DEF v
        <5>4. QED
          BY <3>3, <5>3, WindowsAssumption
      <4>2. c.paddr = c.vaddr
        BY <4>1 DEF CallOK
      <4>3. QED
        BY <1>2, <3>3, <4>2 DEF v
    <3>4. QED
      BY <3>2, <3>3
  <2>4. QED
    BY <2>1, <2>2, <2>3 DEF WinOK
<1>6. \A j \in Nat : j < c.pages /\ j # c.i => c.vaddr + j \in Pages /\ c.vaddr + j # v
  BY <1>3, <1>4 DEF Pages, v
<1>7. c.by # "fault" => LeadTo(tr2, c.vaddr, c.i + 1, c.paddr)
  <2> SUFFICES ASSUME c.by # "fault", NEW j \in Nat, j < c.i + 1 PROVE tr2[c.vaddr + j] = c.paddr + j
    BY DEF LeadTo
  <2>1. CASE j = c.i
    BY <1>2, <2>1 DEF v
  <2>2. CASE j # c.i
    <3>1. j < c.i /\ j < c.pages
      BY <1>3, <2>2
    <3>2. tr[c.vaddr + j] = c.paddr + j
      BY <3>1 DEF CallOK, LeadTo
    <3>3. QED
      BY <1>2, <1>6, <2>2, <3>1, <3>2
  <2>3. QED
    BY <2>1, <2>2
<1>8. ASSUME c.i + 1 < c.pages PROVE CallOK(tr2, nx, ws, [c EXCEPT !.i = @ + 1])
  <2> DEFINE d == [c EXCEPT !.i = @ + 1]
  <2>1. /\ d \in CallRecord /\ d.vaddr = c.vaddr /\ d.paddr = c.paddr /\ d.size = c.size
        /\ d.pages = c.pages /\ d.by = c.by /\ d.i = c.i + 1
    BY <1>3 DEF CallRecord
  <2> HIDE DEF d
  <2>2. c.by # "fault" => \A j \in Nat : c.i + 1 <= j /\ j < c.pages => tr2[c.vaddr + j] = NONE
    <3> SUFFICES ASSUME c.by # "fault", NEW j \in Nat, c.i + 1 <= j, j < c.pages PROVE tr2[c.vaddr + j] = NONE
      OBVIOUS
    <3>1. c.i <= j /\ j # c.i
      BY <1>3
    <3>2. tr[c.vaddr + j] = NONE
      BY <3>1 DEF CallOK
    <3>3. QED
      BY <1>2, <1>6, <3>1, <3>2
  <2>3. CallOK(tr2, nx, ws, d)
    BY <1>7, <1>8, <2>1, <2>2 DEF CallOK
  <2>4. QED
    BY <2>3 DEF d
<1>9. QED
  BY <1>5, <1>7, <1>8

\* The last page of a window: it is handed out.
LEMMA WindowDone ==
  ASSUME NEW tr, NEW nx, NEW ws, WinOK(tr, nx, ws), NEW c, c \in CallRecord, c.size # 0,
         c.pages = PageCount(c.size), InArea(c.vaddr, c.pages, nx),
         \A w \in ws : Apart(w.vaddr, PageCount(w.size), c.vaddr, c.pages),
         LeadTo(tr, c.vaddr, c.pages, c.paddr),
         NEW x, x = [vaddr |-> c.vaddr, paddr |-> c.paddr, size |-> c.size]
  PROVE  WinOK(tr, nx, ws \cup {x})
<1>1. x \in WindowType /\ x.vaddr = c.vaddr /\ x.paddr = c.paddr /\ x.size = c.size
  BY DEF CallRecord, WindowType
<1>2. \A w \in ws : /\ Apart(w.vaddr, PageCount(w.size), x.vaddr, PageCount(x.size))
                    /\ Apart(x.vaddr, PageCount(x.size), w.vaddr, PageCount(w.size))
  BY <1>1 DEF Apart
<1>3. QED
  BY <1>1, <1>2 DEF WinOK

\* vmm_unmap: the pages of the other windows are not in the range.
LEMMA WindowGone ==
  ASSUME NEW tr, NEW nx, NEW ws, WinOK(tr, nx, ws), NEW w \in ws, NEW range,
         range = w.vaddr .. w.vaddr + PageCount(w.size) - 1,
         NEW tr2, \A u \in Pages : tr2[u] = IF u \in range THEN NONE ELSE tr[u]
  PROVE  range \subseteq Pages /\ WinOK(tr2, nx, ws \ {w})
<1>1. MMIO_END \in Nat /\ MMIO_END <= PAGES /\ PAGES \in Nat /\ MMIO_VIRTUAL_BASE \in Nat
  BY VirtMemAssumption DEF Pages, PAGES
<1>2. \A x \in ws : /\ x.vaddr \in Nat /\ PageCount(x.size) \in Nat /\ MMIO_VIRTUAL_BASE <= x.vaddr
                    /\ x.vaddr + PageCount(x.size) <= MMIO_END
  BY PagesEnough DEF WinOK, WindowType, InArea
<1>3. range \subseteq Pages
  BY <1>1, <1>2 DEF Pages
<1>4. ASSUME NEW x \in ws \ {w} PROVE LeadTo(tr2, x.vaddr, PageCount(x.size), x.paddr)
  <2> SUFFICES ASSUME NEW j \in Nat, j < PageCount(x.size) PROVE tr2[x.vaddr + j] = x.paddr + j
    BY DEF LeadTo
  <2>1. tr[x.vaddr + j] = x.paddr + j
    BY DEF WinOK, LeadTo
  <2>2. x.vaddr + j \in Pages
    BY <1>1, <1>2 DEF Pages
  <2>3. Apart(x.vaddr, PageCount(x.size), w.vaddr, PageCount(w.size))
    BY DEF WinOK
  <2>4. x.vaddr + j \notin range
    BY <1>2, <2>3 DEF Apart
  <2>5. QED
    BY <2>1, <2>2, <2>4
<1>5. \A v \in Pages : nx <= v /\ v < MMIO_END => tr2[v] = NONE
  BY DEF WinOK
<1>6. \A v \in FaultPages : tr2[v] \in {NONE, v}
  BY VirtMemAssumption DEF WinOK
<1>7. QED
  BY <1>3, <1>4, <1>5, <1>6 DEF WinOK

\* Take by the heap: the heap's runs grow by one, which nobody had.
LEMMA TakeHeap ==
  ASSUME PagesInv, NEW CONSTANT b \in Blocks, NEW CONSTANT n \in Nat, n > 0, Take(b, n), UNCHANGED others,
         NEW CONSTANT q, IsRun(q, b, n)
  PROVE  /\ PagesInv' /\ live' \ others' = (live \ others) \cup {q} /\ q.start = b /\ q.count = n
         /\ RunBlocks(q) = Run(b, n)
         /\ Run(b, n) \subseteq Blocks /\ BlocksOf(live' \ others') = BlocksOf(live \ others) \cup Run(b, n)
         /\ BlocksOf(live) \cap Run(b, n) = {} /\ b \in Run(b, n)
<1>1. NotMarked(b, n, used) /\ live' = live \cup {q} /\ used' = used \cup Run(b, n)
      /\ booting' = FALSE /\ RunsOK(live, used)
  BY DEF Take, FirstFit, FreeRun, PagesInv, IsRun, NotMarked
<1>2. /\ RunsOK(live \cup {q}, used \cup Run(b, n)) /\ q \notin live
      /\ q.start = b /\ q.count = n /\ RunBlocks(q) = Run(b, n)
      /\ Run(b, n) \subseteq Blocks /\ b \in Run(b, n)
  BY <1>1, TakeRun
<1>2b. \A some \in SUBSET live : /\ BlocksOf(some \cup {q}) = BlocksOf(some) \cup Run(b, n)
                                /\ BlocksOf(some) \cap Run(b, n) = {}
  BY <1>1, TakeRunBlocks
<1>3. live' \ others' = (live \ others) \cup {q}
  BY <1>1, <1>2 DEF PagesInv
<1>4. PagesInv'
  BY <1>1, <1>2 DEF PagesInv
<1>5. QED
  BY <1>2, <1>2b, <1>3, <1>4

\* TakePages, by the others: the heap's runs stay the same.
LEMMA TakeOther ==
  ASSUME PagesInv, NEW CONSTANT b \in Blocks, NEW CONSTANT n \in Nat, n > 0, TakePages(b, n),
         NEW CONSTANT q, IsRun(q, b, n)
  PROVE  /\ PagesInv' /\ live' \ others' = live \ others /\ others' = others \cup {q}
         /\ Run(b, n) \subseteq Blocks /\ BlocksOf(others') = BlocksOf(others) \cup Run(b, n)
         /\ BlocksOf(others) \cap Run(b, n) = {} /\ b \in Run(b, n)
<1>1. NotMarked(b, n, used) /\ live' = live \cup {q} /\ used' = used \cup Run(b, n)
      /\ booting' = FALSE /\ others' = others \cup {q} /\ RunsOK(live, used)
  BY DEF TakePages, Take, FirstFit, FreeRun, PagesInv, IsRun, NotMarked
<1>2. /\ RunsOK(live \cup {q}, used \cup Run(b, n)) /\ q \notin live
      /\ Run(b, n) \subseteq Blocks /\ b \in Run(b, n)
  BY <1>1, TakeRun
<1>2b. \A some \in SUBSET live : /\ BlocksOf(some \cup {q}) = BlocksOf(some) \cup Run(b, n)
                                /\ BlocksOf(some) \cap Run(b, n) = {}
  BY <1>1, TakeRunBlocks
<1>3. live' \ others' = live \ others
  BY <1>1, <1>2 DEF PagesInv
<1>4. PagesInv'
  BY <1>1, <1>2 DEF PagesInv
<1>5. QED
  BY <1>1, <1>2, <1>2b, <1>3, <1>4 DEF PagesInv

\* Release by the heap, of the first blocks of one of its runs.
LEMMA ReleaseHeap ==
  ASSUME PagesInv, NEW CONSTANT r, r \in live \ others, NEW CONSTANT n \in Nat, n > 0, n <= r.count,
         Release(r, n), UNCHANGED others
  PROVE  /\ PagesInv' /\ live' \ others' = ((live \ others) \ {r}) \cup Rest(r, n)
         /\ BlocksOf(live' \ others') = BlocksOf(live \ others) \ Run(r.start, n)
         /\ Run(r.start, n) \subseteq BlocksOf(live \ others)
         /\ \A s \in Rest(r, n) : RunBlocks(s) = RunBlocks(r) \ Run(r.start, n)
<1>1. RunsOK(live, used) /\ r \in live /\ live \ others \in SUBSET live /\ r \in RunType /\ RunBlocks(r) \subseteq Blocks
  BY DEF PagesInv, RunsOK
<1>2. /\ RunsOK((live \ {r}) \cup Rest(r, n), used \ Run(r.start, n))
      /\ Run(r.start, n) \subseteq RunBlocks(r)
      /\ \A s \in Rest(r, n) : RunBlocks(s) = RunBlocks(r) \ Run(r.start, n) /\ s.start \notin Run(r.start, n)
  BY <1>1, ReleaseRun
<1>2b. \A some \in SUBSET live : r \in some =>
         BlocksOf((some \ {r}) \cup Rest(r, n)) = BlocksOf(some) \ Run(r.start, n)
  BY <1>1, ReleaseRunBlocks
<1>3. used' = used \ Run(r.start, n) /\ live' = (live \ {r}) \cup Rest(r, n) /\ booting' = FALSE
  BY DEF Release, PagesInv
<1>4. ASSUME NEW s \in Rest(r, n) PROVE s \notin others
  <2>1. SUFFICES ASSUME s \in others PROVE FALSE
    OBVIOUS
  <2>2. s \in live /\ s # r
    BY <2>1 DEF PagesInv
  <2>3. RunBlocks(s) \cap RunBlocks(r) = {} /\ s \in RunType /\ s.count > 0
    BY <1>1, <2>2 DEF RunsOK
  <2>4. s.start \in RunBlocks(s)
    BY <2>3, RunStarts
  <2>5. QED
    BY <1>2, <2>3, <2>4
<1>5. live' \ others' = ((live \ others) \ {r}) \cup Rest(r, n)
  BY <1>3, <1>4
<1>6. PagesInv'
  BY <1>2, <1>3 DEF PagesInv
<1>7. BlocksOf(live' \ others') = BlocksOf(live \ others) \ Run(r.start, n)
  BY <1>1, <1>2b, <1>5
<1>8. Run(r.start, n) \subseteq BlocksOf(live \ others)
  BY <1>1, <1>2 DEF BlocksOf
<1>9. QED
  BY <1>2, <1>5, <1>6, <1>7, <1>8

\* Release of a whole run of the others: the heap's runs stay the same.
LEMMA ReleaseOther ==
  ASSUME PagesInv, NEW CONSTANT r, r \in others, r.count = 1, Release(r, 1), others' = others \ {r}
  PROVE  /\ PagesInv' /\ live' \ others' = live \ others
         /\ BlocksOf(others') = BlocksOf(others) \ {r.start}
<1>1. RunsOK(live, used) /\ r \in live /\ others \in SUBSET live /\ r.start \in Nat
  BY DEF PagesInv, RunsOK, RunType
<1>2. Rest(r, 1) = {} /\ Run(r.start, 1) = {r.start}
  BY <1>1 DEF Rest, Run
<1>3. /\ RunsOK((live \ {r}) \cup Rest(r, 1), used \ Run(r.start, 1))
  BY <1>1, ReleaseRun
<1>3b. \A some \in SUBSET live : r \in some =>
         BlocksOf((some \ {r}) \cup Rest(r, 1)) = BlocksOf(some) \ Run(r.start, 1)
  BY <1>1, ReleaseRunBlocks
<1>4. used' = used \ Run(r.start, 1) /\ live' = (live \ {r}) \cup Rest(r, 1) /\ booting' = FALSE
  BY DEF Release, PagesInv
<1>5. live' \ others' = live \ others
  BY <1>2, <1>4
<1>6. PagesInv'
  BY <1>2, <1>3, <1>4 DEF PagesInv
<1>7. BlocksOf(others') = BlocksOf(others) \ {r.start}
  BY <1>1, <1>2, <1>3b
<1>8. QED
  BY <1>5, <1>6, <1>7

-----------------------------------------------------------------------------
(* The owners of the pages that the heap does not have *)

Kernels == {"idle", "thread", "realloc", "map", "probe", "halted"}

\* Every member of x belongs to one of a, b and c.
Shares(x, a, b, c) == x = a \cup b \cup c /\ a \cap b = {} /\ a \cap c = {} /\ b \cap c = {}

\* The page of the thread that is being created: its run, and nobody else's.
PageOfThread ==
  IF kernel = "thread"
  THEN thread_page \in Blocks \ threads /\ [start |-> thread_page, count |-> 1] \in others
  ELSE thread_page = NULL

\* Threads, page tables and the card share the pages that the heap does not have.
OwnerInv(lev) ==
  /\ kernel \in Kernels /\ PageOfThread
  /\ rx_pages \in Seq(Blocks) /\ tx_pages \in Seq(Blocks)
  /\ Shares(BlocksOf(others), ThreadBlocks, InUse(lev), CardBlocks)
  /\ TotalBlocks <= DMA_WIDTH => rx_dma \subseteq CardBlocks

\* What does not touch the pages of the others.
LEMMA OwnerFrame ==
  ASSUME NEW CONSTANT lev, OwnerInv(lev), kernel' \in Kernels, kernel # "thread", kernel' # "thread",
         UNCHANGED <<others, threadvars, rx_pages, tx_pages, rx_dma>>
  PROVE  OwnerInv(lev)'
<1>1. PageOfThread'
  BY DEF OwnerInv, PageOfThread, threadvars
<1>2. BlocksOf(others)' = BlocksOf(others) /\ ThreadBlocks' = ThreadBlocks /\ CardBlocks' = CardBlocks
  BY DEF ThreadBlocks, CardBlocks, threadvars, BlocksOf
<1>3. QED
  BY <1>1, <1>2 DEF OwnerInv

\* An owner gets more, or gives back.
LEMMA SharesGrow ==
  ASSUME NEW x, NEW a, NEW b, NEW c, Shares(x, a, b, c), NEW new, x \cap new = {}
  PROVE  /\ Shares(x \cup new, a \cup new, b, c) /\ Shares(x \cup new, a, b \cup new, c)
         /\ Shares(x \cup new, a, b, c \cup new)
BY DEF Shares

\* A block that one owner gives back is nobody's.
LEMMA SharesShrink ==
  ASSUME NEW x, NEW a, NEW b, NEW c, Shares(x, a, b, c), NEW new, new \subseteq a
  PROVE  Shares(x \ new, a \ new, b, c)
BY DEF Shares

\* create_thread: the page for the control block.
LEMMA CreateThread ==
  ASSUME PagesInv, NEW CONSTANT lev, OwnerInv(lev), create_thread, UNCHANGED probevars
  PROVE  PagesInv' /\ live' \ others' = live \ others /\ OwnerInv(lev)'
<1>1. PICK b \in Blocks : TakePages(b, 1) /\ thread_page' = b
  BY DEF create_thread
<1>2. PICK q : IsRun(q, b, 1)
  BY DEF IsRun
<1>3. /\ PagesInv' /\ live' \ others' = live \ others /\ others' = others \cup {q}
      /\ BlocksOf(others') = BlocksOf(others) \cup Run(b, 1) /\ BlocksOf(others) \cap Run(b, 1) = {}
  BY <1>1, <1>2, TakeOther
<1>4. Run(b, 1) = {b} /\ b # NULL
  BY KernelPagesAssumption DEF Run, Blocks
<1>5. thread_page = NULL /\ kernel' = "thread" /\ threads' = threads
  BY DEF create_thread, OwnerInv, PageOfThread
<1>6. ThreadBlocks = threads /\ ThreadBlocks' = threads \cup {b}
  <2>1. NULL \notin threads
    BY KernelPagesAssumption DEF OwnerInv, Shares, ThreadBlocks, BlocksOf
  <2>2. QED
    BY <1>1, <1>4, <1>5 DEF ThreadBlocks
<1>7. CardBlocks' = CardBlocks /\ rx_pages' = rx_pages /\ tx_pages' = tx_pages /\ rx_dma' = rx_dma
  BY DEF CardBlocks, probevars
<1>8. Shares(BlocksOf(others), threads, InUse(lev), CardBlocks)
  BY <1>6 DEF OwnerInv
<1>9. Shares(BlocksOf(others) \cup {b}, threads \cup {b}, InUse(lev), CardBlocks)
  BY <1>3, <1>4, <1>8, SharesGrow
<1>10. b \notin threads
  BY <1>3, <1>4, <1>8 DEF Shares
<1>11. PageOfThread'
  BY <1>1, <1>2, <1>3, <1>5, <1>10 DEF PageOfThread, IsRun
<1>12. Shares(BlocksOf(others)', ThreadBlocks', InUse(lev), CardBlocks')
  BY <1>3, <1>4, <1>6, <1>7, <1>9 DEF BlocksOf
<1>13. OwnerInv(lev)'
  BY <1>5, <1>7, <1>11, <1>12 DEF OwnerInv, Kernels
<1>14. QED
  BY <1>3, <1>13

\* create_stack: the stack, and the thread has both.
LEMMA CreateStack ==
  ASSUME PagesInv, NEW CONSTANT lev, OwnerInv(lev), create_stack, UNCHANGED probevars
  PROVE  PagesInv' /\ live' \ others' = live \ others /\ OwnerInv(lev)'
<1> DEFINE n == KERNEL_STACK
<1>1. PICK b \in Blocks : TakePages(b, n) /\ threads' = threads \cup {thread_page} \cup Run(b, n)
  BY DEF create_stack
<1>2. PICK q : IsRun(q, b, n)
  BY DEF IsRun
<1>0. n \in Nat /\ n > 0 /\ NULL \notin Blocks
  BY KernelPagesAssumption
<1>3. /\ PagesInv' /\ live' \ others' = live \ others /\ others' = others \cup {q}
      /\ BlocksOf(others') = BlocksOf(others) \cup Run(b, n) /\ BlocksOf(others) \cap Run(b, n) = {}
  BY <1>0, <1>1, <1>2, TakeOther
<1>4. thread_page \in Blocks /\ thread_page' = NULL /\ kernel' = "idle"
  BY DEF create_stack, OwnerInv, PageOfThread
<1>5. ThreadBlocks = threads \cup {thread_page} /\ ThreadBlocks' = threads'
  BY <1>0, <1>4 DEF ThreadBlocks
<1>6. CardBlocks' = CardBlocks /\ rx_pages' = rx_pages /\ tx_pages' = tx_pages /\ rx_dma' = rx_dma
  BY DEF CardBlocks, probevars
<1>7. Shares(BlocksOf(others) \cup Run(b, n), ThreadBlocks \cup Run(b, n), InUse(lev), CardBlocks)
  BY <1>3, SharesGrow DEF OwnerInv
<1>8. Shares(BlocksOf(others)', ThreadBlocks', InUse(lev), CardBlocks')
  BY <1>1, <1>3, <1>5, <1>6, <1>7 DEF BlocksOf
<1>9. PageOfThread'
  BY <1>4 DEF PageOfThread
<1>10. OwnerInv(lev)'
  BY <1>4, <1>6, <1>8, <1>9 DEF OwnerInv, Kernels
<1>11. QED
  BY <1>3, <1>10

\* create_no_stack: the page for the control block is given back.
LEMMA CreateNoStack ==
  ASSUME PagesInv, NEW CONSTANT lev, OwnerInv(lev), create_no_stack, UNCHANGED probevars
  PROVE  PagesInv' /\ live' \ others' = live \ others /\ OwnerInv(lev)'
<1>1. PICK r \in others : r.start = thread_page /\ Release(r, 1) /\ others' = others \ {r}
  BY DEF create_no_stack
<1>2. thread_page \in Blocks \ threads /\ [start |-> thread_page, count |-> 1] \in others
  BY DEF create_no_stack, OwnerInv, PageOfThread
<1>3. r.count = 1
  <2>1. PICK s \in others : s.start = thread_page /\ s.count = 1
    BY <1>2
  <2>2. r \in live /\ s \in live /\ RunsOK(live, used) /\ r.start = s.start
    BY <1>1, <2>1 DEF PagesInv
  <2>3. r = s
    BY <2>2, OneRunEach
  <2>4. QED
    BY <2>1, <2>3
<1>4. PagesInv' /\ live' \ others' = live \ others /\ BlocksOf(others') = BlocksOf(others) \ {thread_page}
  BY <1>1, <1>3, ReleaseOther
<1>5. thread_page' = NULL /\ kernel' = "idle" /\ threads' = threads /\ NULL \notin Blocks
  BY KernelPagesAssumption DEF create_no_stack
<1>6. ThreadBlocks = threads \cup {thread_page} /\ ThreadBlocks' = ThreadBlocks \ {thread_page}
  BY <1>2, <1>5 DEF ThreadBlocks
<1>7. CardBlocks' = CardBlocks /\ rx_pages' = rx_pages /\ tx_pages' = tx_pages /\ rx_dma' = rx_dma
  BY DEF CardBlocks, probevars
<1>8. Shares(BlocksOf(others) \ {thread_page}, ThreadBlocks \ {thread_page}, InUse(lev), CardBlocks)
  BY <1>6, SharesShrink DEF OwnerInv
<1>9. Shares(BlocksOf(others)', ThreadBlocks', InUse(lev), CardBlocks')
  BY <1>4, <1>6, <1>7, <1>8 DEF BlocksOf
<1>10. PageOfThread'
  BY <1>5 DEF PageOfThread
<1>11. OwnerInv(lev)'
  BY <1>5, <1>7, <1>9, <1>10 DEF OwnerInv, Kernels
<1>12. QED
  BY <1>4, <1>11

\* A page for a table.
LEMMA TableTaken ==
  ASSUME PagesInv, NEW CONSTANT lev, OwnerInv(lev), lev \in [Tables -> -1 .. 3], kernel # "thread",
         NEW CONSTANT b \in Blocks, TakePages(b, 1), UNCHANGED <<kernel, threadvars, probevars>>,
         NEW CONSTANT k \in 0 .. 3, NEW CONSTANT lev2, Changed(lev, lev2, b, k)
  PROVE  PagesInv' /\ live' \ others' = live \ others /\ lev[b] = -1 /\ OwnerInv(lev2)'
<1>1. PICK q : IsRun(q, b, 1)
  BY DEF IsRun
<1>2. /\ PagesInv' /\ live' \ others' = live \ others /\ others' = others \cup {q}
      /\ BlocksOf(others') = BlocksOf(others) \cup Run(b, 1) /\ BlocksOf(others) \cap Run(b, 1) = {}
  BY <1>1, TakeOther
<1>3. Run(b, 1) = {b}
  BY DEF Run, Blocks
<1>4. Shares(BlocksOf(others) \cup {b}, ThreadBlocks, InUse(lev) \cup {b}, CardBlocks)
  BY <1>2, <1>3, SharesGrow DEF OwnerInv
<1>5. lev[b] = -1
  BY <1>2, <1>3 DEF OwnerInv, Shares, InUse
<1>6. InUse(lev2) = InUse(lev) \cup {b}
  <2>1. \A x \in Blocks : x # b => lev2[x] = lev[x]
    BY NoneIsNothing DEF Changed
  <2>2. lev2[b] # -1
    BY NoneIsNothing DEF Changed
  <2>3. QED
    BY <2>1, <2>2 DEF InUse
<1>7. CardBlocks' = CardBlocks /\ rx_pages' = rx_pages /\ tx_pages' = tx_pages /\ rx_dma' = rx_dma
      /\ ThreadBlocks' = ThreadBlocks
  BY DEF CardBlocks, probevars, ThreadBlocks, threadvars
<1>8. Shares(BlocksOf(others)', ThreadBlocks', InUse(lev2), CardBlocks')
  BY <1>2, <1>3, <1>4, <1>6, <1>7 DEF BlocksOf
<1>9. PageOfThread'
  BY DEF PageOfThread, OwnerInv, threadvars
<1>10. OwnerInv(lev2)'
  BY <1>7, <1>8, <1>9 DEF OwnerInv
<1>11. QED
  BY <1>2, <1>5, <1>10

\* e1000_rx_init: one page more for the receive ring.  With the last one the card is
\* told where they are; in a machine with less than 4 GiB that is where they are.
LEMMA RxInit ==
  ASSUME PagesInv, NEW CONSTANT lev, OwnerInv(lev), e1000_rx_init
  PROVE  PagesInv' /\ live' \ others' = live \ others /\ OwnerInv(lev)'
<1>1. PICK b \in Blocks : TakePages(b, 1) /\ rx_pages' = Append(rx_pages, b)
  BY DEF e1000_rx_init
<1>2. PICK q : IsRun(q, b, 1)
  BY DEF IsRun
<1>3. /\ PagesInv' /\ live' \ others' = live \ others /\ others' = others \cup {q}
      /\ BlocksOf(others') = BlocksOf(others) \cup Run(b, 1) /\ BlocksOf(others) \cap Run(b, 1) = {}
  BY <1>1, <1>2, TakeOther
<1>4. Run(b, 1) = {b}
  BY DEF Run, Blocks
<1>5. kernel' = "probe" /\ kernel = "probe" /\ thread_page' = thread_page /\ threads' = threads /\ tx_pages' = tx_pages
  BY DEF e1000_rx_init, threadvars
<1>6. ThreadBlocks' = ThreadBlocks
  BY <1>5 DEF ThreadBlocks
<1>7. rx_pages \in Seq(Blocks) /\ rx_pages' \in Seq(Blocks) /\ tx_pages \in Seq(Blocks)
  BY <1>1 DEF OwnerInv
<1>8. ToSet(rx_pages') = ToSet(rx_pages) \cup {b}
  BY <1>1, <1>7 DEF ToSet
<1>9. CardBlocks' = CardBlocks \cup {b} /\ ToSet(rx_pages') \subseteq CardBlocks'
  BY <1>5, <1>8 DEF CardBlocks
<1>10. Shares(BlocksOf(others) \cup {b}, ThreadBlocks, InUse(lev), CardBlocks \cup {b})
  BY <1>3, <1>4, SharesGrow DEF OwnerInv
<1>11. Shares(BlocksOf(others)', ThreadBlocks', InUse(lev), CardBlocks')
  BY <1>3, <1>4, <1>6, <1>9, <1>10 DEF BlocksOf
<1>12. PageOfThread'
  BY <1>5 DEF PageOfThread, OwnerInv
<1>13. TotalBlocks <= DMA_WIDTH => rx_dma' \subseteq CardBlocks'
  <2> SUFFICES ASSUME TotalBlocks <= DMA_WIDTH PROVE rx_dma' \subseteq CardBlocks'
    OBVIOUS
  <2>1. CASE Len(rx_pages') = 2 + NUM_RX_DESC
    <3>1. rx_dma' = RxRegisters(rx_pages')
      BY <2>1 DEF e1000_rx_init
    <3> DEFINE s == rx_pages'
    <3>2. s \in Seq(Blocks) /\ Len(s) \in Nat /\ Len(s) >= 3
      BY <1>7, <2>1, ProbeAssumption
    <3> HIDE DEF s
    <3>3. s[1] \in Blocks /\ s[1] \in ToSet(s)
      BY <3>2 DEF ToSet
    <3>4. s[1] % DMA_WIDTH = s[1]
      BY <3>3, ProbeAssumption, BlocksAssumption DEF Blocks
    <3>5. ToSet(SubSeq(s, 3, Len(s))) \subseteq ToSet(s)
      BY <3>2 DEF ToSet
    <3>6. RxRegisters(s) \subseteq ToSet(s)
      BY <3>3, <3>4, <3>5 DEF RxRegisters
    <3>7. QED
      BY <1>9, <3>1, <3>6 DEF s
  <2>2. CASE Len(rx_pages') # 2 + NUM_RX_DESC
    <3>1. rx_dma' = rx_dma
      BY <2>2 DEF e1000_rx_init
    <3>2. QED
      BY <1>9, <3>1 DEF OwnerInv
  <2>3. QED
    BY <2>1, <2>2
<1>14. OwnerInv(lev)'
  BY <1>5, <1>7, <1>11, <1>12, <1>13 DEF OwnerInv, Kernels
<1>15. QED
  BY <1>3, <1>14

\* e1000_tx_init: one page more for the transmit ring.
LEMMA TxInit ==
  ASSUME PagesInv, NEW CONSTANT lev, OwnerInv(lev), e1000_tx_init
  PROVE  PagesInv' /\ live' \ others' = live \ others /\ OwnerInv(lev)'
<1>1. PICK b \in Blocks : TakePages(b, 1) /\ tx_pages' = Append(tx_pages, b)
  BY DEF e1000_tx_init
<1>2. PICK q : IsRun(q, b, 1)
  BY DEF IsRun
<1>3. /\ PagesInv' /\ live' \ others' = live \ others /\ others' = others \cup {q}
      /\ BlocksOf(others') = BlocksOf(others) \cup Run(b, 1) /\ BlocksOf(others) \cap Run(b, 1) = {}
  BY <1>1, <1>2, TakeOther
<1>4. Run(b, 1) = {b}
  BY DEF Run, Blocks
<1>5. kernel' \in {"probe", "idle"} /\ kernel = "probe" /\ thread_page' = thread_page /\ threads' = threads
      /\ rx_pages' = rx_pages /\ rx_dma' = rx_dma
  BY DEF e1000_tx_init, threadvars
<1>6. ThreadBlocks' = ThreadBlocks
  BY <1>5 DEF ThreadBlocks
<1>7. tx_pages \in Seq(Blocks) /\ tx_pages' \in Seq(Blocks) /\ rx_pages \in Seq(Blocks)
  BY <1>1 DEF OwnerInv
<1>8. ToSet(tx_pages') = ToSet(tx_pages) \cup {b}
  BY <1>1, <1>7 DEF ToSet
<1>9. CardBlocks' = CardBlocks \cup {b}
  BY <1>5, <1>8 DEF CardBlocks
<1>10. Shares(BlocksOf(others) \cup {b}, ThreadBlocks, InUse(lev), CardBlocks \cup {b})
  BY <1>3, <1>4, SharesGrow DEF OwnerInv
<1>11. Shares(BlocksOf(others)', ThreadBlocks', InUse(lev), CardBlocks')
  BY <1>3, <1>4, <1>6, <1>9, <1>10 DEF BlocksOf
<1>12. PageOfThread'
  BY <1>5 DEF PageOfThread, OwnerInv
<1>13. OwnerInv(lev)'
  BY <1>5, <1>7, <1>9, <1>11, <1>12 DEF OwnerInv, Kernels
<1>14. QED
  BY <1>3, <1>13

-----------------------------------------------------------------------------
(* Mapping and unmapping *)

\* The translation that tables e stand for.
TrMap(e) == [v \in Pages |-> At(e, v, 4)]

\* What the address space allows from one translation to the next.
SpaceStep(tr, tr2) ==
  \/ \A v \in Pages : tr2[v] \in {tr[v], NONE}
  \/ \E v \in Pages : /\ tr[v] = NONE /\ tr2[v] \in Frames
                      /\ \A u \in Pages \ {v} : tr2[u] = tr[u]

\* The windows, and the mapping under way if there is one.
WinInv ==
  /\ WinOK(TrMap(entries), next_mmio_vaddr, windows)
  /\ kernel = "map" => CallOK(TrMap(entries), next_mmio_vaddr, windows, call)

\* What does not touch the tables.
LEMMA WinFrame ==
  ASSUME WinInv, UNCHANGED vmvars, kernel' # "map"
  PROVE  WinInv'
<1>1. entries' = entries /\ next_mmio_vaddr' = next_mmio_vaddr /\ windows' = windows
  BY DEF vmvars
<1>2. TrMap(entries)' = TrMap(entries)
  BY <1>1 DEF TrMap
<1>3. QED
  BY <1>1, <1>2 DEF WinInv

\* vmm_map_mmio, from a driver or from the probe.
LEMMA MapMmio ==
  ASSUME WinInv, NEW CONSTANT p \in Nat, NEW CONSTANT s \in Nat, s # 0, p + PageCount(s) <= PAGES,
         NEW CONSTANT by \in {"driver", "probe"}, vmm_map_mmio(p, s, by)
  PROVE  WinInv' /\ entries' = entries /\ kernel' = "map"
<1>1. /\ next_mmio_vaddr + PageCount(s) <= MMIO_END /\ next_mmio_vaddr' = next_mmio_vaddr + PageCount(s)
      /\ call' = [vaddr |-> next_mmio_vaddr, paddr |-> p, size |-> s, pages |-> PageCount(s), i |-> 0, by |-> by]
      /\ kernel' = "map" /\ entries' = entries /\ windows' = windows
  BY DEF vmm_map_mmio
<1> DEFINE tr == TrMap(entries)
<1>2. WinOK(tr, next_mmio_vaddr, windows)
  BY DEF WinInv
<1> HIDE DEF tr
<1>3. WinOK(tr, next_mmio_vaddr + PageCount(s), windows) /\ CallOK(tr, next_mmio_vaddr + PageCount(s), windows, call')
  BY <1>1, <1>2, NewWindow
<1>4. TrMap(entries)' = tr
  BY <1>1 DEF tr, TrMap
<1>5. QED
  BY <1>1, <1>3, <1>4 DEF WinInv

\* driver_maps.
LEMMA DriverMaps ==
  ASSUME WinInv, driver_maps
  PROVE  WinInv' /\ entries' = entries /\ kernel' = "map"
<1>1. PICK d \in Devices, s \in WindowSizes : vmm_map_mmio(d, s, "driver")
  BY DEF driver_maps
<1>2. d \in Nat /\ s \in Nat /\ s # 0 /\ d + PageCount(s) <= PAGES
  BY VirtMemAssumption, WindowsAssumption DEF Pages
<1>3. QED
  BY <1>1, <1>2, MapMmio

\* e1000_init.
LEMMA ProbeMaps ==
  ASSUME WinInv, e1000_init
  PROVE  WinInv' /\ entries' = entries /\ kernel' = "map"
<1>1. vmm_map_mmio(BAR0, WINDOW, "probe")
  BY DEF e1000_init
<1>2. BAR0 \in Nat /\ WINDOW \in Nat /\ WINDOW # 0 /\ BAR0 + PageCount(WINDOW) <= PAGES
  BY ProbeAssumption DEF Pages
<1>3. QED
  BY <1>1, <1>2, MapMmio

\* page_fault.
LEMMA PageFault ==
  ASSUME WinInv, NEW CONSTANT v \in FaultPages, page_fault(v)
  PROVE  WinInv' /\ entries' = entries /\ kernel' = "map"
<1>1. /\ kernel' = "map" /\ entries' = entries
      /\ next_mmio_vaddr' = next_mmio_vaddr /\ windows' = windows
      /\ call' = [vaddr |-> v, paddr |-> v, size |-> PAGE, pages |-> 1, i |-> 0, by |-> "fault"]
  BY DEF page_fault
<1> DEFINE tr == TrMap(entries)
<1>2. WinOK(tr, next_mmio_vaddr, windows)
  BY DEF WinInv
<1> HIDE DEF tr
<1>3. CallOK(tr, next_mmio_vaddr, windows, call')
  BY <1>1, NewFault
<1>4. TrMap(entries)' = tr
  BY <1>1 DEF tr, TrMap
<1>5. QED
  BY <1>1, <1>2, <1>3, <1>4 DEF WinInv

\* The page that a call maps is a page of the address space.
LEMMA ThisPageIs ==
  ASSUME WinInv, kernel = "map"
  PROVE  ThisPage \in Pages /\ ThisPage = call.vaddr + call.i
<1>1. WinOK(TrMap(entries), next_mmio_vaddr, windows) /\ CallOK(TrMap(entries), next_mmio_vaddr, windows, call)
  BY DEF WinInv
<1>2. call.vaddr + call.i \in Pages
  BY <1>1, PageInCall
<1>3. QED
  BY <1>2 DEF ThisPage

\* map_create_table: the tree grows, the translation stays.
LEMMA CreateTable ==
  ASSUME PagesInv, NEW CONSTANT lev, NEW CONSTANT num, Tree(entries, lev, num), OwnerInv(lev), WinInv,
         map_create_table, UNCHANGED probevars
  PROVE  /\ PagesInv' /\ live' \ others' = live \ others /\ WinInv' /\ TrMap(entries)' = TrMap(entries)
         /\ \E lev2, num2 : Tree(entries', lev2, num2) /\ OwnerInv(lev2)'
<1>1. PICK b \in Blocks : TakePages(b, 1) /\ entries' = NewTable(b)
  BY DEF map_create_table
<1>2. kernel = "map" /\ Depth < 3 /\ UNCHANGED <<kernel, threadvars, next_mmio_vaddr, call, mapped, windows>>
  BY DEF map_create_table
<1>3. PICK v \in Pages : v = ThisPage
  BY <1>2, ThisPageIs
<1>4. PICK k \in 0 .. 2 : k = Depth
  BY <1>2, DepthIs
<1>5. At(entries, v, k) # NONE /\ At(entries, v, k + 1) = NONE /\ Table(Depth) = At(entries, v, k)
  BY <1>2, <1>3, <1>4, DepthIs
<1>6. PICK lev2 : Changed(lev, lev2, b, k + 1)
  BY DEF Changed
<1>7. PICK num2 : Changed(num, num2, b, Number(v, k + 1))
  BY DEF Changed
<1>8. PagesInv' /\ live' \ others' = live \ others /\ lev[b] = -1 /\ OwnerInv(lev2)'
  <2>1. lev \in [Tables -> -1 .. 3] /\ k + 1 \in 0 .. 3
    BY DEF Tree, TreeType
  <2>2. QED
    BY <1>1, <1>2, <1>6, <2>1, TableTaken
<1>9. Grown(entries, entries', At(entries, v, k), Index(v, k), b)
  <2>1. At(entries, v, k) \in Tables /\ lev[At(entries, v, k)] = k
    BY <1>5, WalkDown
  <2>2. Index(v, k) \in Slots
    BY Path DEF Slots
  <2>3. At(entries, v, k) # b
    BY <1>8, <2>1
  <2>4. entries \in [Tables -> Entries]
    BY DEF Tree, TreeType
  <2>5. entries' = [entries EXCEPT ![At(entries, v, k)][Index(v, k)] = b, ![b] = Empty]
    BY <1>1, <1>3, <1>4, <1>5 DEF NewTable
  <2>6. Grown(entries, [entries EXCEPT ![At(entries, v, k)][Index(v, k)] = b, ![b] = Empty],
              At(entries, v, k), Index(v, k), b)
    BY <2>1, <2>2, <2>3, <2>4, GrownBy
  <2>7. QED
    BY <2>5, <2>6
<1>10. Tree(entries', lev2, num2) /\ \A u \in Pages : At(entries', u, 4) = At(entries, u, 4)
  BY <1>5, <1>6, <1>7, <1>8, <1>9, NewTableTree
<1>11. TrMap(entries)' = TrMap(entries)
  BY <1>10 DEF TrMap
<1>12. WinInv'
  BY <1>2, <1>11 DEF WinInv
<1>13. QED
  BY <1>8, <1>10, <1>11, <1>12

\* map_fails: nothing is mapped.
LEMMA MapFails ==
  ASSUME WinInv, map_fails
  PROVE  WinInv' /\ entries' = entries /\ kernel' \in {"idle", "probe", "halted"}
<1>1. entries' = entries /\ next_mmio_vaddr' = next_mmio_vaddr /\ windows' = windows
      /\ kernel' \in {"idle", "probe", "halted"}
  BY DEF map_fails, Caller
<1>2. TrMap(entries)' = TrMap(entries)
  BY <1>1 DEF TrMap
<1>3. QED
  BY <1>1, <1>2 DEF WinInv

\* map_set_entry: one page more is mapped, and with the last one the window is
\* handed out.
LEMMA SetEntry ==
  ASSUME NEW CONSTANT lev, NEW CONSTANT num, Tree(entries, lev, num), WinInv, map_set_entry
  PROVE  /\ Tree(entries', lev, num) /\ WinInv' /\ kernel' \in {"map", "idle", "probe"}
         /\ SpaceStep(TrMap(entries), TrMap(entries'))
<1> DEFINE tr == TrMap(entries)
           tr2 == TrMap(entries')
           v == call.vaddr + call.i
           x == call.paddr + call.i
           nx == next_mmio_vaddr
<1>1. /\ kernel = "map" /\ Depth = 3 /\ next_mmio_vaddr' = nx
      /\ entries' = [entries EXCEPT ![Table(3)][Index(ThisPage, 3)] = x]
  BY DEF map_set_entry
<1>2. WinOK(tr, nx, windows) /\ CallOK(tr, nx, windows, call)
  BY <1>1 DEF WinInv
<1>3. ThisPage = v
  BY DEF ThisPage
<1>4. v \in Pages /\ tr[v] \in {NONE, x} /\ x \in Pages
  <2> HIDE DEF tr, nx
  <2>1. QED
    BY <1>2, PageInCall
<1>5. x \in Frames \cup {NONE} /\ x \in Frames
  BY <1>4 DEF Frames
<1>6. At(entries, v, 3) # NONE /\ Set(entries, entries', At(entries, v, 3), Index(v, 3), x)
  <2>1. At(entries, ThisPage, 3) # NONE /\ Table(3) = At(entries, ThisPage, 3)
    BY <1>1, DepthIs
  <2>2. QED
    BY <1>1, <1>3, <2>1 DEF Set
<1> HIDE DEF x, v
<1>7. /\ Tree(entries', lev, num) /\ At(entries', v, 4) = x
      /\ \A u \in Pages : u # v => At(entries', u, 4) = At(entries, u, 4)
  BY <1>4, <1>5, <1>6, SetLeaf
<1>8. Mapped(tr, tr2, v, x)
  BY <1>4, <1>7 DEF Mapped, TrMap
<1>9. SpaceStep(tr, tr2)
  <2>1. tr2[v] = x /\ \A u \in Pages \ {v} : tr2[u] = tr[u]
    BY <1>8 DEF Mapped
  <2> HIDE DEF tr, tr2
  <2>2. QED
    BY <1>4, <1>5, <2>1 DEF SpaceStep
<1>10. TrMap(entries)' = tr2
  BY DEF TrMap
<1> HIDE DEF tr, tr2, nx
<1>11. /\ WinOK(tr2, nx, windows)
       /\ call.i + 1 < call.pages => CallOK(tr2, nx, windows, [call EXCEPT !.i = @ + 1])
       /\ call.by # "fault" => LeadTo(tr2, call.vaddr, call.i + 1, call.paddr)
  BY <1>2, <1>8, SetPage DEF v, x
<1>12. CASE call.i + 1 < call.pages
  <2>1. call' = [call EXCEPT !.i = @ + 1] /\ windows' = windows /\ kernel' = kernel
    BY <1>12 DEF map_set_entry
  <2>2. WinInv'
    BY <1>1, <1>10, <1>11, <1>12, <2>1 DEF WinInv, nx
  <2>3. QED
    BY <1>1, <1>7, <1>9, <2>1, <2>2 DEF tr, tr2
<1>13. CASE ~(call.i + 1 < call.pages)
  <2>1. windows' = (IF call.by = "fault" THEN windows ELSE windows \cup {Window}) /\ kernel' \in {"idle", "probe"}
    BY <1>13 DEF map_set_entry, Caller
  <2>2. WinOK(tr2, nx, windows')
    <3>1. CASE call.by = "fault"
      BY <1>11, <2>1, <3>1
    <3>2. CASE call.by # "fault"
      <4>1. /\ call \in CallRecord /\ call.size # 0 /\ call.pages = PageCount(call.size) /\ InArea(call.vaddr, call.pages, nx)
            /\ \A w \in windows : Apart(w.vaddr, PageCount(w.size), call.vaddr, call.pages)
            /\ call.i < call.pages
        BY <1>2, <3>2 DEF CallOK
      <4>2. call.i + 1 = call.pages
        BY <1>13, <4>1 DEF CallRecord
      <4>3. LeadTo(tr2, call.vaddr, call.pages, call.paddr)
        BY <1>11, <3>2, <4>2
      <4>4. PICK w : w = Window
        OBVIOUS
      <4>5. w = [vaddr |-> call.vaddr, paddr |-> call.paddr, size |-> call.size]
        BY <4>4 DEF Window
      <4>6. WinOK(tr2, nx, windows \cup {w})
        BY <1>11, <4>1, <4>3, <4>5, WindowDone
      <4>7. QED
        BY <2>1, <3>2, <4>4, <4>6
    <3>3. QED
      BY <3>1, <3>2
  <2>3. WinInv'
    BY <1>1, <1>10, <2>1, <2>2 DEF WinInv, nx
  <2>4. QED
    BY <1>7, <1>9, <2>1, <2>3 DEF tr, tr2
<1>14. QED
  BY <1>12, <1>13

\* vmm_unmap: the pages of the window lose their translation.
LEMMA UnmapWindow ==
  ASSUME NEW CONSTANT lev, NEW CONSTANT num, Tree(entries, lev, num), WinInv,
         NEW CONSTANT w, w \in windows, vmm_unmap(w)
  PROVE  /\ Tree(entries', lev, num) /\ WinInv'
         /\ SpaceStep(TrMap(entries), TrMap(entries'))
<1> DEFINE tr == TrMap(entries)
           tr2 == TrMap(entries')
           nx == next_mmio_vaddr
           range == w.vaddr .. w.vaddr + PageCount(w.size) - 1
<1>1. /\ kernel = "idle" /\ kernel' = "idle" /\ windows' = windows \ {w} /\ next_mmio_vaddr' = nx
      /\ entries' = [t \in Tables |-> [i \in 0 .. FANOUT - 1 |->
                      IF \E v \in range : Walk(v)[4] = t /\ Index(v, 3) = i
                      THEN NONE ELSE entries[t][i]]]
  BY DEF vmm_unmap
<1>2. Cleared(entries, entries', range)
  <2>1. \A v \in range : Walk(v)[4] = At(entries, v, 3)
    BY Walking
  <2>2. QED
    BY <1>1, <2>1 DEF Cleared, Slots
<1>3. WinOK(tr, nx, windows)
  BY DEF WinInv
<1>4. range \in SUBSET Pages
  <2>1. w.vaddr \in Nat /\ PageCount(w.size) \in Nat /\ w.vaddr + PageCount(w.size) <= MMIO_END
    BY <1>3, PagesEnough DEF WinOK, WindowType, InArea
  <2>2. MMIO_END \in Nat /\ MMIO_END <= PAGES /\ PAGES \in Nat
    BY VirtMemAssumption DEF PAGES
  <2>3. QED
    BY <2>1, <2>2 DEF Pages
<1> HIDE DEF range
<1>5. /\ Tree(entries', lev, num)
      /\ \A u \in Pages : At(entries', u, 4) = IF u \in range THEN NONE ELSE At(entries, u, 4)
  BY <1>2, <1>4, ClearRange
<1>6. \A u \in Pages : tr2[u] = IF u \in range THEN NONE ELSE tr[u]
  BY <1>5 DEF TrMap
<1>7. TrMap(entries)' = tr2
  BY DEF TrMap
<1> HIDE DEF tr, tr2, nx
<1>8. WinOK(tr2, nx, windows \ {w})
  <2>1. range = w.vaddr .. w.vaddr + PageCount(w.size) - 1
    BY DEF range
  <2>2. QED
    BY <1>3, <1>6, <2>1, WindowGone
<1>9. WinInv'
  BY <1>1, <1>7, <1>8 DEF WinInv, nx
<1>10. SpaceStep(tr, tr2)
  BY <1>6 DEF SpaceStep
<1>11. QED
  BY <1>5, <1>9, <1>10 DEF tr, tr2

-----------------------------------------------------------------------------
(* The list of allocations.  hd: the headers, al: allocation_list, he: the   *)
(* pointers that are held, s: the n allocations in the order of the list.    *)

HeaderType == [size : Nat, magic : BOOLEAN, next : Blocks \cup {NULL}, prev : Blocks \cup {NULL}]

\* Both links of the i-th header.
LinkedAt(hd, n, s, i) ==
  /\ hd[s[i]].magic
  /\ hd[s[i]].next = IF i = n THEN NULL ELSE s[i + 1]
  /\ hd[s[i]].prev = IF i = 1 THEN NULL ELSE s[i - 1]

Linked(hd, al, he, n, s) ==
  /\ n \in Nat /\ s \in [1 .. n -> Blocks]
  /\ \A i, j \in 1 .. n : s[i] = s[j] => i = j
  /\ \A p : p \in he <=> \E i \in 1 .. n : s[i] = p
  /\ al = IF n = 0 THEN NULL ELSE s[1]
  /\ \A i \in 1 .. n : LinkedAt(hd, n, s, i)

\* Headers hd2: those of hd with block b in front.
Inserted(hd, hd2, al, b, size) ==
  /\ hd2 \in [Blocks -> HeaderType]
  /\ hd2[b].size = size /\ hd2[b].magic /\ hd2[b].next = al /\ hd2[b].prev = NULL
  /\ \A p \in Blocks : p # b =>
       /\ hd2[p].size = hd[p].size /\ hd2[p].magic = hd[p].magic /\ hd2[p].next = hd[p].next
       /\ hd2[p].prev = IF p = al THEN b ELSE hd[p].prev

\* What LinkFirst makes of the headers.
LEMMA LinkFirstIs ==
  ASSUME header \in [Blocks -> HeaderType], NEW b \in Blocks, NEW size \in Nat,
         allocation_list \in Blocks \cup {NULL}, allocation_list # b
  PROVE  Inserted(header, LinkFirst(b, size), allocation_list, b, size)
<1> DEFINE h == [size |-> size, magic |-> TRUE, next |-> allocation_list, prev |-> NULL]
           linked == [header EXCEPT ![b] = h]
           a == allocation_list
<1>1. h \in HeaderType /\ h.size = size /\ h.magic = TRUE /\ h.next = a /\ h.prev = NULL
  BY DEF HeaderType
<1> HIDE DEF h
<1>2. linked \in [Blocks -> HeaderType] /\ linked[b] = h /\ \A p \in Blocks : p # b => linked[p] = header[p]
  BY <1>1
<1>3. LinkFirst(b, size) = IF a = NULL THEN linked ELSE [linked EXCEPT ![a].prev = b]
  BY DEF LinkFirst, h
<1> HIDE DEF linked
<1>4. CASE a = NULL
  BY <1>1, <1>2, <1>3, <1>4, KernelPagesAssumption DEF Inserted
<1>5. CASE a # NULL
  <2> DEFINE k == [linked[a] EXCEPT !.prev = b]
             hd2 == [linked EXCEPT ![a] = k]
  <2>1. a \in Blocks /\ linked[a] \in HeaderType /\ linked[a] = header[a]
    BY <1>2, <1>5
  <2>2. k \in HeaderType /\ k.size = header[a].size /\ k.magic = header[a].magic /\ k.next = header[a].next /\ k.prev = b
    BY <2>1 DEF HeaderType
  <2>3. LinkFirst(b, size) = hd2
    BY <1>3, <1>5
  <2> HIDE DEF k
  <2>4. hd2 \in [Blocks -> HeaderType] /\ hd2[a] = k /\ \A p \in Blocks : p # a => hd2[p] = linked[p]
    BY <1>2, <2>1, <2>2
  <2> HIDE DEF hd2
  <2>5. hd2[b] = h
    BY <1>2, <2>4
  <2>6. \A p \in Blocks : p # b /\ p # a => hd2[p] = header[p]
    BY <1>2, <2>4
  <2>7. Inserted(header, hd2, a, b, size)
    BY <1>1, <2>1, <2>2, <2>4, <2>5, <2>6 DEF Inserted
  <2>8. QED
    BY <2>3, <2>7
<1>6. QED
  BY <1>4, <1>5

\* Headers hd2: those of hd without block p.
Removed(hd, hd2, p) ==
  /\ hd2 \in [Blocks -> HeaderType]
  /\ \A x \in Blocks : x # p =>
       /\ hd2[x].size = hd[x].size /\ hd2[x].magic = hd[x].magic
       /\ hd2[x].next = IF x = hd[p].prev THEN hd[p].next ELSE hd[x].next
       /\ hd2[x].prev = IF x = hd[p].next THEN hd[p].prev ELSE hd[x].prev

\* What Unlinked makes of the headers.
LEMMA UnlinkedIs ==
  ASSUME header \in [Blocks -> HeaderType], NEW p \in Blocks
  PROVE  Removed(header, Unlinked(p), p)
<1> DEFINE h == header[p]
           k1 == [header[h.prev] EXCEPT !.next = h.next]
           before == IF h.prev = NULL THEN header ELSE [header EXCEPT ![h.prev] = k1]
           k2 == [before[h.next] EXCEPT !.prev = h.prev]
           after == IF h.next = NULL THEN before ELSE [before EXCEPT ![h.next] = k2]
<1>1. Unlinked(p) = [after EXCEPT ![p] = NoHeader]
  BY DEF Unlinked
<1>2. h \in HeaderType /\ h.next \in Blocks \cup {NULL} /\ h.prev \in Blocks \cup {NULL}
  BY DEF HeaderType
<1>3. /\ before \in [Blocks -> HeaderType]
      /\ \A x \in Blocks : /\ before[x].size = header[x].size /\ before[x].magic = header[x].magic
                           /\ before[x].prev = header[x].prev
                           /\ before[x].next = IF x = h.prev THEN h.next ELSE header[x].next
  <2>1. CASE h.prev = NULL
    BY <2>1, KernelPagesAssumption
  <2>2. CASE h.prev # NULL
    <3>1. h.prev \in Blocks /\ header[h.prev] \in HeaderType
      BY <1>2, <2>2
    <3>2. /\ k1 \in HeaderType /\ k1.size = header[h.prev].size /\ k1.magic = header[h.prev].magic
          /\ k1.prev = header[h.prev].prev /\ k1.next = h.next
      BY <1>2, <3>1 DEF HeaderType
    <3>3. before = [header EXCEPT ![h.prev] = k1]
      BY <2>2
    <3> HIDE DEF k1, before, h
    <3>4. before \in [Blocks -> HeaderType] /\ before[h.prev] = k1 /\ \A x \in Blocks : x # h.prev => before[x] = header[x]
      BY <3>1, <3>2, <3>3
    <3>5. QED
      BY <3>1, <3>2, <3>4
  <2>3. QED
    BY <2>1, <2>2
<1> HIDE DEF before, k1, h
<1>4. /\ after \in [Blocks -> HeaderType]
      /\ \A x \in Blocks : /\ after[x].size = before[x].size /\ after[x].magic = before[x].magic
                           /\ after[x].next = before[x].next
                           /\ after[x].prev = IF x = h.next THEN h.prev ELSE before[x].prev
  <2>1. CASE h.next = NULL
    BY <1>3, <2>1, KernelPagesAssumption
  <2>2. CASE h.next # NULL
    <3>1. h.next \in Blocks /\ before[h.next] \in HeaderType
      BY <1>2, <1>3, <2>2
    <3>2. /\ k2 \in HeaderType /\ k2.size = before[h.next].size /\ k2.magic = before[h.next].magic
          /\ k2.next = before[h.next].next /\ k2.prev = h.prev
      BY <1>2, <3>1 DEF HeaderType
    <3>3. after = [before EXCEPT ![h.next] = k2]
      BY <2>2
    <3> HIDE DEF k2, after
    <3>4. after \in [Blocks -> HeaderType] /\ after[h.next] = k2 /\ \A x \in Blocks : x # h.next => after[x] = before[x]
      BY <1>3, <3>1, <3>2, <3>3
    <3>5. QED
      BY <3>1, <3>2, <3>4
  <2>3. QED
    BY <2>1, <2>2
<1> HIDE DEF after, k2
<1>5. NoHeader \in HeaderType
  BY DEF NoHeader, HeaderType
<1>6. /\ Unlinked(p) \in [Blocks -> HeaderType] /\ \A x \in Blocks : x # p => Unlinked(p)[x] = after[x]
  BY <1>1, <1>4, <1>5
<1>7. QED
  BY <1>3, <1>4, <1>6 DEF Removed, h

\* A new allocation becomes the first of the list.
LEMMA InsertList ==
  ASSUME NEW hd, NEW al, NEW he, NEW n, NEW s, Linked(hd, al, he, n, s), NEW b \in Blocks, b \notin he,
         NEW size, NEW hd2, Inserted(hd, hd2, al, b, size)
  PROVE  \E m, t : Linked(hd2, b, he \cup {b}, m, t)
<1> DEFINE m == n + 1
           t == [i \in 1 .. n + 1 |-> IF i = 1 THEN b ELSE s[i - 1]]
<1>1. /\ n \in Nat /\ s \in [1 .. n -> Blocks]
      /\ \A i, j \in 1 .. n : s[i] = s[j] => i = j
      /\ \A p : p \in he <=> \E i \in 1 .. n : s[i] = p
      /\ al = IF n = 0 THEN NULL ELSE s[1]
  BY DEF Linked
<1>2. m \in Nat /\ t \in [1 .. m -> Blocks] /\ t[1] = b /\ \A i \in 1 .. n : t[i + 1] = s[i]
  <2>1. \A i \in 1 .. n + 1 : i # 1 => i - 1 \in 1 .. n
    BY <1>1
  <2>2. \A i \in 1 .. n : i + 1 \in 1 .. n + 1 /\ i + 1 # 1 /\ (i + 1) - 1 = i
    BY <1>1
  <2>3. QED
    BY <1>1, <2>1, <2>2
<1>3. \A i \in 1 .. m : i # 1 => \E k \in 1 .. n : i = k + 1
  <2> SUFFICES ASSUME NEW i \in 1 .. m, i # 1 PROVE \E k \in 1 .. n : i = k + 1
    OBVIOUS
  <2>1. i - 1 \in 1 .. n /\ i = (i - 1) + 1
    BY <1>1
  <2>2. QED
    BY <2>1
<1>3b. 1 \in 1 .. m /\ \A i \in 1 .. n : i + 1 \in 1 .. m /\ i + 1 # 1
  BY <1>1
<1> HIDE DEF t, m
<1>4. \A i \in 1 .. n : s[i] # b /\ s[i] \in Blocks
  BY <1>1
<1>5. \A i, j \in 1 .. m : t[i] = t[j] => i = j
  <2> SUFFICES ASSUME NEW i \in 1 .. m, NEW j \in 1 .. m, t[i] = t[j] PROVE i = j
    OBVIOUS
  <2>1. CASE i = 1
    BY <1>2, <1>3, <1>4, <2>1
  <2>2. CASE j = 1
    BY <1>2, <1>3, <1>4, <2>2
  <2>3. CASE i # 1 /\ j # 1
    <3>1. PICK k \in 1 .. n, l \in 1 .. n : i = k + 1 /\ j = l + 1
      BY <1>3, <2>3
    <3>2. s[k] = s[l]
      BY <1>2, <3>1
    <3>3. QED
      BY <1>1, <3>1, <3>2
  <2>4. QED
    BY <2>1, <2>2, <2>3
<1>6. \A p : p \in he \cup {b} <=> \E i \in 1 .. m : t[i] = p
  <2> SUFFICES ASSUME NEW p PROVE p \in he \cup {b} <=> \E i \in 1 .. m : t[i] = p
    OBVIOUS
  <2>1. ASSUME p \in he PROVE \E i \in 1 .. m : t[i] = p
    <3>1. PICK i \in 1 .. n : s[i] = p
      BY <1>1, <2>1
    <3>2. t[i + 1] = p /\ i + 1 \in 1 .. m
      BY <1>2, <1>3b, <3>1
    <3>3. QED
      BY <3>2
  <2>2. ASSUME NEW i \in 1 .. m, t[i] = p PROVE p \in he \cup {b}
    <3>1. CASE i = 1
      BY <1>2, <2>2, <3>1
    <3>2. CASE i # 1
      <4>1. PICK k \in 1 .. n : i = k + 1
        BY <1>3, <3>2
      <4>2. s[k] = p
        BY <1>2, <2>2, <4>1
      <4>3. QED
        BY <1>1, <4>2
    <3>3. QED
      BY <3>1, <3>2
  <2>3. QED
    BY <1>2, <1>3b, <2>1, <2>2
<1>7. LinkedAt(hd2, m, t, 1)
  <2>1. hd2[b].magic /\ hd2[b].next = al /\ hd2[b].prev = NULL
    BY DEF Inserted
  <2>2. al = IF 1 = m THEN NULL ELSE t[1 + 1]
    BY <1>1, <1>2 DEF m
  <2>3. QED
    BY <1>2, <2>1, <2>2 DEF LinkedAt
<1>8. ASSUME NEW k \in 1 .. n PROVE LinkedAt(hd2, m, t, k + 1)
  <2>1. LinkedAt(hd, n, s, k)
    BY DEF Linked
  <2>2. t[k + 1] = s[k] /\ s[k] \in Blocks /\ s[k] # b
    BY <1>2, <1>4
  <2>3. /\ hd2[s[k]].magic = hd[s[k]].magic /\ hd2[s[k]].next = hd[s[k]].next
        /\ hd2[s[k]].prev = IF s[k] = al THEN b ELSE hd[s[k]].prev
    BY <2>2 DEF Inserted
  <2>4. hd2[t[k + 1]].next = IF k + 1 = m THEN NULL ELSE t[(k + 1) + 1]
    <3>1. k + 1 = m <=> k = n
      BY <1>1 DEF m
    <3>2. k # n => k + 1 \in 1 .. n
      BY <1>1
    <3>3. k # n => t[(k + 1) + 1] = s[k + 1]
      BY <1>2, <3>2
    <3>4. QED
      BY <2>1, <2>2, <2>3, <3>1, <3>3 DEF LinkedAt
  <2>5. hd2[t[k + 1]].prev = IF k + 1 = 1 THEN NULL ELSE t[(k + 1) - 1]
    <3>1. k + 1 # 1 /\ (k + 1) - 1 = k /\ 1 \in 1 .. n
      BY <1>1
    <3>2. s[k] = al <=> k = 1
      BY <1>1, <3>1
    <3>3. k = 1 => t[k] = b
      BY <1>2
    <3>4. k # 1 => k - 1 \in 1 .. n /\ k = (k - 1) + 1
      BY <1>1
    <3>5. k # 1 => t[k] = s[k - 1]
      BY <1>2, <3>4
    <3>6. QED
      BY <2>1, <2>2, <2>3, <3>1, <3>2, <3>3, <3>5 DEF LinkedAt
  <2>6. QED
    BY <2>1, <2>2, <2>3, <2>4, <2>5 DEF LinkedAt
<1>9. \A i \in 1 .. m : LinkedAt(hd2, m, t, i)
  BY <1>3, <1>7, <1>8
<1>10. b = IF m = 0 THEN NULL ELSE t[1]
  BY <1>1, <1>2 DEF m
<1>11. Linked(hd2, b, he \cup {b}, m, t)
  BY <1>2, <1>5, <1>6, <1>9, <1>10 DEF Linked
<1>12. QED
  BY <1>11

\* An allocation leaves the list.
LEMMA RemoveList ==
  ASSUME NEW hd, NEW al, NEW he, NEW n, NEW s, Linked(hd, al, he, n, s), NEW p \in he,
         NEW hd2, Removed(hd, hd2, p), NEW al2, al2 = IF hd[p].prev = NULL THEN hd[p].next ELSE al
  PROVE  \E m, t : Linked(hd2, al2, he \ {p}, m, t)
<1>1. /\ n \in Nat /\ s \in [1 .. n -> Blocks]
      /\ \A i, j \in 1 .. n : s[i] = s[j] => i = j
      /\ \A q : q \in he <=> \E i \in 1 .. n : s[i] = q
      /\ al = IF n = 0 THEN NULL ELSE s[1]
  BY DEF Linked
<1>2. PICK k \in 1 .. n : s[k] = p
  BY <1>1
<1> DEFINE m == n - 1
           Old(i) == IF i < k THEN i ELSE i + 1
           t == [i \in 1 .. m |-> s[Old(i)]]
<1>3. n >= 1 /\ m \in Nat /\ \A i \in 1 .. m : Old(i) \in 1 .. n /\ Old(i) # k
  BY <1>1
<1>4. \A j \in 1 .. n : j # k => \E i \in 1 .. m : j = Old(i)
  <2> SUFFICES ASSUME NEW j \in 1 .. n, j # k PROVE \E i \in 1 .. m : j = Old(i)
    OBVIOUS
  <2>1. CASE j < k
    <3>1. j \in 1 .. m /\ j = Old(j)
      BY <1>1, <2>1
    <3>2. QED
      BY <3>1
  <2>2. CASE j > k
    <3>1. j - 1 \in 1 .. m /\ j = Old(j - 1)
      BY <1>1, <2>2
    <3>2. QED
      BY <3>1
  <2>3. QED
    BY <1>1, <2>1, <2>2
<1>5. t \in [1 .. m -> Blocks] /\ \A i \in 1 .. m : t[i] = s[Old(i)]
  BY <1>1, <1>3
<1> HIDE DEF t
<1>6. \A i, j \in 1 .. m : t[i] = t[j] => i = j
  <2> SUFFICES ASSUME NEW i \in 1 .. m, NEW j \in 1 .. m, t[i] = t[j] PROVE i = j
    OBVIOUS
  <2>1. Old(i) = Old(j)
    BY <1>1, <1>3, <1>5
  <2>2. QED
    BY <1>1, <2>1
<1>7. \A q : q \in he \ {p} <=> \E i \in 1 .. m : t[i] = q
  <2> SUFFICES ASSUME NEW q PROVE q \in he \ {p} <=> \E i \in 1 .. m : t[i] = q
    OBVIOUS
  <2>1. ASSUME q \in he, q # p PROVE \E i \in 1 .. m : t[i] = q
    <3>1. PICK j \in 1 .. n : s[j] = q
      BY <1>1, <2>1
    <3>2. PICK i \in 1 .. m : j = Old(i)
      BY <1>2, <1>4, <2>1, <3>1
    <3>3. QED
      BY <1>5, <3>1, <3>2
  <2>2. ASSUME NEW i \in 1 .. m, t[i] = q PROVE q \in he /\ q # p
    <3> HIDE DEF Old
    <3>1. QED
      BY <1>1, <1>2, <1>3, <1>5, <2>2
  <2>3. QED
    BY <2>1, <2>2
<1>8. LinkedAt(hd, n, s, k)
  BY DEF Linked
<1>9. /\ hd[p].next = IF k = n THEN NULL ELSE s[k + 1]
      /\ hd[p].prev = IF k = 1 THEN NULL ELSE s[k - 1]
  BY <1>2, <1>8 DEF LinkedAt
<1>10. \A i \in 1 .. n : s[i] \in Blocks /\ s[i] # NULL
  BY <1>1, KernelPagesAssumption
<1>11. /\ k # n => k + 1 \in 1 .. n
       /\ k # 1 => k - 1 \in 1 .. n
  BY <1>1
<1>12. ASSUME NEW i \in 1 .. m PROVE LinkedAt(hd2, m, t, i)
  <2> DEFINE j == Old(i)
  <2>1. j \in 1 .. n /\ j # k /\ t[i] = s[j]
    BY <1>3, <1>5
  <2>2. LinkedAt(hd, n, s, j)
    BY <2>1 DEF Linked
  <2>3. s[j] \in Blocks /\ s[j] # p
    BY <1>1, <1>2, <2>1
  <2>4. /\ hd2[s[j]].magic = hd[s[j]].magic
        /\ hd2[s[j]].next = IF s[j] = hd[p].prev THEN hd[p].next ELSE hd[s[j]].next
        /\ hd2[s[j]].prev = IF s[j] = hd[p].next THEN hd[p].prev ELSE hd[s[j]].prev
    BY <2>3 DEF Removed
  <2>5. s[j] = hd[p].prev <=> j = k - 1
    BY <1>1, <1>9, <1>10, <1>11, <2>1
  <2>6. s[j] = hd[p].next <=> j = k + 1
    BY <1>1, <1>9, <1>10, <1>11, <2>1
  <2>7. hd2[t[i]].next = IF i = m THEN NULL ELSE t[i + 1]
    <3>1. CASE j = k - 1
      <4>1. i = k - 1 /\ hd2[t[i]].next = hd[p].next
        BY <1>1, <2>1, <2>4, <2>5, <3>1
      <4>2. i = m <=> k = n
        BY <1>1, <4>1
      <4>3. i # m => i + 1 \in 1 .. m /\ Old(i + 1) = k + 1
        BY <1>1, <4>1
      <4>4. i # m => t[i + 1] = s[k + 1]
        BY <1>5, <4>3
      <4>5. QED
        BY <1>9, <4>1, <4>2, <4>4
    <3>2. CASE j # k - 1
      <4>1. hd2[t[i]].next = IF j = n THEN NULL ELSE s[j + 1]
        BY <2>1, <2>2, <2>4, <2>5, <3>2 DEF LinkedAt
      <4>2. i = m <=> j = n
        <5>1. CASE i < k
          BY <1>1, <3>2, <5>1
        <5>2. CASE i >= k
          BY <1>1, <5>2
        <5>3. QED
          BY <1>1, <5>1, <5>2
      <4>3. i # m => i + 1 \in 1 .. m /\ Old(i + 1) = j + 1
        BY <1>1, <2>1, <3>2
      <4>4. i # m => t[i + 1] = s[j + 1]
        BY <1>5, <4>3
      <4>5. QED
        BY <4>1, <4>2, <4>4
    <3>3. QED
      BY <3>1, <3>2
  <2>8. hd2[t[i]].prev = IF i = 1 THEN NULL ELSE t[i - 1]
    <3>1. CASE j = k + 1
      <4>1. i = k /\ hd2[t[i]].prev = hd[p].prev
        BY <1>1, <2>1, <2>4, <2>6, <3>1
      <4>2. i # 1 => i - 1 \in 1 .. m /\ Old(i - 1) = k - 1
        BY <1>1, <4>1
      <4>3. i # 1 => t[i - 1] = s[k - 1]
        BY <1>5, <4>2
      <4>4. QED
        BY <1>9, <4>1, <4>3
    <3>2. CASE j # k + 1
      <4>1. hd2[t[i]].prev = IF j = 1 THEN NULL ELSE s[j - 1]
        BY <2>1, <2>2, <2>4, <2>6, <3>2 DEF LinkedAt
      <4>2. i = 1 <=> j = 1
        BY <1>1, <2>1, <3>2
      <4>3. i # 1 => i - 1 \in 1 .. m /\ Old(i - 1) = j - 1
        BY <1>1, <2>1, <3>2
      <4>4. i # 1 => t[i - 1] = s[j - 1]
        BY <1>5, <4>3
      <4>5. QED
        BY <4>1, <4>2, <4>4
    <3>3. QED
      BY <3>1, <3>2
  <2>9. QED
    BY <2>1, <2>2, <2>4, <2>7, <2>8 DEF LinkedAt
<1>13. al2 = IF m = 0 THEN NULL ELSE t[1]
  <2>1. CASE k = 1
    <3>1. al2 = hd[p].next
      BY <1>9, <2>1
    <3>2. m # 0 => 1 \in 1 .. m /\ Old(1) = 2 /\ n # 1
      BY <1>1, <1>3, <2>1
    <3>3. m # 0 => t[1] = s[2]
      BY <1>5, <3>2
    <3>4. m = 0 <=> k = n
      BY <1>1, <2>1
    <3>5. QED
      BY <1>9, <2>1, <3>1, <3>3, <3>4
  <2>2. CASE k # 1
    <3>1. hd[p].prev # NULL
      BY <1>9, <1>10, <1>11, <2>2
    <3>2. al2 = s[1] /\ m # 0
      BY <1>1, <2>2, <3>1
    <3>3. 1 \in 1 .. m /\ Old(1) = 1
      BY <1>1, <1>3, <2>2
    <3>4. QED
      BY <1>5, <3>2, <3>3
  <2>3. QED
    BY <2>1, <2>2
<1>14. Linked(hd2, al2, he \ {p}, m, t)
  BY <1>3, <1>5, <1>6, <1>7, <1>12, <1>13 DEF Linked
<1>15. QED
  BY <1>14

-----------------------------------------------------------------------------
(* Counting *)

\* Sets of blocks are finite.
LEMMA BlocksFinite ==
  ASSUME NEW A, A \subseteq Blocks
  PROVE  IsFiniteSet(A) /\ Cardinality(A) \in Nat
<1>1. IsFiniteSet(Blocks)
  <2>1. 0 \in Int /\ TotalBlocks - 1 \in Int
    BY BlocksAssumption
  <2>2. QED
    BY <2>1, FS_Interval DEF Blocks
<1>2. QED
  BY <1>1, FS_Subset, FS_CardinalityType

\* Sets of blocks that do not overlap.
LEMMA CountBoth ==
  ASSUME NEW A, A \subseteq Blocks, NEW B, B \subseteq Blocks, A \cap B = {}
  PROVE  Cardinality(A \cup B) = Cardinality(A) + Cardinality(B)
<1>1. IsFiniteSet(A) /\ IsFiniteSet(B) /\ Cardinality(A) \in Nat /\ Cardinality(B) \in Nat
  BY BlocksFinite
<1>2. Cardinality(A \cup B) = Cardinality(A) + Cardinality(B) - Cardinality(A \cap B)
  BY <1>1, FS_Union
<1>3. Cardinality(A \cap B) = 0
  BY FS_EmptySet
<1>4. QED
  BY <1>1, <1>2, <1>3

\* A set of blocks without some of its members.
LEMMA CountRest ==
  ASSUME NEW A, A \subseteq Blocks, NEW B, B \subseteq A
  PROVE  Cardinality(A \ B) = Cardinality(A) - Cardinality(B) /\ Cardinality(B) <= Cardinality(A)
<1>1. A \ B \subseteq Blocks /\ B \subseteq Blocks /\ (A \ B) \cap B = {} /\ (A \ B) \cup B = A
  OBVIOUS
<1>2. Cardinality((A \ B) \cup B) = Cardinality(A \ B) + Cardinality(B)
  BY <1>1, CountBoth
<1>3. Cardinality(A \ B) \in Nat /\ Cardinality(B) \in Nat
  BY <1>1, BlocksFinite
<1>4. Cardinality(A) = Cardinality(A \ B) + Cardinality(B)
  BY <1>1, <1>2, Zenon
<1>5. QED
  BY <1>3, <1>4

\* A run has as many blocks as it says.
LEMMA RunSize ==
  ASSUME NEW b \in Nat, NEW n \in Nat
  PROVE  Cardinality(Run(b, n)) = n
<1>1. b \in Int /\ b + n - 1 \in Int
  OBVIOUS
<1>2. Cardinality(b .. b + n - 1) = IF b > b + n - 1 THEN 0 ELSE (b + n - 1) - b + 1
  BY <1>1, FS_Interval, Zenon
<1>3. QED
  BY <1>2 DEF Run

\* The list is as long as there are pointers.
LEMMA ListCounts ==
  ASSUME NEW hd, NEW al, NEW he, NEW n, NEW s, Linked(hd, al, he, n, s)
  PROVE  Cardinality(he) = n /\ he \subseteq Blocks
<1>1. /\ n \in Nat /\ s \in [1 .. n -> Blocks]
      /\ \A i, j \in 1 .. n : s[i] = s[j] => i = j
      /\ \A p : p \in he <=> \E i \in 1 .. n : s[i] = p
  BY DEF Linked
<1>2. s \in [1 .. n -> he] /\ he \subseteq Blocks
  BY <1>1
<1>3. s \in Bijection(1 .. n, he)
  BY <1>1, <1>2 DEF Bijection, Injection, Surjection, IsInjective
<1>4. ExistsBijection(1 .. n, he)
  BY <1>3 DEF ExistsBijection
<1>5. QED
  BY <1>1, <1>2, <1>4, FS_CountingElements

-----------------------------------------------------------------------------
(* Sizes *)

\* The size of an allocation does not overflow when the headers are added.
Fits(size) == size + HEADER + HEADER + PAGE - 1 < SIZE_WIDTH

\* What callers ask for is far from the end of a size_t.
OrdinarySizes ==
  /\ \A s \in Sizes : Fits(AtLeastMinimum(s))
  /\ \A k \in Members, s \in Sizes : ~CallocOverflows(k, s) => Fits(AtLeastMinimum(k * s))

\* The pages of an allocation hold it and its header.
LEMMA PagesFor ==
  ASSUME NEW size \in Nat, Fits(size)
  PROVE  /\ pages_for(size) \in Nat /\ pages_for(size) > 0
         /\ pages_for(size) = (size + HEADER + HEADER + PAGE - 1) \div PAGE
         /\ size + HEADER <= pages_for(size) * PAGE
<1> DEFINE x == size + HEADER + HEADER + PAGE - 1
<1>1. HEADER \in Nat /\ HEADER >= 1 /\ PAGE \in Nat /\ PAGE >= 1 /\ SIZE_WIDTH \in Nat
  BY HeapAssumption, KernelPagesAssumption
<1>2. x \in Nat /\ x < SIZE_WIDTH /\ x >= PAGE /\ x >= size + HEADER + PAGE
  BY <1>1 DEF Fits
<1>3. pages_for(size) = (x % SIZE_WIDTH) \div PAGE
  BY DEF pages_for
<1> HIDE DEF x
<1>4. x % SIZE_WIDTH = x
  BY <1>1, <1>2
<1> DEFINE q == x \div PAGE
<1>5. q \in Nat /\ x = PAGE * q + (x % PAGE) /\ x % PAGE < PAGE
  BY <1>1, <1>2
<1> HIDE DEF q
<1>6. q # 0
  <2>1. ASSUME q = 0 PROVE FALSE
    <3>1. PAGE * q = 0
      BY <1>1, <2>1
    <3>2. QED
      BY <1>1, <1>2, <1>5, <3>1
  <2>2. QED
    BY <2>1
<1>7. size + HEADER <= PAGE * q
  BY <1>1, <1>2, <1>5
<1>8. PAGE * q = q * PAGE
  BY <1>1, <1>5
<1>9. pages_for(size) = q
  BY <1>3, <1>4 DEF q
<1>10. QED
  <2>1. q > 0 /\ size + HEADER <= q * PAGE
    BY <1>1, <1>5, <1>6, <1>7, <1>8
  <2>2. q = (size + HEADER + HEADER + PAGE - 1) \div PAGE
    BY DEF q, x
  <2>3. QED
    BY <1>5, <1>9, <2>1, <2>2

\* A smaller allocation needs no more pages.
LEMMA PagesMonotone ==
  ASSUME NEW a \in Nat, NEW b \in Nat, a <= b, Fits(b)
  PROVE  Fits(a) /\ pages_for(a) <= pages_for(b)
<1> DEFINE x == a + HEADER + HEADER + PAGE - 1
           y == b + HEADER + HEADER + PAGE - 1
<1>1. HEADER \in Nat /\ PAGE \in Nat /\ PAGE >= 1 /\ SIZE_WIDTH \in Nat
  BY HeapAssumption, KernelPagesAssumption
<1>2. Fits(a) /\ x \in Nat /\ y \in Nat /\ x <= y
  BY <1>1 DEF Fits
<1>3. pages_for(a) = x \div PAGE /\ pages_for(b) = y \div PAGE
  BY <1>2, PagesFor
<1> HIDE DEF x, y
<1> DEFINE m == y \div PAGE + 1
<1>4. m \in Nat /\ y < PAGE * m
  <2>1. y \div PAGE \in Nat /\ y = PAGE * (y \div PAGE) + (y % PAGE) /\ y % PAGE < PAGE
    BY <1>1, <1>2
  <2>2. PAGE * m = PAGE * (y \div PAGE) + PAGE
    BY <1>1, <2>1
  <2>3. QED
    BY <1>1, <1>2, <2>1, <2>2
<1>5. x < PAGE * m
  BY <1>1, <1>2, <1>4
<1>6. x \div PAGE \in Nat /\ x \div PAGE < m
  <2> HIDE DEF m
  <2>1. QED
    BY <1>1, <1>2, <1>4, <1>5, QuotientBelow
<1>7. y \div PAGE \in Nat
  BY <1>1, <1>2
<1>8. QED
  BY <1>2, <1>3, <1>6, <1>7

\* calloc's check is exact: without an overflow the product is the size.
LEMMA CallocExact ==
  ASSUME NEW k \in Members, NEW s \in Sizes, ~CallocOverflows(k, s)
  PROVE  k * s \in Nat /\ k * s < SIZE_WIDTH /\ (k * s) % SIZE_WIDTH = k * s
<1>1. SIZE_WIDTH \in Nat /\ SIZE_WIDTH > 0 /\ k \in Nat /\ s \in Nat
  BY HeapAssumption
<1>2. k * s \in Nat
  BY <1>1
<1>3. k * s < SIZE_WIDTH
  <2>1. CASE k = 0
    <3>1. k * s = 0
      BY <1>1, <2>1
    <3>2. QED
      BY <1>1, <3>1
  <2>2. CASE k # 0
    <3> DEFINE q == (SIZE_WIDTH - 1) \div k
    <3>1. s <= q
      BY <1>1, <2>2 DEF CallocOverflows
    <3>2. q \in Nat /\ k * q <= SIZE_WIDTH - 1
      <4>1. SIZE_WIDTH - 1 \in Nat
        BY <1>1
      <4>2. q \in Nat /\ SIZE_WIDTH - 1 = k * q + ((SIZE_WIDTH - 1) % k) /\ (SIZE_WIDTH - 1) % k >= 0
        BY <1>1, <2>2, <4>1
      <4>3. QED
        BY <1>1, <4>2
    <3> HIDE DEF q
    <3>3. k * s <= k * q
      <4>1. k * (q - s) >= 0
        BY <1>1, <3>1, <3>2
      <4>2. k * (q - s) = k * q - k * s
        BY <1>1, <3>2
      <4>3. QED
        BY <1>1, <3>2, <4>1, <4>2
    <3>4. QED
      BY <1>1, <1>2, <3>2, <3>3
  <2>3. QED
    BY <2>1, <2>2
<1>4. (k * s) % SIZE_WIDTH = k * s
  <2> DEFINE x == k * s
  <2>1. x \in Nat /\ x < SIZE_WIDTH
    BY <1>2, <1>3
  <2> HIDE DEF x
  <2>2. x % SIZE_WIDTH = x
    BY <1>1, <2>1
  <2>3. QED
    BY <2>2 DEF x
<1>5. QED
  BY <1>2, <1>3, <1>4

-----------------------------------------------------------------------------
(* The heap *)

\* Run r backs pointer p: its pages hold the allocation, and those that free
\* will not give back have been cut off.
Backs(r, p, size, bytes, cu) ==
  /\ r.start = p /\ bytes <= size /\ Fits(size) /\ pages_for(size) <= r.count
  /\ RunBlocks(r) \ Run(p, pages_for(size)) \subseteq cu

\* The statistics, and the pages without a pointer.
Accounted ==
  /\ allocation_count = Cardinality(held)
  /\ total_allocated = Cardinality(BlocksOf(live \ others))
  /\ \A r \in live \ others : r.start \in held \/ RunBlocks(r) \subseteq cut

HeapInv ==
  /\ header \in [Blocks -> HeaderType] /\ asked \in [Blocks -> Nat]
  /\ \E n, s : Linked(header, allocation_list, held, n, s)
  /\ \A p \in held : \E r \in live \ others : Backs(r, p, header[p].size, asked[p], cut)
  /\ kernel = "realloc" => moving \in held
  /\ kernel # "halted" => Accounted

\* What does not touch the heap.
LEMMA HeapFrame ==
  ASSUME HeapInv, UNCHANGED heapvars, live' \ others' = live \ others, kernel' # "realloc",
         kernel' # "halted" => kernel # "halted"
  PROVE  HeapInv'
<1>1. /\ header' = header /\ allocation_list' = allocation_list /\ total_allocated' = total_allocated
      /\ allocation_count' = allocation_count /\ held' = held /\ asked' = asked /\ cut' = cut
  BY DEF heapvars
<1>2. BlocksOf(live \ others)' = BlocksOf(live \ others)
  BY DEF BlocksOf
<1>3. kernel' # "halted" => Accounted'
  BY <1>1, <1>2 DEF HeapInv, Accounted
<1>4. \A p \in held' : \E r \in (live \ others)' : Backs(r, p, header'[p].size, asked'[p], cut')
  BY <1>1 DEF HeapInv
<1>5. \E n, s : Linked(header', allocation_list', held', n, s)
  BY <1>1 DEF HeapInv
<1>6. QED
  BY <1>1, <1>3, <1>4, <1>5 DEF HeapInv

\* The pointers that are held lie in the heap's blocks.
LEMMA HeldBlocks ==
  ASSUME PagesInv, HeapInv
  PROVE  held \subseteq BlocksOf(live \ others) /\ held \subseteq Blocks /\ NULL \notin held
         /\ allocation_list \in held \cup {NULL}
<1>1. PICK n, s : Linked(header, allocation_list, held, n, s)
  BY DEF HeapInv
<1>2. held \subseteq Blocks
  BY <1>1, ListCounts
<1>3. ASSUME NEW p \in held PROVE p \in BlocksOf(live \ others)
  <2>1. PICK r \in live \ others : r.start = p
    BY DEF HeapInv, Backs
  <2>2. r \in RunType /\ r.count > 0
    BY <2>1 DEF PagesInv, RunsOK
  <2>3. p \in RunBlocks(r)
    BY <2>1, <2>2, RunStarts
  <2>4. QED
    BY <1>2, <2>1, <2>3 DEF BlocksOf
<1>4. allocation_list \in held \cup {NULL}
  BY <1>1 DEF Linked
<1>5. QED
  BY <1>2, <1>3, <1>4, KernelPagesAssumption

\* malloc: the new pointer is backed, and the others stay so.
LEMMA AllocateStep ==
  ASSUME PagesInv, HeapInv, kernel # "halted", NEW CONSTANT size, AtLeastMinimum(size) \in Nat,
         Fits(AtLeastMinimum(size)), NEW CONSTANT bytes \in Nat, bytes <= AtLeastMinimum(size),
         NEW CONSTANT b \in Blocks, Allocate(b, size, bytes),
         kernel' = "realloc" => moving' \in held
  PROVE  PagesInv' /\ HeapInv' /\ UNCHANGED <<others, threadvars>>
<1> DEFINE z == AtLeastMinimum(size)
           n == pages_for(z)
<1>1. n \in Nat /\ n > 0
  BY PagesFor
<1>2. /\ Take(b, n) /\ header' = LinkFirst(b, z) /\ allocation_list' = b
      /\ total_allocated' = total_allocated + n /\ allocation_count' = allocation_count + 1
      /\ held' = held \cup {b} /\ asked' = [asked EXCEPT ![b] = bytes] /\ cut' = cut
      /\ UNCHANGED <<others, threadvars>>
  BY DEF Allocate, kernelvars
<1>2z. z \in Nat /\ Fits(z) /\ bytes <= z
  OBVIOUS
<1>2n. n = pages_for(z)
  OBVIOUS
<1> HIDE DEF z, n
<1>3. PICK q : IsRun(q, b, n)
  BY DEF IsRun
<1>4. /\ PagesInv' /\ live' \ others' = (live \ others) \cup {q} /\ q.start = b /\ q.count = n
      /\ RunBlocks(q) = Run(b, n)
      /\ Run(b, n) \subseteq Blocks /\ BlocksOf(live' \ others') = BlocksOf(live \ others) \cup Run(b, n)
      /\ BlocksOf(live) \cap Run(b, n) = {} /\ b \in Run(b, n)
  BY <1>1, <1>2, <1>3, TakeHeap
<1>5. held \subseteq BlocksOf(live \ others) /\ held \subseteq Blocks /\ allocation_list \in held \cup {NULL}
  BY HeldBlocks
<1>6. BlocksOf(live \ others) \cap Run(b, n) = {}
  BY <1>4 DEF BlocksOf
<1>7. b \notin held /\ allocation_list # b /\ allocation_list \in Blocks \cup {NULL}
  BY <1>4, <1>5, <1>6, KernelPagesAssumption
<1>8. Inserted(header, header', allocation_list, b, z)
  BY <1>2, <1>2z, <1>7, LinkFirstIs DEF HeapInv
<1>9. header' \in [Blocks -> HeaderType] /\ asked' \in [Blocks -> Nat]
  BY <1>2, <1>8 DEF Inserted, HeapInv
<1>10. \E m, t : Linked(header', allocation_list', held', m, t)
  <2>1. PICK m, s : Linked(header, allocation_list, held, m, s)
    BY DEF HeapInv
  <2>2. QED
    BY <1>2, <1>7, <1>8, <2>1, InsertList
<1>11. ASSUME NEW p \in held' PROVE \E r \in live' \ others' : Backs(r, p, header'[p].size, asked'[p], cut')
  <2>1. CASE p = b
    <3>1. header'[b].size = z /\ asked'[b] = bytes
      BY <1>2, <1>8 DEF Inserted, HeapInv
    <3>2. Backs(q, b, z, bytes, cut')
      <4>1. pages_for(z) <= q.count
        BY <1>1, <1>2n, <1>4
      <4>2. RunBlocks(q) \ Run(b, pages_for(z)) \subseteq cut'
        BY <1>2n, <1>4
      <4>3. QED
        BY <1>2z, <1>4, <4>1, <4>2 DEF Backs
    <3>3. QED
      BY <1>4, <2>1, <3>1, <3>2
  <2>2. CASE p # b
    <3>1. p \in held /\ p \in Blocks
      BY <1>2, <1>5, <2>2
    <3>2. header'[p].size = header[p].size /\ asked'[p] = asked[p]
      BY <1>2, <1>8, <2>2, <3>1 DEF Inserted, HeapInv
    <3>3. PICK r \in live \ others : Backs(r, p, header[p].size, asked[p], cut)
      BY <3>1 DEF HeapInv
    <3>4. QED
      BY <1>2, <1>4, <3>2, <3>3
  <2>3. QED
    BY <2>1, <2>2
<1>12. Accounted'
  <2>0. Accounted
    BY DEF HeapInv
  <2>1. allocation_count' = Cardinality(held')
    <3>1. IsFiniteSet(held)
      BY <1>5, BlocksFinite
    <3>2. Cardinality(held \cup {b}) = Cardinality(held) + 1
      BY <1>7, <3>1, FS_AddElement
    <3>3. QED
      BY <1>2, <2>0, <3>2 DEF Accounted
  <2>2. total_allocated' = Cardinality(BlocksOf(live' \ others'))
    <3>1. Cardinality(Run(b, n)) = n
      BY <1>1, RunSize DEF Blocks
    <3>2. BlocksOf(live \ others) \subseteq Blocks
      BY DEF BlocksOf
    <3>3. Cardinality(BlocksOf(live \ others) \cup Run(b, n)) = Cardinality(BlocksOf(live \ others)) + n
      BY <1>4, <1>6, <3>1, <3>2, CountBoth
    <3>4. QED
      BY <1>2, <1>4, <2>0, <3>3 DEF Accounted
  <2>3. \A r \in live' \ others' : r.start \in held' \/ RunBlocks(r) \subseteq cut'
    BY <1>2, <1>4, <2>0 DEF Accounted
  <2>4. QED
    BY <2>1, <2>2, <2>3 DEF Accounted, BlocksOf
<1>13. HeapInv'
  BY <1>2, <1>9, <1>10, <1>11, <1>12 DEF HeapInv
<1>14. QED
  BY <1>2, <1>4, <1>13

\* free: the pages of the allocation are given back, and no other pointer loses any.
LEMMA FreeStep ==
  ASSUME PagesInv, HeapInv, kernel # "halted", NEW CONSTANT p, p \in held, FreePointer(p), kernel' = "idle"
  PROVE  PagesInv' /\ HeapInv' /\ UNCHANGED <<others, threadvars>>
<1> DEFINE n == FreedPages(p)
<1>1. PICK r \in live : r.start = p /\ Release(r, n)
  BY DEF FreePointer
<1>2. /\ header' = Unlinked(p) /\ allocation_list' = (IF header[p].prev = NULL THEN header[p].next ELSE allocation_list)
      /\ total_allocated' = Lowered(p)
      /\ allocation_count' = (IF allocation_count > 0 THEN allocation_count - 1 ELSE allocation_count)
      /\ held' = held \ {p} /\ asked' = [asked EXCEPT ![p] = 0] /\ cut' = cut
      /\ UNCHANGED <<others, threadvars>>
  BY DEF FreePointer, kernelvars
<1>2l. Lowered(p) = IF total_allocated >= n THEN total_allocated - n ELSE total_allocated
  BY DEF Lowered
<1>3. held \subseteq BlocksOf(live \ others) /\ held \subseteq Blocks /\ p \in Blocks
  BY HeldBlocks
<1>4. r \in live \ others /\ Backs(r, p, header[p].size, asked[p], cut)
  <2>1. PICK s \in live \ others : Backs(s, p, header[p].size, asked[p], cut)
    BY DEF HeapInv
  <2>2. RunsOK(live, used) /\ s \in live /\ r \in live /\ r.start = s.start
    BY <1>1, <2>1 DEF PagesInv, Backs
  <2>3. r = s
    BY <2>2, OneRunEach
  <2>4. QED
    BY <2>1, <2>3
<1>5. n \in Nat /\ n > 0 /\ n <= r.count /\ RunBlocks(r) \ Run(p, n) \subseteq cut
  <2>1. header[p].size \in Nat
    BY <1>3 DEF HeapInv, HeaderType
  <2>2. Fits(header[p].size)
    BY <1>4 DEF Backs
  <2>3. QED
    BY <1>4, <2>1, <2>2, PagesFor DEF Backs, FreedPages
<1> HIDE DEF n
<1>6. /\ PagesInv' /\ live' \ others' = ((live \ others) \ {r}) \cup Rest(r, n)
      /\ BlocksOf(live' \ others') = BlocksOf(live \ others) \ Run(p, n)
      /\ Run(p, n) \subseteq BlocksOf(live \ others)
      /\ \A s \in Rest(r, n) : RunBlocks(s) = RunBlocks(r) \ Run(p, n)
  BY <1>1, <1>2, <1>4, <1>5, ReleaseHeap
<1>7. Removed(header, header', p)
  BY <1>2, <1>3, UnlinkedIs DEF HeapInv
<1>8. header' \in [Blocks -> HeaderType] /\ asked' \in [Blocks -> Nat]
  BY <1>2, <1>3, <1>7 DEF Removed, HeapInv
<1>9. \E m, t : Linked(header', allocation_list', held', m, t)
  <2>1. PICK m, s : Linked(header, allocation_list, held, m, s)
    BY DEF HeapInv
  <2>2. QED
    BY <1>2, <1>7, <2>1, RemoveList
<1>10. ASSUME NEW x \in held' PROVE \E s \in live' \ others' : Backs(s, x, header'[x].size, asked'[x], cut')
  <2>1. x \in held /\ x # p /\ x \in Blocks
    BY <1>2, <1>3
  <2>2. header'[x].size = header[x].size /\ asked'[x] = asked[x]
    BY <1>2, <1>7, <2>1 DEF Removed, HeapInv
  <2>3. PICK s \in live \ others : Backs(s, x, header[x].size, asked[x], cut)
    BY <2>1 DEF HeapInv
  <2>4. s # r
    BY <1>1, <2>1, <2>3 DEF Backs
  <2>5. QED
    BY <1>2, <1>6, <2>2, <2>3, <2>4
<1>11. Accounted'
  <2>0. Accounted
    BY DEF HeapInv
  <2>1. allocation_count' = Cardinality(held')
    <3>1. IsFiniteSet(held) /\ Cardinality(held) \in Nat
      BY <1>3, BlocksFinite
    <3>2. Cardinality(held \ {p}) = Cardinality(held) - 1 /\ Cardinality(held \ {p}) \in Nat
      BY <3>1, FS_RemoveElement, FS_CardinalityType
    <3>3. allocation_count = Cardinality(held)
      BY <2>0 DEF Accounted
    <3>4. QED
      BY <1>2, <3>1, <3>2, <3>3
  <2>2. total_allocated' = Cardinality(BlocksOf(live' \ others'))
    <3>1. Cardinality(Run(p, n)) = n
      BY <1>3, <1>5, RunSize DEF Blocks
    <3>2. BlocksOf(live \ others) \subseteq Blocks
      BY DEF BlocksOf
    <3> DEFINE H == BlocksOf(live \ others)
    <3>3. Cardinality(H \ Run(p, n)) = Cardinality(H) - n /\ n <= Cardinality(H)
      <4> HIDE DEF H
      <4>1. H \subseteq Blocks /\ Run(p, n) \subseteq H
        BY <1>6, <3>2 DEF H
      <4>2. QED
        BY <3>1, <4>1, CountRest
    <3>4. total_allocated = Cardinality(H) /\ Cardinality(H) \in Nat
      BY <2>0, <3>2, BlocksFinite DEF Accounted
    <3>5. total_allocated' = Cardinality(H) - n
      BY <1>2, <1>2l, <1>5, <3>3, <3>4
    <3>6. QED
      BY <1>6, <3>3, <3>5
  <2>3. \A s \in live' \ others' : s.start \in held' \/ RunBlocks(s) \subseteq cut'
    <3> SUFFICES ASSUME NEW s \in live' \ others' PROVE s.start \in held' \/ RunBlocks(s) \subseteq cut'
      OBVIOUS
    <3>1. CASE s \in Rest(r, n)
      BY <1>2, <1>5, <1>6, <3>1
    <3>2. CASE s \in (live \ others) \ {r}
      <4>1. s.start # p
        <5>1. RunsOK(live, used) /\ s \in live /\ s # r
          BY <3>2 DEF PagesInv
        <5>2. QED
          BY <1>1, <5>1, OneRunEach
      <4>2. QED
        BY <1>2, <2>0, <3>2, <4>1 DEF Accounted
    <3>3. QED
      BY <1>6, <3>1, <3>2
  <2>4. QED
    BY <2>1, <2>2, <2>3 DEF Accounted, BlocksOf
<1>12. HeapInv'
  BY <1>8, <1>9, <1>10, <1>11 DEF HeapInv
<1>13. QED
  BY <1>2, <1>6, <1>12

\* realloc to a smaller size: the pages behind the new end are cut off.
LEMMA ReallocInPlace ==
  ASSUME PagesInv, HeapInv, NEW CONSTANT p, p \in held, NEW CONSTANT size \in Sizes, realloc_in_place(p, size)
  PROVE  HeapInv'
<1> DEFINE old == header[p].size
           k == [header[p] EXCEPT !.size = size]
<1>1. /\ kernel = "idle" /\ size # 0 /\ size <= old /\ header' = [header EXCEPT ![p] = k]
      /\ cut' = cut \cup (Run(p, pages_for(old)) \ Run(p, pages_for(size)))
      /\ asked' = [asked EXCEPT ![p] = size]
      /\ UNCHANGED <<used, live, booting, kernel, others, allocation_list, total_allocated,
                     allocation_count, held, moving>>
  BY DEF realloc_in_place, FreedPages, pagevars, kernelvars
<1>2. held \subseteq Blocks /\ p \in Blocks
  BY HeldBlocks
<1>3. size \in Nat /\ old \in Nat
  BY <1>2, HeapAssumption DEF HeapInv, HeaderType
<1>4. header[p] \in HeaderType
  BY <1>2 DEF HeapInv
<1>5. /\ k \in HeaderType /\ k.size = size /\ k.magic = header[p].magic /\ k.next = header[p].next
      /\ k.prev = header[p].prev
  BY <1>3, <1>4 DEF HeaderType
<1> HIDE DEF k, old
<1>6. /\ header' \in [Blocks -> HeaderType] /\ header'[p] = k /\ asked' \in [Blocks -> Nat] /\ asked'[p] = size
      /\ \A x \in Blocks : x # p => header'[x] = header[x] /\ asked'[x] = asked[x]
  BY <1>1, <1>2, <1>3, <1>5 DEF HeapInv
<1>7. \E n, s : Linked(header', allocation_list', held', n, s)
  <2>1. PICK n, s : Linked(header, allocation_list, held, n, s)
    BY DEF HeapInv
  <2>2. \A x \in Blocks : /\ header'[x].magic = header[x].magic /\ header'[x].next = header[x].next
                          /\ header'[x].prev = header[x].prev
    BY <1>5, <1>6
  <2>3. \A i \in 1 .. n : s[i] \in Blocks /\ LinkedAt(header, n, s, i)
    BY <2>1 DEF Linked
  <2>4. \A i \in 1 .. n : LinkedAt(header', n, s, i)
    BY <2>2, <2>3 DEF LinkedAt
  <2>5. Linked(header', allocation_list, held, n, s)
    BY <2>1, <2>4 DEF Linked
  <2>6. QED
    BY <1>1, <2>5
<1>8. ASSUME NEW x \in held PROVE \E r \in live \ others : Backs(r, x, header'[x].size, asked'[x], cut')
  <2>1. PICK r \in live \ others : Backs(r, x, header[x].size, asked[x], cut)
    BY DEF HeapInv
  <2>2. CASE x # p
    <3>1. header'[x].size = header[x].size /\ asked'[x] = asked[x] /\ cut \subseteq cut'
      BY <1>1, <1>2, <1>6, <2>2
    <3>2. Backs(r, x, header'[x].size, asked'[x], cut')
      BY <2>1, <3>1 DEF Backs
    <3>3. QED
      BY <3>2
  <2>3. CASE x = p
    <3>1. /\ r.start = p /\ Fits(old) /\ pages_for(old) <= r.count /\ RunBlocks(r) \ Run(p, pages_for(old)) \subseteq cut
      BY <2>1, <2>3 DEF Backs, old
    <3>2. Fits(size) /\ pages_for(size) <= pages_for(old)
      BY <1>1, <1>3, <3>1, PagesMonotone
    <3>3. pages_for(size) \in Nat /\ pages_for(old) \in Nat
      BY <1>3, <3>1, <3>2, PagesFor
    <3>4. pages_for(size) <= r.count
      <4>1. r.count \in Nat
        BY <2>1 DEF PagesInv, RunsOK, RunType
      <4>2. QED
        BY <3>1, <3>2, <3>3, <4>1
    <3>5. RunBlocks(r) \ Run(p, pages_for(size)) \subseteq cut'
      BY <1>1, <3>1
    <3>6. header'[x].size = size /\ asked'[x] = size /\ size <= size
      BY <1>3, <1>5, <1>6, <2>3
    <3>7. Backs(r, x, size, size, cut')
      BY <2>3, <3>1, <3>2, <3>4, <3>5, <3>6 DEF Backs
    <3>8. QED
      BY <3>6, <3>7
  <2>4. QED
    BY <2>2, <2>3
<1>9. Accounted'
  <2>1. Accounted /\ cut \subseteq cut'
    BY <1>1 DEF HeapInv
  <2>2. BlocksOf(live \ others)' = BlocksOf(live \ others)
    BY <1>1 DEF BlocksOf
  <2>3. QED
    BY <1>1, <2>1, <2>2 DEF Accounted
<1>10. QED
  BY <1>1, <1>6, <1>7, <1>8, <1>9 DEF HeapInv

-----------------------------------------------------------------------------
(* The inductive invariant: everyone's part of it *)

MemoryInv ==
  /\ PagesInv /\ HeapInv /\ WinInv
  /\ \E lev, num : Tree(entries, lev, num) /\ OwnerInv(lev)

\* Calls of the heap touch neither the tables nor the owners of other pages.
HeapStepDone == PagesInv' /\ HeapInv' /\ UNCHANGED <<others, threadvars>> /\ kernel' \in Kernels
                /\ kernel # "thread" /\ kernel' # "thread" /\ kernel' # "map"

\* malloc, calloc and realloc: a request for bytes, of size bytes.
LEMMA RequestStep ==
  ASSUME PagesInv, HeapInv, kernel = "idle", NEW CONSTANT size \in Nat, Fits(AtLeastMinimum(size)),
         NEW CONSTANT b \in Blocks, Allocate(b, size, size),
         \/ kernel' = "idle"
         \/ kernel' = "realloc" /\ moving' \in held
  PROVE  HeapStepDone
<1>1. AtLeastMinimum(size) \in Nat /\ size <= AtLeastMinimum(size)
  BY HeapAssumption DEF AtLeastMinimum
<1>2. PagesInv' /\ HeapInv' /\ UNCHANGED <<others, threadvars>>
  BY <1>1, AllocateStep
<1>3. QED
  BY <1>2 DEF HeapStepDone, Kernels

\* malloc_faults: the pages are taken, and nothing happens any more.
LEMMA FaultStep ==
  ASSUME PagesInv, HeapInv, kernel = "idle", NEW CONSTANT size \in Nat, Fits(AtLeastMinimum(size)),
         malloc_faults(size)
  PROVE  HeapStepDone
<1> DEFINE n == pages_for(AtLeastMinimum(size))
<1>1. AtLeastMinimum(size) \in Nat
  BY HeapAssumption DEF AtLeastMinimum
<1>2. n \in Nat /\ n > 0
  BY <1>1, PagesFor
<1>3. PICK b \in Blocks : Take(b, n)
  BY DEF malloc_faults
<1>4. kernel' = "halted" /\ UNCHANGED <<others, threadvars, heapvars>>
  BY DEF malloc_faults, kernelvars
<1> HIDE DEF n
<1>5. PICK q : IsRun(q, b, n)
  BY DEF IsRun
<1>6. PagesInv' /\ live' \ others' = (live \ others) \cup {q}
  BY <1>2, <1>3, <1>4, <1>5, TakeHeap
<1>7. HeapInv'
  <2>1. /\ header' = header /\ allocation_list' = allocation_list /\ held' = held /\ asked' = asked /\ cut' = cut
    BY <1>4 DEF heapvars
  <2>2. \A p \in held' : \E r \in live' \ others' : Backs(r, p, header'[p].size, asked'[p], cut')
    BY <1>6, <2>1 DEF HeapInv
  <2>3. \E m, s : Linked(header', allocation_list', held', m, s)
    BY <2>1 DEF HeapInv
  <2>4. QED
    BY <1>4, <2>1, <2>2, <2>3 DEF HeapInv
<1>8. QED
  BY <1>4, <1>6, <1>7 DEF HeapStepDone, Kernels

\* A call that does nothing.
LEMMA NothingStep ==
  ASSUME PagesInv, HeapInv, kernel = "idle", NothingDone
  PROVE  HeapStepDone
<1>1. UNCHANGED <<used, live, booting, kernel, others, threadvars, heapvars>>
  BY DEF NothingDone, pagevars, kernelvars
<1>2. PagesInv'
  BY <1>1 DEF PagesInv
<1>3. HeapInv'
  BY <1>1, HeapFrame
<1>4. QED
  BY <1>1, <1>2, <1>3 DEF HeapStepDone, Kernels

\* Every call of the heap.
LEMMA HeapSteps ==
  ASSUME OrdinarySizes, PagesInv, HeapInv, HeapCalls
  PROVE  HeapStepDone
<1>0. \A s \in Sizes : s \in Nat /\ Fits(AtLeastMinimum(s))
  BY HeapAssumption DEF OrdinarySizes
<1>1. CASE \E s \in Sizes : malloc(s) \/ malloc_faults(s)
  <2>1. PICK s \in Sizes : malloc(s) \/ malloc_faults(s)
    BY <1>1
  <2>2. CASE malloc_faults(s)
    <3>1. kernel = "idle"
      BY <2>2 DEF malloc_faults
    <3>2. QED
      BY <1>0, <2>2, <3>1, FaultStep
  <2>3. CASE malloc(s)
    <3>1. kernel = "idle"
      BY <2>3 DEF malloc
    <3>2. CASE Refused(s) /\ NothingDone
      BY <3>1, <3>2, NothingStep
    <3>3. CASE (\E b \in Blocks : Allocate(b, s, s)) /\ UNCHANGED <<kernel, moving>>
      <4>1. PICK b \in Blocks : Allocate(b, s, s)
        BY <3>3
      <4>2. kernel' = "idle"
        BY <3>1, <3>3
      <4>3. QED
        BY <1>0, <3>1, <4>1, <4>2, RequestStep
    <3>4. QED
      BY <2>3, <3>2, <3>3 DEF malloc
  <2>4. QED
    BY <2>1, <2>2, <2>3
<1>2. CASE \E k \in Members, s \in Sizes : calloc(k, s)
  <2>1. PICK k \in Members, s \in Sizes : calloc(k, s)
    BY <1>2
  <2> DEFINE total == (k * s) % SIZE_WIDTH
  <2>2. kernel = "idle"
    BY <2>1 DEF calloc
  <2>3. ~CallocOverflows(k, s) => total = k * s /\ total \in Nat /\ Fits(AtLeastMinimum(total))
    BY CallocExact DEF OrdinarySizes
  <2>4. \/ /\ ~CallocOverflows(k, s)
           /\ \E b \in Blocks : Allocate(b, total, k * s)
           /\ UNCHANGED <<kernel, moving>>
        \/ NothingDone
        \/ ~CallocOverflows(k, s) /\ malloc_faults(total)
    BY <2>1 DEF calloc
  <2> HIDE DEF total
  <2>5. CASE NothingDone
    BY <2>2, <2>5, NothingStep
  <2>6. CASE ~CallocOverflows(k, s) /\ malloc_faults(total)
    BY <2>2, <2>3, <2>6, FaultStep
  <2>7. CASE /\ ~CallocOverflows(k, s)
             /\ \E b \in Blocks : Allocate(b, total, k * s)
             /\ UNCHANGED <<kernel, moving>>
    <3>1. PICK b \in Blocks : Allocate(b, total, total)
      BY <2>3, <2>7
    <3>2. kernel' = "idle"
      BY <2>2, <2>7
    <3>3. QED
      BY <2>2, <2>3, <2>7, <3>1, <3>2, RequestStep
  <2>8. QED
    BY <2>4, <2>5, <2>6, <2>7
<1>3. CASE \E p \in held : free(p)
  <2>1. PICK p \in held : free(p)
    BY <1>3
  <2>2. FreePointer(p) /\ kernel = "idle" /\ kernel' = "idle"
    BY <2>1 DEF free
  <2>3. PagesInv' /\ HeapInv' /\ UNCHANGED <<others, threadvars>>
    BY <2>2, FreeStep
  <2>4. QED
    BY <2>2, <2>3 DEF HeapStepDone, Kernels
<1>4. CASE \E p \in held, s \in Sizes : realloc_in_place(p, s) \/ realloc_grow(p, s)
  <2>1. PICK p \in held, s \in Sizes : realloc_in_place(p, s) \/ realloc_grow(p, s)
    BY <1>4
  <2>2. CASE realloc_in_place(p, s)
    <3>1. HeapInv'
      BY <2>2, ReallocInPlace
    <3>2. UNCHANGED <<used, live, booting, others, threadvars, kernel>> /\ kernel = "idle"
      BY <2>2 DEF realloc_in_place, pagevars, kernelvars
    <3>3. PagesInv'
      BY <3>2 DEF PagesInv
    <3>4. QED
      BY <3>1, <3>2, <3>3 DEF HeapStepDone, Kernels
  <2>3. CASE realloc_grow(p, s)
    <3>1. kernel = "idle"
      BY <2>3 DEF realloc_grow
    <3>2. CASE Refused(s) /\ NothingDone
      BY <3>1, <3>2, NothingStep
    <3>3. CASE (\E b \in Blocks : Allocate(b, s, s)) /\ moving' = p /\ kernel' = "realloc"
      <4>1. PICK b \in Blocks : Allocate(b, s, s)
        BY <3>3
      <4>2. kernel' = "realloc" /\ moving' \in held
        BY <3>3
      <4>3. QED
        BY <1>0, <3>1, <4>1, <4>2, RequestStep
    <3>4. QED
      BY <2>3, <3>2, <3>3 DEF realloc_grow
  <2>4. QED
    BY <2>1, <2>2, <2>3
<1>5. CASE realloc_free_old
  <2>1. FreePointer(moving) /\ kernel = "realloc" /\ kernel' = "idle" /\ moving \in held
    BY <1>5 DEF realloc_free_old, HeapInv
  <2>2. PICK p \in held : p = moving
    BY <2>1
  <2>3. PagesInv' /\ HeapInv' /\ UNCHANGED <<others, threadvars>>
    BY <2>1, <2>2, FreeStep
  <2>4. QED
    BY <2>1, <2>3 DEF HeapStepDone, Kernels
<1>6. QED
  BY <1>1, <1>2, <1>3, <1>4, <1>5 DEF HeapCalls

-----------------------------------------------------------------------------
(* Every step *)

\* What a step may do to the translation.
Respects == entries' = entries \/ TrMap(entries') = TrMap(entries) \/ SpaceStep(TrMap(entries), TrMap(entries'))

\* A step that leaves the tables and their number alone.
LEMMA Joined ==
  ASSUME PagesInv', HeapInv', WinInv', NEW CONSTANT lev, NEW CONSTANT num, Tree(entries', lev, num), OwnerInv(lev)'
  PROVE  MemoryInv'
BY DEF MemoryInv

\* The heap.
LEMMA HeapNext ==
  ASSUME OrdinarySizes, MemoryInv, HeapCalls, UNCHANGED <<vmvars, probevars>>
  PROVE  MemoryInv' /\ Respects
<1>1. PICK lev, num : Tree(entries, lev, num) /\ OwnerInv(lev)
  BY DEF MemoryInv
<1>2. HeapStepDone
  BY HeapSteps DEF MemoryInv
<1>3. /\ PagesInv' /\ HeapInv' /\ UNCHANGED <<others, threadvars>> /\ kernel' \in Kernels
      /\ kernel # "thread" /\ kernel' # "thread" /\ kernel' # "map"
  BY <1>2 DEF HeapStepDone
<1>4. UNCHANGED <<rx_pages, tx_pages, rx_dma>> /\ entries' = entries /\ UNCHANGED vmvars
  BY DEF probevars, vmvars
<1>5. OwnerInv(lev)'
  BY <1>1, <1>3, <1>4, OwnerFrame
<1>6. WinInv'
  BY <1>3, <1>4, WinFrame DEF MemoryInv
<1>7. Tree(entries', lev, num)
  BY <1>1, <1>4
<1>8. QED
  BY <1>3, <1>4, <1>5, <1>6, <1>7, Joined DEF Respects

\* Threads.
LEMMA ThreadNext ==
  ASSUME MemoryInv, ThreadCalls, UNCHANGED <<heapvars, vmvars, probevars>>
  PROVE  MemoryInv' /\ Respects
<1>1. PICK lev, num : Tree(entries, lev, num) /\ OwnerInv(lev)
  BY DEF MemoryInv
<1>2. PagesInv /\ HeapInv /\ WinInv /\ UNCHANGED heapvars /\ UNCHANGED vmvars /\ UNCHANGED probevars /\ entries' = entries
  BY DEF MemoryInv, vmvars
<1>3. PagesInv' /\ live' \ others' = live \ others /\ OwnerInv(lev)'
  BY <1>1, <1>2, CreateThread, CreateStack, CreateNoStack DEF ThreadCalls
<1>4. kernel \in {"idle", "thread"} /\ kernel' \in {"idle", "thread"}
  BY DEF ThreadCalls, create_thread, create_stack, create_no_stack
<1>5. HeapInv'
  BY <1>2, <1>3, <1>4, HeapFrame
<1>6. WinInv'
  BY <1>2, <1>4, WinFrame
<1>7. Tree(entries', lev, num)
  BY <1>1, <1>2
<1>8. QED
  BY <1>2, <1>3, <1>5, <1>6, <1>7, Joined DEF Respects

\* A step that touches no page.
LEMMA NoPageTouched ==
  ASSUME MemoryInv, NEW CONSTANT lev, OwnerInv(lev), UNCHANGED <<pagevars, others, threadvars, heapvars>>,
         UNCHANGED <<rx_pages, tx_pages, rx_dma>>,
         kernel \in {"idle", "map", "probe"}, kernel' \in {"idle", "map", "probe", "halted"}
  PROVE  PagesInv' /\ HeapInv' /\ OwnerInv(lev)'
<1>1. UNCHANGED <<used, live, booting, others>> /\ UNCHANGED heapvars /\ PagesInv /\ HeapInv
  BY DEF pagevars, MemoryInv
<1>2. PagesInv'
  BY <1>1 DEF PagesInv
<1>3. HeapInv'
  BY <1>1, HeapFrame
<1>4. OwnerInv(lev)'
  BY OwnerFrame DEF Kernels
<1>5. QED
  BY <1>2, <1>3, <1>4

\* Virtual memory.
LEMMA VirtMemNext ==
  ASSUME MemoryInv, VirtMemCalls, UNCHANGED <<heapvars, probevars>>
  PROVE  MemoryInv' /\ Respects
<1>1. PICK lev, num : Tree(entries, lev, num) /\ OwnerInv(lev)
  BY DEF MemoryInv
<1>2. /\ PagesInv /\ HeapInv /\ WinInv /\ UNCHANGED heapvars /\ UNCHANGED probevars
      /\ UNCHANGED <<rx_pages, tx_pages, rx_dma>>
  BY DEF MemoryInv, probevars
<1>3. CASE driver_maps
  <2>1. WinInv' /\ entries' = entries /\ kernel' = "map"
    BY <1>2, <1>3, DriverMaps
  <2>2. kernel = "idle" /\ UNCHANGED <<pagevars, others, threadvars, heapvars>>
    BY <1>2, <1>3 DEF driver_maps
  <2>3. PagesInv' /\ HeapInv' /\ OwnerInv(lev)'
    BY <1>1, <1>2, <2>1, <2>2, NoPageTouched
  <2>4. QED
    BY <1>1, <2>1, <2>3, Joined DEF Respects
<1>4. CASE \E v \in FaultPages : page_fault(v)
  <2>0. PICK v \in FaultPages : page_fault(v)
    BY <1>4
  <2>1. WinInv' /\ entries' = entries /\ kernel' = "map"
    BY <1>2, <2>0, PageFault
  <2>2. kernel = "idle" /\ UNCHANGED <<pagevars, others, threadvars, heapvars>>
    BY <1>2, <2>0 DEF page_fault
  <2>3. PagesInv' /\ HeapInv' /\ OwnerInv(lev)'
    BY <1>1, <1>2, <2>1, <2>2, NoPageTouched
  <2>4. QED
    BY <1>1, <2>1, <2>3, Joined DEF Respects
<1>5. CASE map_create_table
  <2>1. /\ PagesInv' /\ live' \ others' = live \ others /\ WinInv' /\ TrMap(entries)' = TrMap(entries)
        /\ \E lev2, num2 : Tree(entries', lev2, num2) /\ OwnerInv(lev2)'
    BY <1>1, <1>2, <1>5, CreateTable
  <2>2. kernel = "map" /\ kernel' = "map"
    BY <1>5 DEF map_create_table
  <2>3. HeapInv'
    BY <1>2, <2>1, <2>2, HeapFrame
  <2>4. TrMap(entries') = TrMap(entries)
    BY <2>1 DEF TrMap
  <2>5. QED
    BY <2>1, <2>3, <2>4 DEF MemoryInv, Respects
<1>6. CASE map_fails
  <2>1. WinInv' /\ entries' = entries /\ kernel' \in {"idle", "probe", "halted"}
    BY <1>2, <1>6, MapFails
  <2>2. kernel = "map" /\ UNCHANGED <<pagevars, others, threadvars, heapvars>>
    BY <1>2, <1>6 DEF map_fails
  <2>3. PagesInv' /\ HeapInv' /\ OwnerInv(lev)'
    BY <1>1, <1>2, <2>1, <2>2, NoPageTouched
  <2>4. QED
    BY <1>1, <2>1, <2>3, Joined DEF Respects
<1>7. CASE map_set_entry
  <2>1. /\ Tree(entries', lev, num) /\ WinInv' /\ kernel' \in {"map", "idle", "probe"}
        /\ SpaceStep(TrMap(entries), TrMap(entries'))
    BY <1>1, <1>2, <1>7, SetEntry
  <2>2. kernel = "map" /\ UNCHANGED <<pagevars, others, threadvars, heapvars>>
    BY <1>2, <1>7 DEF map_set_entry
  <2>3. PagesInv' /\ HeapInv' /\ OwnerInv(lev)'
    BY <1>1, <1>2, <2>1, <2>2, NoPageTouched
  <2>4. QED
    BY <2>1, <2>3, Joined DEF Respects
<1>8. CASE \E w \in windows : vmm_unmap(w)
  <2>0. PICK w \in windows : vmm_unmap(w)
    BY <1>8
  <2>1. Tree(entries', lev, num) /\ WinInv' /\ SpaceStep(TrMap(entries), TrMap(entries'))
    BY <1>1, <1>2, <2>0, UnmapWindow
  <2>2. kernel = "idle" /\ kernel' = "idle" /\ UNCHANGED <<pagevars, others, threadvars, heapvars>>
    BY <1>2, <2>0 DEF vmm_unmap
  <2>3. PagesInv' /\ HeapInv' /\ OwnerInv(lev)'
    BY <1>1, <1>2, <2>1, <2>2, NoPageTouched
  <2>4. QED
    BY <2>1, <2>3, Joined DEF Respects
<1>9. QED
  BY <1>3, <1>4, <1>5, <1>6, <1>7, <1>8 DEF VirtMemCalls

\* The network card's probe.
LEMMA ProbeNext ==
  ASSUME MemoryInv, ProbeSteps, UNCHANGED heapvars
  PROVE  MemoryInv' /\ Respects
<1>1. PICK lev, num : Tree(entries, lev, num) /\ OwnerInv(lev)
  BY DEF MemoryInv
<1>2. PagesInv /\ HeapInv /\ WinInv /\ UNCHANGED heapvars
  BY DEF MemoryInv
<1>3. CASE e1000_init
  <2>1. WinInv' /\ entries' = entries /\ kernel' = "map"
    BY <1>2, <1>3, ProbeMaps
  <2>2. kernel = "idle" /\ UNCHANGED <<pagevars, others, threadvars, heapvars>> /\ UNCHANGED <<rx_pages, tx_pages, rx_dma>>
    BY <1>2, <1>3 DEF e1000_init
  <2>3. PagesInv' /\ HeapInv' /\ OwnerInv(lev)'
    BY <1>1, <1>2, <2>1, <2>2, NoPageTouched
  <2>4. QED
    BY <1>1, <2>1, <2>3, Joined DEF Respects
<1>4. CASE e1000_init_no_card \/ probe_no_registers \/ probe_registers \/ probe_no_page
  <2>1. /\ kernel \in {"idle", "probe"} /\ kernel' \in {"idle", "probe"} /\ UNCHANGED vmvars
        /\ UNCHANGED <<pagevars, others, threadvars, heapvars>> /\ UNCHANGED <<rx_pages, tx_pages, rx_dma>>
    BY <1>2, <1>4 DEF e1000_init_no_card, probe_no_registers, probe_registers, probe_no_page, Failed
  <2>2. WinInv'
    BY <1>2, <2>1, WinFrame
  <2>3. PagesInv' /\ HeapInv' /\ OwnerInv(lev)'
    BY <1>1, <1>2, <2>1, NoPageTouched
  <2>4. entries' = entries
    BY <2>1 DEF vmvars
  <2>5. QED
    BY <1>1, <2>2, <2>3, <2>4, Joined DEF Respects
<1>5. CASE e1000_rx_init \/ e1000_tx_init
  <2>1. PagesInv' /\ live' \ others' = live \ others /\ OwnerInv(lev)'
    BY <1>1, <1>2, <1>5, RxInit, TxInit
  <2>2. kernel = "probe" /\ kernel' \in {"idle", "probe"} /\ UNCHANGED vmvars /\ entries' = entries
    BY <1>5 DEF e1000_rx_init, e1000_tx_init, vmvars
  <2>3. HeapInv'
    BY <1>2, <2>1, <2>2, HeapFrame
  <2>4. WinInv'
    BY <1>2, <2>2, WinFrame
  <2>5. QED
    BY <1>1, <2>1, <2>2, <2>3, <2>4, Joined DEF Respects
<1>6. QED
  BY <1>3, <1>4, <1>5 DEF ProbeSteps

\* A step that changes nothing: hlt_loop, and stuttering.
LEMMA IdleNext ==
  ASSUME MemoryInv, UNCHANGED vars
  PROVE  MemoryInv' /\ Respects
<1>1. PICK lev, num : Tree(entries, lev, num) /\ OwnerInv(lev)
  BY DEF MemoryInv
<1>2. /\ UNCHANGED <<used, live, booting, others, kernel, thread_page, threads>>
      /\ UNCHANGED <<header, allocation_list, total_allocated, allocation_count, held, asked, moving, cut>>
      /\ UNCHANGED <<entries, next_mmio_vaddr, call, mapped, windows>>
      /\ UNCHANGED <<rx_pages, tx_pages, rx_dma>>
  BY DEF vars, pagevars, kernelvars, threadvars, heapvars, vmvars, probevars
<1>3. PagesInv'
  BY <1>2 DEF MemoryInv, PagesInv
<1>4. HeapInv'
  <2>1. BlocksOf(live \ others)' = BlocksOf(live \ others)
    BY <1>2 DEF BlocksOf
  <2>2. Accounted' <=> Accounted
    BY <1>2, <2>1 DEF Accounted
  <2>3. QED
    BY <1>2, <2>2 DEF MemoryInv, HeapInv
<1>5. WinInv'
  <2>1. TrMap(entries)' = TrMap(entries)
    BY <1>2 DEF TrMap
  <2>2. QED
    BY <1>2, <2>1 DEF MemoryInv, WinInv
<1>6. OwnerInv(lev)'
  <2>1. BlocksOf(others)' = BlocksOf(others) /\ ThreadBlocks' = ThreadBlocks /\ CardBlocks' = CardBlocks
    BY <1>2 DEF BlocksOf, ThreadBlocks, CardBlocks
  <2>2. PageOfThread'
    BY <1>1, <1>2 DEF PageOfThread, OwnerInv
  <2>3. QED
    BY <1>1, <1>2, <2>1, <2>2 DEF OwnerInv
<1>7. Tree(entries', lev, num)
  BY <1>1, <1>2
<1>8. QED
  BY <1>2, <1>3, <1>4, <1>5, <1>6, <1>7, Joined DEF Respects

\* Every step of the kernel.
LEMMA MemoryNext ==
  ASSUME OrdinarySizes, MemoryInv, [Next]_vars
  PROVE  MemoryInv' /\ Respects
<1>1. CASE HeapCalls /\ UNCHANGED <<vmvars, probevars>>
  BY <1>1, HeapNext
<1>2. CASE ThreadCalls /\ UNCHANGED <<heapvars, vmvars, probevars>>
  BY <1>2, ThreadNext
<1>3. CASE VirtMemCalls /\ UNCHANGED <<heapvars, probevars>>
  BY <1>3, VirtMemNext
<1>4. CASE ProbeSteps /\ UNCHANGED heapvars
  BY <1>4, ProbeNext
<1>5. CASE hlt_loop /\ UNCHANGED <<heapvars, vmvars, probevars>>
  <2>1. UNCHANGED vars
    BY <1>5 DEF hlt_loop, vars, kernelvars
  <2>2. QED
    BY <2>1, IdleNext
<1>6. CASE UNCHANGED vars
  BY <1>6, IdleNext
<1>7. QED
  BY <1>1, <1>2, <1>3, <1>4, <1>5, <1>6 DEF Next

\* The kernel starts in the invariant.
LEMMA MemoryStart ==
  ASSUME Init
  PROVE  MemoryInv
<1>1. /\ used = machine.memory .. TotalBlocks - 1 /\ live = {} /\ booting = FALSE /\ kernel = "idle"
      /\ others = {} /\ thread_page = NULL /\ threads = {}
  BY DEF Init, PagesInit
<1>2. PagesInv
  BY <1>1 DEF PagesInv, RunsOK
<1>3. BlocksOf({}) = {} /\ live \ others = {}
  BY <1>1 DEF BlocksOf
<1>4. HeapInv
  <2>1. /\ header = [b \in Blocks |-> NoHeader] /\ allocation_list = NULL /\ total_allocated = 0
        /\ allocation_count = 0 /\ held = {} /\ asked = [b \in Blocks |-> 0]
    BY DEF Init, HeapInit
  <2>2. NoHeader \in HeaderType
    BY DEF NoHeader, HeaderType
  <2>3. header \in [Blocks -> HeaderType] /\ asked \in [Blocks -> Nat]
    BY <2>1, <2>2
  <2>4. Linked(header, allocation_list, held, 0, [i \in 1 .. 0 |-> i])
    BY <2>1 DEF Linked
  <2>5. Accounted
    BY <1>3, <2>1, FS_EmptySet DEF Accounted
  <2>6. QED
    BY <1>1, <2>1, <2>3, <2>4, <2>5 DEF HeapInv
<1>5. /\ Tree(entries, StartLevel, StartNumber) /\ InUse(StartLevel) = {}
      /\ \A v \in Pages : vmm_get_physical_addr(v) = NONE
  BY StartTree DEF Init
<1>6. WinInv
  <2>1. next_mmio_vaddr = MMIO_VIRTUAL_BASE /\ windows = {}
    BY DEF Init, VirtMemInit
  <2>2. MMIO_VIRTUAL_BASE \in Nat
    BY VirtMemAssumption DEF Pages
  <2>3. \A v \in Pages : TrMap(entries)[v] = NONE
    BY <1>5, Walking DEF TrMap
  <2>4. WinOK(TrMap(entries), next_mmio_vaddr, windows)
    BY <2>1, <2>2, <2>3, VirtMemAssumption DEF WinOK
  <2>5. QED
    BY <1>1, <2>4 DEF WinInv
<1>7. OwnerInv(StartLevel)
  <2>1. rx_pages = <<>> /\ tx_pages = <<>> /\ rx_dma = {}
    BY DEF Init, ProbeInit
  <2>2. rx_pages \in Seq(Blocks) /\ tx_pages \in Seq(Blocks) /\ CardBlocks = {}
    BY <2>1 DEF CardBlocks, ToSet
  <2>3. ThreadBlocks = {} /\ PageOfThread
    BY <1>1 DEF ThreadBlocks, PageOfThread
  <2>4. Shares(BlocksOf(others), ThreadBlocks, InUse(StartLevel), CardBlocks)
    BY <1>1, <1>3, <1>5, <2>2, <2>3 DEF Shares
  <2>5. QED
    BY <1>1, <2>1, <2>2, <2>3, <2>4 DEF OwnerInv, Kernels
<1>8. QED
  BY <1>2, <1>4, <1>5, <1>6, <1>7 DEF MemoryInv

-----------------------------------------------------------------------------
(* What the invariant says *)

\* Every non-empty set of naturals has a least element.
LEMMA LeastNatural ==
  ASSUME NEW T, T \subseteq Nat, T # {}
  PROVE  \E n \in T : \A k \in T : n <= k
<1>1. PICK n \in T : \A k \in T : <<k, n>> \notin OpToRel(<, Nat)
  BY WFMin, NatLessThanWellFounded
<1>2. \A k \in T : ~(k < n)
  BY <1>1 DEF OpToRel
<1>3. QED
  BY <1>2

\* Following the links from allocation_list visits the allocations in order.
LEMMA NthIs ==
  ASSUME NEW n, NEW s, Linked(header, allocation_list, held, n, s), NEW k \in Nat
  PROVE  Nth(k) = IF k < n THEN s[k + 1] ELSE NULL
<1> DEFINE F(f) == [j \in 0 .. k |-> IF j = 0 THEN allocation_list
                                     ELSE IF f[j - 1] = NULL THEN NULL ELSE header[f[j - 1]].next]
           g == [j \in 0 .. k |-> IF j < n THEN s[j + 1] ELSE NULL]
           ch == CHOOSE f : f = F(f)
<1>1. /\ n \in Nat /\ s \in [1 .. n -> Blocks] /\ allocation_list = IF n = 0 THEN NULL ELSE s[1]
      /\ \A i \in 1 .. n : header[s[i]].next = IF i = n THEN NULL ELSE s[i + 1]
  BY DEF Linked, LinkedAt
<1>2. \A i \in 1 .. n : s[i] # NULL
  BY <1>1, KernelPagesAssumption
<1>3. g = F(g)
  <2>1. \A j \in 0 .. k : g[j] = F(g)[j]
    <3> SUFFICES ASSUME NEW j \in 0 .. k PROVE g[j] = F(g)[j]
      OBVIOUS
    <3>1. CASE j = 0
      BY <1>1, <3>1
    <3>2. CASE j > 0 /\ j - 1 < n
      <4>1. g[j - 1] = s[j] /\ j \in 1 .. n
        BY <1>1, <3>2
      <4>2. header[s[j]].next = IF j = n THEN NULL ELSE s[j + 1]
        BY <1>1, <4>1
      <4>3. F(g)[j] = header[s[j]].next
        BY <1>2, <3>2, <4>1
      <4>4. g[j] = IF j = n THEN NULL ELSE s[j + 1]
        BY <1>1, <3>2
      <4>5. QED
        BY <4>2, <4>3, <4>4
    <3>3. CASE j > 0 /\ j - 1 >= n
      BY <1>1, <3>3
    <3>4. QED
      BY <1>1, <3>1, <3>2, <3>3
  <2>2. QED
    BY <2>1
<1>4. ch = F(ch)
  <2>1. \E f : f = F(f)
    BY <1>3
  <2> HIDE DEF F
  <2>2. QED
    BY <2>1
<1>5. Nth(k) = ch[k]
  BY DEF Nth
<1>6. \A j \in 0 .. k : ch[j] = g[j]
  <2> DEFINE Bad == {j \in 0 .. k : ch[j] # g[j]}
  <2> SUFFICES ASSUME Bad # {} PROVE FALSE
    OBVIOUS
  <2> HIDE DEF ch, g
  <2>0. Bad \subseteq Nat
    OBVIOUS
  <2>1. PICK j \in Bad : \A i \in Bad : j <= i
    <3> HIDE DEF Bad
    <3> QED
      BY <2>0, LeastNatural
  <2>2. j \in 0 .. k /\ ch[j] = F(ch)[j] /\ g[j] = F(g)[j] /\ ch[j] # g[j]
    BY <1>3, <1>4
  <2>3. j # 0
    BY <2>2
  <2>4. j - 1 \in 0 .. k /\ j - 1 \notin Bad
    BY <2>1, <2>2, <2>3
  <2>5. QED
    BY <2>2, <2>3, <2>4
<1>7. k \in 0 .. k
  OBVIOUS
<1>8. QED
  BY <1>5, <1>6, <1>7

\* The list of headers is sound.
LEMMA ListIsSound ==
  ASSUME HeapInv
  PROVE  AllocationListSound
<1>1. PICK n, s : Linked(header, allocation_list, held, n, s)
  BY DEF HeapInv
<1>2. /\ n \in Nat /\ s \in [1 .. n -> Blocks]
      /\ \A i, j \in 1 .. n : s[i] = s[j] => i = j
      /\ \A p : p \in held <=> \E i \in 1 .. n : s[i] = p
      /\ allocation_list = IF n = 0 THEN NULL ELSE s[1]
      /\ \A i \in 1 .. n : LinkedAt(header, n, s, i)
  BY <1>1 DEF Linked
<1>3. Cardinality(held) = n
  BY <1>1, ListCounts
<1>4. \A k \in 0 .. n : Nth(k) = IF k < n THEN s[k + 1] ELSE NULL
  <2>1. \A k \in 0 .. n : k \in Nat
    BY <1>2
  <2>2. QED
    BY <1>1, <2>1, NthIs
<1>5. {Nth(k) : k \in 0 .. n} = held \cup {NULL}
  <2>1. ASSUME NEW k \in 0 .. n PROVE Nth(k) \in held \cup {NULL}
    <3>1. CASE k < n
      <4>1. k + 1 \in 1 .. n
        BY <1>2, <3>1
      <4>2. QED
        BY <1>2, <1>4, <3>1, <4>1
    <3>2. CASE ~(k < n)
      BY <1>4, <3>2
    <3>3. QED
      BY <3>1, <3>2
  <2>2. ASSUME NEW p \in held PROVE \E k \in 0 .. n : Nth(k) = p
    <3>1. PICK i \in 1 .. n : s[i] = p
      BY <1>2
    <3>2. i - 1 \in 0 .. n /\ i - 1 < n /\ (i - 1) + 1 = i
      BY <1>2
    <3>3. Nth(i - 1) = p
      BY <1>4, <3>1, <3>2
    <3>4. QED
      BY <3>2, <3>3
  <2>3. \E k \in 0 .. n : Nth(k) = NULL
    <3>1. n \in 0 .. n /\ ~(n < n)
      BY <1>2
    <3>2. QED
      BY <1>4, <3>1
  <2>4. QED
    BY <2>1, <2>2, <2>3
<1>6. ASSUME NEW p \in held
      PROVE  /\ header[p].magic
             /\ header[p].next # NULL => header[header[p].next].prev = p
             /\ header[p].prev = NULL <=> p = allocation_list
  <2>1. PICK i \in 1 .. n : s[i] = p
    BY <1>2
  <2>2. LinkedAt(header, n, s, i)
    BY <1>2
  <2>3. \A j \in 1 .. n : s[j] \in Blocks /\ s[j] # NULL
    BY <1>2, KernelPagesAssumption
  <2>4. header[p].magic
    BY <2>1, <2>2 DEF LinkedAt
  <2>5. header[p].next # NULL => header[header[p].next].prev = p
    <3> SUFFICES ASSUME header[p].next # NULL PROVE header[header[p].next].prev = p
      OBVIOUS
    <3>1. i # n /\ header[p].next = s[i + 1]
      BY <2>1, <2>2 DEF LinkedAt
    <3>2. i + 1 \in 1 .. n /\ i + 1 # 1 /\ (i + 1) - 1 = i
      BY <1>2, <3>1
    <3>3. LinkedAt(header, n, s, i + 1)
      BY <1>2, <3>2
    <3>4. QED
      BY <2>1, <3>1, <3>2, <3>3 DEF LinkedAt
  <2>6. header[p].prev = NULL <=> i = 1
    <3>1. i # 1 => i - 1 \in 1 .. n
      BY <1>2
    <3>2. QED
      BY <2>1, <2>2, <2>3, <3>1 DEF LinkedAt
  <2>7. p = allocation_list <=> i = 1
    <3>1. n # 0 /\ 1 \in 1 .. n
      BY <1>2
    <3>2. QED
      BY <1>2, <2>1, <3>1
  <2>8. QED
    BY <2>4, <2>5, <2>6, <2>7
<1>7. QED
  BY <1>3, <1>5, <1>6 DEF AllocationListSound

\* Every pointer has the pages it needs.
LEMMA AllBacked ==
  ASSUME PagesInv, HeapInv
  PROVE  AllocationsBacked
<1> SUFFICES ASSUME NEW p \in held
             PROVE  \E r \in live \ others : r.start = p /\ HEADER + asked[p] <= r.count * PAGE
  BY DEF AllocationsBacked
<1>1. PICK r \in live \ others : Backs(r, p, header[p].size, asked[p], cut)
  BY DEF HeapInv
<1>2. p \in Blocks
  BY HeldBlocks
<1>3. header[p].size \in Nat /\ asked[p] \in Nat /\ r.count \in Nat
  BY <1>1, <1>2 DEF HeapInv, HeaderType, PagesInv, RunsOK, RunType
<1> DEFINE z == header[p].size
           n == pages_for(z)
<1>4. r.start = p /\ asked[p] <= z /\ Fits(z) /\ n <= r.count
  BY <1>1 DEF Backs
<1>5. n \in Nat /\ z + HEADER <= n * PAGE
  BY <1>3, <1>4, PagesFor
<1>6. PAGE \in Nat /\ HEADER \in Nat
  BY KernelPagesAssumption, HeapAssumption
<1> HIDE DEF z, n
<1>7. n * PAGE <= r.count * PAGE
  <2>1. (r.count - n) * PAGE >= 0
    BY <1>3, <1>4, <1>5, <1>6
  <2>2. (r.count - n) * PAGE = r.count * PAGE - n * PAGE
    BY <1>3, <1>5, <1>6
  <2>3. QED
    BY <1>3, <1>5, <1>6, <2>1, <2>2
<1>8. HEADER + asked[p] <= r.count * PAGE
  BY <1>3, <1>4, <1>5, <1>6, <1>7 DEF z
<1>9. QED
  BY <1>1, <1>4, <1>8

\* The owners' blocks are the blocks that are not free, and are counted once.
LEMMA OwnersExact ==
  ASSUME MemoryInv, TotalBlocks <= DMA_WIDTH
  PROVE  PagesOwned
<1>1. PICK lev, num : Tree(entries, lev, num) /\ OwnerInv(lev)
  BY DEF MemoryInv
<1>2. TableBlocks = InUse(lev)
  BY <1>1, TheTables, TablesInUse
<1>3. Shares(BlocksOf(others), ThreadBlocks, TableBlocks, CardBlocks) /\ CardUsesItsPages
  BY <1>1, <1>2 DEF OwnerInv, CardUsesItsPages
<1>4. LiveBlocks = BlocksOf(live) /\ HeapBlocks = BlocksOf(live \ others)
  BY DEF LiveBlocks, HeapBlocks, BlocksOf
<1>5. BlocksOf(live) = BlocksOf(live \ others) \cup BlocksOf(others)
  BY DEF MemoryInv, PagesInv, BlocksOf
<1>6. BlocksOf(live \ others) \cap BlocksOf(others) = {}
  <2>1. \A r \in live \ others, s \in others : RunBlocks(r) \cap RunBlocks(s) = {}
    BY DEF MemoryInv, PagesInv, RunsOK
  <2> HIDE DEF RunBlocks
  <2>2. QED
    BY <2>1 DEF BlocksOf
<1> DEFINE H == HeapBlocks
           O == BlocksOf(others)
           A == ThreadBlocks
           B == TableBlocks
           C == CardBlocks
<1>7. LiveBlocks = H \cup O /\ H \cap O = {} /\ H \subseteq Blocks /\ O \subseteq Blocks
  BY <1>4, <1>5, <1>6 DEF BlocksOf
<1>8. O = A \cup B \cup C /\ A \cap B = {} /\ A \cap C = {} /\ B \cap C = {}
  BY <1>3 DEF Shares
<1> HIDE DEF H, O, A, B, C
<1>9. A \subseteq Blocks /\ B \subseteq Blocks /\ C \subseteq Blocks /\ A \cup B \subseteq Blocks /\ (A \cup B) \cap C = {}
  BY <1>7, <1>8
<1>10. Cardinality(A \cup B) = Cardinality(A) + Cardinality(B)
  BY <1>8, <1>9, CountBoth
<1>11. Cardinality((A \cup B) \cup C) = Cardinality(A \cup B) + Cardinality(C)
  BY <1>9, CountBoth
<1>12. Cardinality(H \cup O) = Cardinality(H) + Cardinality(O)
  BY <1>7, CountBoth
<1>13. /\ Cardinality(H) \in Nat /\ Cardinality(O) \in Nat /\ Cardinality(A) \in Nat
       /\ Cardinality(B) \in Nat /\ Cardinality(C) \in Nat
  BY <1>7, <1>9, BlocksFinite
<1>14. Cardinality(LiveBlocks) = Cardinality(H) + Cardinality(A) + Cardinality(B) + Cardinality(C)
  <2>1. Cardinality(O) = Cardinality(A) + Cardinality(B) + Cardinality(C)
    <3>1. O = (A \cup B) \cup C
      BY <1>8
    <3>2. QED
      BY <1>10, <1>11, <3>1
  <2>2. Cardinality(LiveBlocks) = Cardinality(H) + Cardinality(O)
    BY <1>7, <1>12
  <2>3. QED
    BY <1>13, <2>1, <2>2
<1>15. LiveBlocks = UNION {H, A, B, C}
  BY <1>7, <1>8
<1>16. QED
  BY <1>3, <1>14, <1>15 DEF PagesOwned, H, A, B, C

\* Every byte of a window leads to its device.
LEMMA WindowsLead ==
  ASSUME WinInv
  PROVE  WindowsMapped
<1> SUFFICES ASSUME NEW w \in windows, NEW byte \in 0 .. w.size - 1
             PROVE  vmm_get_physical_addr(w.vaddr + byte \div PAGE) = w.paddr + byte \div PAGE
  BY DEF WindowsMapped
<1> DEFINE j == byte \div PAGE
<1>1. /\ w \in WindowType /\ InArea(w.vaddr, PageCount(w.size), next_mmio_vaddr)
      /\ LeadTo(TrMap(entries), w.vaddr, PageCount(w.size), w.paddr)
  BY DEF WinInv, WinOK
<1>2. w.size \in Nat /\ w.vaddr \in Nat /\ w.paddr \in Nat
  BY <1>1 DEF WindowType
<1>3. j \in Nat /\ j < PageCount(w.size) /\ PageCount(w.size) \in Nat
  BY <1>2, PagesEnough
<1> HIDE DEF j
<1>4. TrMap(entries)[w.vaddr + j] = w.paddr + j
  BY <1>1, <1>3 DEF LeadTo
<1>5. w.vaddr + j \in Pages
  <2>1. w.vaddr + PageCount(w.size) <= MMIO_END /\ MMIO_END \in Nat /\ MMIO_END <= PAGES /\ PAGES \in Nat
    BY <1>1, VirtMemAssumption DEF InArea, PAGES
  <2>2. QED
    BY <1>2, <1>3, <2>1 DEF Pages
<1>6. At(entries, w.vaddr + j, 4) = w.paddr + j
  BY <1>4, <1>5 DEF TrMap
<1>7. QED
  BY <1>6, Walking DEF j

-----------------------------------------------------------------------------
(* The theorems.  OrdinarySizes excludes requests so close to the end of a   *)
(* size_t that the size of the headers overflows it.                         *)

\* The invariant holds, and every step respects the address space.
THEOREM MemoryCorrect ==
  ASSUME OrdinarySizes
  PROVE  Spec => []MemoryInv
<1>1. Init => MemoryInv
  BY MemoryStart
<1>2. MemoryInv /\ [Next]_vars => MemoryInv'
  BY MemoryNext
<1>3. QED
  BY <1>1, <1>2, PTL DEF Spec

\* HeapSound: allocation_list holds exactly the pointers that malloc, calloc and
\* realloc have returned and free has not taken back, with both links intact, and
\* each pointer has enough pages for its header and for what was asked for.
THEOREM HeapSoundCorrect ==
  ASSUME OrdinarySizes
  PROVE  Spec => []HeapSound
<1>1. MemoryInv => HeapSound
  BY ListIsSound, AllBacked DEF MemoryInv, HeapSound
<1>2. QED
  BY <1>1, MemoryCorrect, PTL

\* PagesAccounted: total_allocated and allocation_count are exact, and a page of the
\* heap without a pointer is one that a realloc has cut off.
THEOREM PagesAccountedCorrect ==
  ASSUME OrdinarySizes
  PROVE  Spec => []PagesAccounted
<1>1. MemoryInv => PagesAccounted
  <2> SUFFICES ASSUME MemoryInv, kernel # "halted" PROVE HeapStatisticsExact /\ LeaksAreCut
    BY DEF PagesAccounted
  <2>1. Accounted
    BY DEF MemoryInv, HeapInv
  <2>2. HeapBlocks = BlocksOf(live \ others)
    BY DEF HeapBlocks, BlocksOf
  <2>3. QED
    BY <2>1, <2>2 DEF Accounted, HeapStatisticsExact, LeaksAreCut
<1>2. QED
  BY <1>1, MemoryCorrect, PTL

\* PagesOwned: every page that is not free belongs to exactly one of the heap, the
\* threads, the page tables and the card's driver; the card uses only the driver's,
\* in a machine whose memory its 32-bit addresses reach (e1000.c: "assuming < 4GB").
THEOREM PagesOwnedCorrect ==
  ASSUME OrdinarySizes, TotalBlocks <= DMA_WIDTH
  PROVE  Spec => []PagesOwned
<1>1. MemoryInv => PagesOwned
  BY OwnersExact
<1>2. QED
  BY <1>1, MemoryCorrect, PTL

\* WindowsMapped: every byte of a window that vmm_map_mmio has handed out leads to
\* the byte of the device, until the window is unmapped.
THEOREM WindowsMappedCorrect ==
  ASSUME OrdinarySizes
  PROVE  Spec => []WindowsMapped
<1>1. MemoryInv => WindowsMapped
  BY WindowsLead DEF MemoryInv
<1>2. QED
  BY <1>1, MemoryCorrect, PTL

\* ImplementsAddressSpace: with four levels of tables in pages that are handed out
\* and never given back, every step maps one page that was not mapped, unmaps pages,
\* or changes no translation.
THEOREM ImplementsAddressSpaceCorrect ==
  ASSUME OrdinarySizes
  PROVE  Spec => ImplementsAddressSpace
<1>1. Init => Space!SpaceInit
  <2> SUFFICES ASSUME Init PROVE Space!SpaceInit
    OBVIOUS
  <2>1. \A v \in Pages : vmm_get_physical_addr(v) = NONE
    BY StartTree DEF Init
  <2>2. QED
    BY <2>1 DEF Space!SpaceInit
<1>2. ASSUME MemoryInv, [Next]_vars
      PROVE  [Space!SpaceNext]_([v \in Pages |-> vmm_get_physical_addr(v)])
  <2>1. Respects
    BY <1>2, MemoryNext
  <2>2. [v \in Pages |-> vmm_get_physical_addr(v)] = TrMap(entries)
    BY Walking DEF TrMap
  <2>3. [v \in Pages |-> vmm_get_physical_addr(v)]' = TrMap(entries')
    BY WalkingNext DEF TrMap
  <2>4. CASE entries' = entries \/ TrMap(entries') = TrMap(entries)
    BY <2>2, <2>3, <2>4
  <2>5. CASE SpaceStep(TrMap(entries), TrMap(entries'))
    <3>1. Space!SpaceNext
      BY <2>2, <2>3, <2>5 DEF SpaceStep, Space!SpaceNext, Space!Map, Space!Unmap
    <3>2. QED
      BY <3>1
  <2>6. QED
    BY <2>1, <2>4, <2>5 DEF Respects
<1>3. QED
  BY <1>1, <1>2, MemoryCorrect, PTL DEF Spec, ImplementsAddressSpace, Space!SpaceSpec
=============================================================================
