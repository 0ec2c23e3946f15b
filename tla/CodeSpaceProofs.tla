------------------------- MODULE CodeSpaceProofs -------------------------
(***************************************************************************)
(* Facts about the code of a process, for any number of routines and       *)
(* blocks: what SkipJumps computes, although it is defined by recursion,   *)
(* and that it comes to an end exactly where the jumps form no cycle.  The *)
(* inductions are arguments about the least element of a set of numbers.   *)
(***************************************************************************)
EXTENDS CodeSpace, FiniteSetTheorems, WellFoundedInduction, TLAPS

(* The kinds of location are disjoint and their addresses distinct.        *)
LEMMA LocFacts ==
  /\ \A r \in Routine : Fn(r) \in Loc
  /\ \A b \in Block : Entry(b) \in Loc /\ Stub(b) \in Loc
  /\ \A r1, r2 : Fn(r1) = Fn(r2) => r1 = r2
  /\ \A b1, b2 : Entry(b1) = Entry(b2) => b1 = b2
  /\ \A b1, b2 : Stub(b1) = Stub(b2) => b1 = b2
  /\ \A r, b : Fn(r) # Entry(b) /\ Fn(r) # Stub(b)
  /\ \A b1, b2 : Entry(b1) # Stub(b2)
  /\ \A l \in Loc : \/ \E r \in Routine : l = Fn(r)
                    \/ \E b \in Block : l = Entry(b) \/ l = Stub(b)
  BY DEF Loc, Fn, Entry, Stub

(* Jumps, instructions and blank bytes are told apart.                     *)
LEMMA ContentFacts ==
  /\ Blank \in Content
  /\ \A l \in Loc : Jmp(l) \in Content
  /\ \A l : IsJmp(Jmp(l)) /\ ~IsBody(Jmp(l)) /\ Jmp(l) # Blank
  /\ ~IsJmp(Blank) /\ ~IsBody(Blank)
  /\ \A c \in Content : ~(IsJmp(c) /\ IsBody(c))
  /\ \A l1, l2 : Jmp(l1) = Jmp(l2) => l1 = l2
  BY DEF Blank, Content, Jmp, IsJmp, IsBody

(* A jump leads to a location.                                             *)
LEMMA JumpTarget ==
  ASSUME NEW c \in Content, IsJmp(c)
  PROVE  c[2] \in Loc /\ c = Jmp(c[2])
  BY DEF Content, Jmp, IsJmp, Body, Blank

LEMMA LocIsFinite == IsFiniteSet(Loc)
<1>1. IsFiniteSet({"fn"} \X Routine)
  BY CodeSpaceAssumption, FS_Singleton, FS_Product
<1>2. IsFiniteSet({"codeTrampoline", "codeJumpToHookFunction"} \X Block)
  <2>1. IsFiniteSet({"codeTrampoline", "codeJumpToHookFunction"})
    <3>1. IsFiniteSet({"codeTrampoline"}) /\ IsFiniteSet({"codeJumpToHookFunction"})
      BY FS_Singleton
    <3>2. IsFiniteSet({"codeTrampoline"} \cup {"codeJumpToHookFunction"})
      BY <3>1, FS_Union
    <3>3. {"codeTrampoline", "codeJumpToHookFunction"}
            = {"codeTrampoline"} \cup {"codeJumpToHookFunction"}
      OBVIOUS
    <3> QED BY <3>2, <3>3
  <2> QED BY <2>1, CodeSpaceAssumption, FS_Product
<1> QED BY <1>1, <1>2, FS_Union DEF Loc
--------------------------------------------------------------------------
(* Every set of natural numbers that is not empty has a least element.     *)
LEMMA LeastNumber ==
  ASSUME NEW S \in SUBSET Nat, S # {}
  PROVE  \E m \in S : \A k \in S : m <= k
<1> DEFINE R == OpToRel(<, Nat)
<1>1. IsWellFoundedOn(R, Nat)
  BY NatLessThanWellFounded
<1>2. \A x, y \in Nat : x < y => <<x, y>> \in R
  BY DEF OpToRel
<1> HIDE DEF R
<1>3. PICK m \in S : \A y \in S : ~(<<y, m>> \in R)
  BY <1>1, WFMin
<1>4. \A y \in S : ~(y < m)
  BY <1>2, <1>3
<1> QED BY <1>3, <1>4

(* A set that has 0, and with a number the next one, has them all.         *)
LEMMA Induction ==
  ASSUME NEW S \in SUBSET Nat, 0 \in S, \A n \in S : n + 1 \in S
  PROVE  \A n \in Nat : n \in S
<1> SUFFICES ASSUME Nat \ S # {} PROVE FALSE
  OBVIOUS
<1>1. PICK m \in Nat \ S : \A k \in Nat \ S : m <= k
  BY LeastNumber
<1>2. m # 0 /\ m - 1 \in Nat /\ m - 1 \in S
  BY <1>1
<1>3. (m - 1) + 1 \in S
  BY <1>2
<1> QED BY <1>1, <1>3
--------------------------------------------------------------------------
(* One hop for each of n + 1 rounds, given where the first n rounds lead.  *)
HopOf(c, h) ==
  [n \in Nat |->
     [x \in Loc |-> IF n = 0 \/ ~IsJmp(c[x]) THEN x ELSE h[n - 1][c[x][2]]]]

(* The rounds up to the n-th.                                              *)
RoundsTo(c, n, f) ==
  /\ f \in [0 .. n -> [Loc -> Loc]]
  /\ \A m \in 0 .. n : \A x \in Loc :
       f[m][x] = IF m = 0 \/ ~IsJmp(c[x]) THEN x ELSE f[m - 1][c[x][2]]

LEMMA RoundsExist ==
  ASSUME NEW c \in [Loc -> Content], NEW n \in Nat
  PROVE  \E f : RoundsTo(c, n, f)
<1> DEFINE A == {k \in Nat : \E f : RoundsTo(c, k, f)}
<1>1. 0 \in A
  <2> DEFINE f == [m \in 0 .. 0 |-> [x \in Loc |-> x]]
  <2>1. RoundsTo(c, 0, f)
    BY DEF RoundsTo
  <2> QED BY <2>1
<1>2. ASSUME NEW k \in A PROVE k + 1 \in A
  <2>1. PICK f : RoundsTo(c, k, f)
    OBVIOUS
  <2> DEFINE next == [x \in Loc |-> IF ~IsJmp(c[x]) THEN x ELSE f[k][c[x][2]]]
             g    == [m \in 0 .. k + 1 |-> IF m = k + 1 THEN next ELSE f[m]]
  <2>2. next \in [Loc -> Loc]
    BY <2>1, JumpTarget DEF RoundsTo
  <2>3. g \in [0 .. k + 1 -> [Loc -> Loc]]
    <3> HIDE DEF next
    <3> QED BY <2>1, <2>2 DEF RoundsTo
  <2>4. ASSUME NEW m \in 0 .. k + 1, NEW x \in Loc
        PROVE  g[m][x] = IF m = 0 \/ ~IsJmp(c[x]) THEN x ELSE g[m - 1][c[x][2]]
    <3>1. CASE m = k + 1
      BY <3>1
    <3>2. CASE m # k + 1
      <4>1. m \in 0 .. k /\ g[m] = f[m] /\ (m # 0 => g[m - 1] = f[m - 1])
        <5> HIDE DEF next
        <5> QED BY <3>2
      <4> HIDE DEF g
      <4> QED BY <2>1, <4>1 DEF RoundsTo
    <3> QED BY <3>1, <3>2
  <2>5. RoundsTo(c, k + 1, g)
    <3> HIDE DEF g
    <3> QED BY <2>3, <2>4 DEF RoundsTo
  <2> QED BY <2>5
<1> HIDE DEF A
<1>3. A \in SUBSET Nat
  BY DEF A
<1>4. n \in A
  BY <1>1, <1>2, <1>3, Induction
<1> QED BY <1>4 DEF A

LEMMA RoundsAgree ==
  ASSUME NEW c \in [Loc -> Content], NEW n \in Nat, NEW k \in Nat,
         NEW f, NEW g, RoundsTo(c, n, f), RoundsTo(c, k, g)
  PROVE  \A m \in Nat : m <= n /\ m <= k => f[m] = g[m]
<1> DEFINE A == {m \in Nat : m <= n /\ m <= k => f[m] = g[m]}
<1>1. 0 \in A
  <2>1. f[0] \in [Loc -> Loc] /\ g[0] \in [Loc -> Loc]
    BY DEF RoundsTo
  <2>2. \A x \in Loc : f[0][x] = x /\ g[0][x] = x
    BY DEF RoundsTo
  <2> QED BY <2>1, <2>2
<1>2. ASSUME NEW m \in A PROVE m + 1 \in A
  <2> SUFFICES ASSUME m + 1 <= n, m + 1 <= k PROVE f[m + 1] = g[m + 1]
    OBVIOUS
  <2>1. f[m] = g[m] /\ m + 1 \in 0 .. n /\ m + 1 \in 0 .. k /\ (m + 1) - 1 = m
        /\ m + 1 # 0
    OBVIOUS
  <2>2. f[m + 1] \in [Loc -> Loc] /\ g[m + 1] \in [Loc -> Loc]
    BY <2>1 DEF RoundsTo
  <2>3. ASSUME NEW x \in Loc PROVE f[m + 1][x] = g[m + 1][x]
    <3> HIDE DEF A
    <3> DEFINE e == m + 1
    <3>0. e \in 0 .. n /\ e \in 0 .. k /\ e - 1 = m /\ e # 0
      BY <2>1
    <3> HIDE DEF e
    <3>1. f[e][x] = IF ~IsJmp(c[x]) THEN x ELSE f[m][c[x][2]]
      BY <3>0 DEF RoundsTo
    <3>2. g[e][x] = IF ~IsJmp(c[x]) THEN x ELSE g[m][c[x][2]]
      BY <3>0 DEF RoundsTo
    <3> USE DEF e
    <3> QED BY <2>1, <3>1, <3>2
  <2> QED BY <2>2, <2>3
<1> HIDE DEF A
<1>3. A \in SUBSET Nat
  BY DEF A
<1>4. \A m \in Nat : m \in A
  BY <1>1, <1>2, <1>3, Induction
<1> QED BY <1>4 DEF A

(* So the recursion in SkipJumps has a solution.                           *)
LEMMA HopsExist ==
  ASSUME NEW c \in [Loc -> Content]
  PROVE  \E h : h = HopOf(c, h)
<1> DEFINE F(n) == CHOOSE f : RoundsTo(c, n, f)
           h    == [n \in Nat |-> F(n)[n]]
<1>1. \A n \in Nat : RoundsTo(c, n, F(n))
  BY RoundsExist
<1>2. \A n \in Nat : h[n] = F(n)[n]
  OBVIOUS
<1> HIDE DEF F
<1>3. ASSUME NEW n \in Nat
      PROVE  h[n] = [x \in Loc |-> IF n = 0 \/ ~IsJmp(c[x]) THEN x
                                   ELSE h[n - 1][c[x][2]]]
  <2>1. h[n] = F(n)[n] /\ (n # 0 => h[n - 1] = F(n - 1)[n - 1])
    OBVIOUS
  <2>2. h[n] \in [Loc -> Loc]
    BY <1>1, <2>1 DEF RoundsTo
  <2>3. n # 0 => h[n - 1] = F(n)[n - 1]
    <3> SUFFICES ASSUME n # 0 PROVE F(n - 1)[n - 1] = F(n)[n - 1]
      BY <2>1
    <3>1. n - 1 \in Nat /\ n - 1 <= n
      OBVIOUS
    <3>2. RoundsTo(c, n, F(n)) /\ RoundsTo(c, n - 1, F(n - 1))
      BY <1>1, <3>1
    <3> QED BY <3>1, <3>2, RoundsAgree
  <2>4. \A x \in Loc : F(n)[n][x] = IF n = 0 \/ ~IsJmp(c[x]) THEN x
                                    ELSE F(n)[n - 1][c[x][2]]
    BY <1>1 DEF RoundsTo
  <2> HIDE DEF h
  <2> QED BY <2>1, <2>2, <2>3, <2>4
<1>4. h = HopOf(c, h)
  BY <1>3 DEF HopOf
<1> HIDE DEF h
<1> QED BY <1>4

(* SkipJumps is the result of as many rounds as there are locations, where *)
(* in each a jump is followed.                                             *)
Rounds(c, h) ==
  /\ h \in [Nat -> [Loc -> Loc]]
  /\ \A x \in Loc : h[0][x] = x
  /\ \A n \in Nat, x \in Loc :
       h[n + 1][x] = IF IsJmp(c[x]) THEN h[n][c[x][2]] ELSE x

LEMMA SkipJumpsRounds ==
  ASSUME NEW c \in [Loc -> Content]
  PROVE  \E h : Rounds(c, h) /\ \A l : SkipJumps(c, l) = h[Cardinality(Loc)][l]
<1> DEFINE hop == CHOOSE h : h = HopOf(c, h)
<1>1. hop = HopOf(c, hop)
  BY HopsExist, Zenon
<1>2. \A l : SkipJumps(c, l) = hop[Cardinality(Loc)][l]
  BY Zenon DEF SkipJumps, HopOf
<1> HIDE DEF hop
<1> DEFINE row(n) == [x \in Loc |-> IF n = 0 \/ ~IsJmp(c[x]) THEN x
                                  ELSE hop[n - 1][c[x][2]]]
<1>3. \A n \in Nat : hop[n] = row(n)
  <2>1. hop = [n \in Nat |-> row(n)]
    BY <1>1 DEF HopOf
  <2> HIDE DEF row
  <2> QED BY <2>1
<1>4. ASSUME NEW n \in Nat, NEW x \in Loc
      PROVE  hop[n][x] = IF n = 0 \/ ~IsJmp(c[x]) THEN x ELSE hop[n - 1][c[x][2]]
  <2>1. hop[n] = row(n)
    BY <1>3
  <2>2. row(n)[x] = IF n = 0 \/ ~IsJmp(c[x]) THEN x ELSE hop[n - 1][c[x][2]]
    OBVIOUS
  <2> HIDE DEF row
  <2> QED BY <2>1, <2>2
<1>5. \A n \in Nat : hop[n] \in [Loc -> Loc]
  <2> DEFINE A == {n \in Nat : hop[n] \in [Loc -> Loc]}
  <2>1. 0 \in A
    <3>1. row(0) = [x \in Loc |-> x]
      OBVIOUS
    <3>2. hop[0] \in [Loc -> Loc]
      <4> HIDE DEF row
      <4> QED BY <1>3, <3>1
    <3> QED BY <3>2
  <2>2. ASSUME NEW n \in A PROVE n + 1 \in A
    <3>1. n + 1 # 0 /\ (n + 1) - 1 = n /\ n + 1 \in Nat
      OBVIOUS
    <3>2. row(n + 1) = [x \in Loc |-> IF ~IsJmp(c[x]) THEN x ELSE hop[n][c[x][2]]]
      BY <3>1
    <3>3. row(n + 1) \in [Loc -> Loc]
      <4>1. hop[n] \in [Loc -> Loc]
        OBVIOUS
      <4> HIDE DEF row
      <4> QED BY <3>2, <4>1, JumpTarget
    <3>4. hop[n + 1] \in [Loc -> Loc]
      <4> HIDE DEF row
      <4> QED BY <1>3, <3>1, <3>3
    <3> QED BY <3>1, <3>4
  <2> HIDE DEF A
  <2>3. \A n \in Nat : n \in A
    <3>1. A \in SUBSET Nat
      BY DEF A
    <3> QED BY <2>1, <2>2, <3>1, Induction
  <2> QED BY <2>3 DEF A
<1> HIDE DEF row
<1>6. Rounds(c, hop)
  <2>1. hop \in [Nat -> [Loc -> Loc]]
    <3>1. hop = [n \in Nat |-> hop[n]]
      BY <1>1 DEF HopOf
    <3> QED BY <1>5, <3>1
  <2>2. \A n \in Nat, x \in Loc :
          hop[n + 1][x] = IF IsJmp(c[x]) THEN hop[n][c[x][2]] ELSE x
    <3> SUFFICES ASSUME NEW n \in Nat, NEW x \in Loc
                 PROVE  hop[n + 1][x] = IF IsJmp(c[x]) THEN hop[n][c[x][2]] ELSE x
      OBVIOUS
    <3>1. n + 1 \in Nat /\ n + 1 # 0 /\ (n + 1) - 1 = n
      OBVIOUS
    <3> QED BY <1>4, <3>1
  <2>3. \A x \in Loc : hop[0][x] = x
    BY <1>4
  <2> QED BY <2>1, <2>2, <2>3 DEF Rounds
<1> QED BY <1>2, <1>6

(* SkipJumps stays inside any set of locations that no jump leaves.        *)
LEMMA SkipJumpsStays ==
  ASSUME NEW c \in [Loc -> Content], NEW S \in SUBSET Loc, NEW l \in S,
         \A x \in S : IsJmp(c[x]) => c[x][2] \in S
  PROVE  SkipJumps(c, l) \in S
<1>1. PICK h : Rounds(c, h) /\ \A x : SkipJumps(c, x) = h[Cardinality(Loc)][x]
  BY SkipJumpsRounds
<1> DEFINE A == {n \in Nat : \A x \in S : h[n][x] \in S}
<1>2. 0 \in A
  BY <1>1 DEF Rounds
<1>3. ASSUME NEW n \in A PROVE n + 1 \in A
  <2> SUFFICES ASSUME NEW x \in S PROVE h[n + 1][x] \in S
    OBVIOUS
  <2>1. h[n + 1][x] = IF IsJmp(c[x]) THEN h[n][c[x][2]] ELSE x
    BY <1>1 DEF Rounds
  <2>2. \A y \in S : h[n][y] \in S
    OBVIOUS
  <2> HIDE DEF A
  <2> QED BY <2>1, <2>2
<1>4. \A n \in Nat : n \in A
  <2>1. A \in SUBSET Nat
    OBVIOUS
  <2> HIDE DEF A
  <2> QED BY <1>2, <1>3, <2>1, Induction
<1>5. Cardinality(Loc) \in Nat
  BY LocIsFinite, FS_CardinalityType
<1> QED BY <1>1, <1>4, <1>5

LEMMA SkipJumpsType ==
  ASSUME NEW c \in [Loc -> Content], NEW l \in Loc
  PROVE  SkipJumps(c, l) \in Loc
<1>1. \A x \in Loc : IsJmp(c[x]) => c[x][2] \in Loc
  BY JumpTarget
<1> QED BY <1>1, SkipJumpsStays

(* Where there is no jump SkipJumps stays.                                 *)
LEMMA SkipJumpsHere ==
  ASSUME NEW c \in [Loc -> Content], NEW l \in Loc, ~IsJmp(c[l])
  PROVE  SkipJumps(c, l) = l
<1>1. \A x \in {l} : IsJmp(c[x]) => c[x][2] \in {l}
  OBVIOUS
<1>2. {l} \in SUBSET Loc /\ l \in {l}
  OBVIOUS
<1>3. SkipJumps(c, l) \in {l}
  BY <1>1, <1>2, SkipJumpsStays
<1> QED BY <1>3

(* Codes that agree on such a set lead to the same place.                  *)
LEMMA SkipJumpsAgree ==
  ASSUME NEW c \in [Loc -> Content], NEW d \in [Loc -> Content],
         NEW S \in SUBSET Loc, NEW l \in S,
         \A x \in S : IsJmp(c[x]) => c[x][2] \in S,
         \A x \in S : d[x] = c[x]
  PROVE  SkipJumps(d, l) = SkipJumps(c, l)
<1>1. PICK h : Rounds(c, h) /\ \A x : SkipJumps(c, x) = h[Cardinality(Loc)][x]
  BY SkipJumpsRounds
<1>2. PICK g : Rounds(d, g) /\ \A x : SkipJumps(d, x) = g[Cardinality(Loc)][x]
  BY SkipJumpsRounds
<1> DEFINE A == {n \in Nat : \A x \in S : g[n][x] = h[n][x]}
<1>3. 0 \in A
  BY <1>1, <1>2 DEF Rounds
<1>4. ASSUME NEW n \in A PROVE n + 1 \in A
  <2>1. n \in Nat /\ \A x \in S : g[n][x] = h[n][x]
    OBVIOUS
  <2> HIDE DEF A
  <2>2. \A x \in S : h[n + 1][x] = IF IsJmp(c[x]) THEN h[n][c[x][2]] ELSE x
    BY <1>1, <2>1, SMTT(30) DEF Rounds
  <2>3. \A x \in S : g[n + 1][x] = IF IsJmp(c[x]) THEN g[n][c[x][2]] ELSE x
    BY <1>2, <2>1, SMTT(30) DEF Rounds
  <2>4. \A x \in S : g[n + 1][x] = h[n + 1][x]
    BY <2>1, <2>2, <2>3
  <2> QED BY <2>1, <2>4 DEF A
<1>5. \A n \in Nat : n \in A
  <2>1. A \in SUBSET Nat
    OBVIOUS
  <2> HIDE DEF A
  <2> QED BY <1>3, <1>4, <2>1, Induction
<1>6. Cardinality(Loc) \in Nat
  BY LocIsFinite, FS_CardinalityType
<1> QED BY <1>1, <1>2, <1>5, <1>6
--------------------------------------------------------------------------
(* The jumps form no cycle: every set of locations has one from which no   *)
(* jump leads into the set.                                                *)
Acyclic(c) ==
  \A S \in SUBSET Loc : S # {} => \E x \in S : IsJmp(c[x]) => c[x][2] \notin S

(* The n-th round from x has come to bytes that are no jump.               *)
Ends(c, h, n, x) == ~IsJmp(c[h[n][x]])

LEMMA RoundsEnd ==
  ASSUME NEW c \in [Loc -> Content], Acyclic(c), NEW h, Rounds(c, h), NEW x \in Loc
  PROVE  \E n \in Nat : Ends(c, h, n, x)
<1> DEFINE S == {y \in Loc : \A n \in Nat : ~Ends(c, h, n, y)}
<1> SUFFICES ASSUME S # {} PROVE FALSE
  OBVIOUS
<1>1. PICK y \in S : IsJmp(c[y]) => c[y][2] \notin S
  BY DEF Acyclic
<1>2. IsJmp(c[y]) /\ c[y][2] \in Loc
  <2>1. ~Ends(c, h, 0, y) /\ h[0][y] = y
    BY DEF Rounds
  <2> QED BY <2>1, JumpTarget DEF Ends
<1>3. PICK n \in Nat : Ends(c, h, n, c[y][2])
  BY <1>1, <1>2
<1>4. h[n + 1][y] = h[n][c[y][2]] /\ n + 1 \in Nat
  BY <1>2 DEF Rounds
<1>5. Ends(c, h, n + 1, y)
  BY <1>3, <1>4 DEF Ends
<1> QED BY <1>4, <1>5

LEMMA EndsForGood ==
  ASSUME NEW c \in [Loc -> Content], NEW h, Rounds(c, h)
  PROVE  \A n \in Nat, x \in Loc : Ends(c, h, n, x) => h[n + 1][x] = h[n][x]
<1> DEFINE A == {n \in Nat : \A x \in Loc : Ends(c, h, n, x) => h[n + 1][x] = h[n][x]}
<1>1. 0 \in A
  BY DEF Rounds, Ends
<1>2. ASSUME NEW n \in A PROVE n + 1 \in A
  <2> SUFFICES ASSUME NEW x \in Loc, Ends(c, h, n + 1, x)
               PROVE  h[(n + 1) + 1][x] = h[n + 1][x]
    OBVIOUS
  <2>1. CASE ~IsJmp(c[x])
    BY <2>1 DEF Rounds
  <2>2. CASE IsJmp(c[x])
    <3> DEFINE y == c[x][2]
    <3>1. y \in Loc
      BY <2>2, JumpTarget
    <3>2. h[n + 1][x] = h[n][y] /\ h[(n + 1) + 1][x] = h[n + 1][y]
      BY <2>2 DEF Rounds
    <3>3. Ends(c, h, n, y)
      BY <3>2 DEF Ends
    <3> QED BY <3>1, <3>2, <3>3
  <2> QED BY <2>1, <2>2
<1>3. \A n \in Nat : n \in A
  <2>1. A \in SUBSET Nat
    OBVIOUS
  <2> HIDE DEF A
  <2> QED BY <1>1, <1>2, <2>1, Induction
<1> QED BY <1>3

(* A chain of jumps that has not ended in round n has passed n + 1         *)
(* different locations: each ends sooner than the one before.              *)
LEMMA LongChain ==
  ASSUME NEW c \in [Loc -> Content], Acyclic(c), NEW h, Rounds(c, h), NEW n \in Nat,
         NEW x \in Loc, ~Ends(c, h, n, x)
  PROVE  \E V \in SUBSET Loc : IsFiniteSet(V) /\ Cardinality(V) = n + 1
<1> DEFINE Chain(k, y, V) ==
             /\ IsFiniteSet(V) /\ Cardinality(V) = k + 1
             /\ \A v \in V : \A m \in Nat : Ends(c, h, m, y) => Ends(c, h, m, v)
           A == {k \in Nat : \A y \in Loc : ~Ends(c, h, k, y) =>
                   \E V \in SUBSET Loc : Chain(k, y, V)}
<1>1. 0 \in A
  <2> SUFFICES ASSUME NEW y \in Loc PROVE \E V \in SUBSET Loc : Chain(0, y, V)
    OBVIOUS
  <2>1. IsFiniteSet({y}) /\ Cardinality({y}) = 0 + 1
    <3> HIDE DEF A
    <3>1. IsFiniteSet({y}) /\ Cardinality({y}) = 1
      BY FS_Singleton, Zenon
    <3> QED BY <3>1
  <2>2. \A v \in {y} : \A m \in Nat : Ends(c, h, m, y) => Ends(c, h, m, v)
    OBVIOUS
  <2>3. {y} \in SUBSET Loc
    OBVIOUS
  <2> QED BY <2>1, <2>2, <2>3
<1>2. ASSUME NEW k \in A PROVE k + 1 \in A
  <2> SUFFICES ASSUME NEW y \in Loc, ~Ends(c, h, k + 1, y)
               PROVE  \E V \in SUBSET Loc : Chain(k + 1, y, V)
    OBVIOUS
  <2> DEFINE z == c[y][2]
  <2>1. IsJmp(c[y])
    <3> SUFFICES ASSUME ~IsJmp(c[y]) PROVE FALSE
      OBVIOUS
    <3>1. k \in Nat
      OBVIOUS
    <3>2. h[k + 1][y] = y
      <4> HIDE DEF A
      <4> QED BY <3>1 DEF Rounds
    <3> QED BY <3>2 DEF Ends
  <2>2. z \in Loc /\ \A m \in Nat : Ends(c, h, m + 1, y) <=> Ends(c, h, m, z)
    BY <2>1, JumpTarget DEF Ends, Rounds
  <2>3. ~Ends(c, h, 0, y)
    BY <2>1 DEF Ends, Rounds
  <2>4. PICK V \in SUBSET Loc : Chain(k, z, V)
    BY <2>2
  <2> HIDE DEF z
  <2>5. y \notin V
    <3> SUFFICES ASSUME y \in V PROVE FALSE
      OBVIOUS
    <3> DEFINE E == {m \in Nat : Ends(c, h, m, z)}
    <3>1. E \in SUBSET Nat /\ E # {}
      BY <2>2, RoundsEnd
    <3>2. PICK m \in E : \A j \in E : m <= j
      <4> HIDE DEF E
      <4> QED BY <3>1, LeastNumber
    <3>3. Ends(c, h, m, y)
      BY <2>4
    <3>4. m # 0 /\ m - 1 \in Nat /\ (m - 1) + 1 = m
      BY <2>3, <3>3
    <3>5. m - 1 \in E
      BY <2>2, <3>3, <3>4
    <3> QED BY <3>2, <3>4, <3>5
  <2>6. \A m \in Nat : Ends(c, h, m, y) => Ends(c, h, m, z)
    <3> SUFFICES ASSUME NEW m \in Nat, Ends(c, h, m, y) PROVE Ends(c, h, m, z)
      OBVIOUS
    <3>1. m # 0 /\ m - 1 \in Nat /\ (m - 1) + 1 = m
      BY <2>3
    <3>2. Ends(c, h, m - 1, z)
      BY <2>2, <3>1
    <3>3. h[(m - 1) + 1][z] = h[m - 1][z]
      BY <2>2, <3>1, <3>2, EndsForGood
    <3> QED BY <3>1, <3>2, <3>3 DEF Ends
  <2>7. IsFiniteSet(V \cup {y}) /\ Cardinality(V \cup {y}) = (k + 1) + 1
    BY <2>4, <2>5, FS_AddElement
  <2>8. Chain(k + 1, y, V \cup {y})
    BY <2>4, <2>6, <2>7
  <2> QED BY <2>8
<1>3. \A k \in Nat : k \in A
  <2>1. A \in SUBSET Nat
    OBVIOUS
  <2> HIDE DEF A
  <2> QED BY <1>1, <1>2, <2>1, Induction
<1> QED BY <1>3

(* So without a cycle SkipJumps comes to an end.                           *)
LEMMA AcyclicLands ==
  ASSUME NEW c \in [Loc -> Content], Acyclic(c), NEW l \in Loc
  PROVE  Lands(c, SkipJumps(c, l))
<1>1. PICK h : Rounds(c, h) /\ \A x : SkipJumps(c, x) = h[Cardinality(Loc)][x]
  BY SkipJumpsRounds
<1>2. Cardinality(Loc) \in Nat
  BY LocIsFinite, FS_CardinalityType
<1>3. Ends(c, h, Cardinality(Loc), l)
  <2> SUFFICES ASSUME ~Ends(c, h, Cardinality(Loc), l) PROVE FALSE
    OBVIOUS
  <2>1. PICK V \in SUBSET Loc : IsFiniteSet(V) /\ Cardinality(V) = Cardinality(Loc) + 1
    BY <1>1, <1>2, LongChain
  <2>2. Cardinality(V) <= Cardinality(Loc)
    BY LocIsFinite, FS_Subset
  <2> QED BY <1>2, <2>1, <2>2
<1> QED BY <1>1, <1>3, SkipJumpsType DEF Ends, Lands

(* And where it always comes to an end there is no cycle.                  *)
LEMMA LandsAcyclic ==
  ASSUME NEW c \in [Loc -> Content], \A l \in Loc : Lands(c, SkipJumps(c, l))
  PROVE  Acyclic(c)
<1> SUFFICES ASSUME NEW S \in SUBSET Loc, S # {},
                    \A x \in S : IsJmp(c[x]) /\ c[x][2] \in S
             PROVE  FALSE
  BY DEF Acyclic
<1>1. PICK l \in S : TRUE
  OBVIOUS
<1>2. SkipJumps(c, l) \in S
  BY SkipJumpsStays
<1> QED BY <1>2 DEF Lands

(* Then it follows one jump after the other.                               *)
LEMMA SkipJumpsFollows ==
  ASSUME NEW c \in [Loc -> Content], Acyclic(c), NEW l \in Loc
  PROVE  SkipJumps(c, l) = IF IsJmp(c[l]) THEN SkipJumps(c, c[l][2]) ELSE l
<1>1. PICK h : Rounds(c, h) /\ \A x : SkipJumps(c, x) = h[Cardinality(Loc)][x]
  BY SkipJumpsRounds
<1> DEFINE N == Cardinality(Loc)
<1>2. N \in Nat
  BY LocIsFinite, FS_CardinalityType
<1>3. Ends(c, h, N, l)
  BY <1>1, AcyclicLands DEF Ends, Lands
<1>4. h[N + 1][l] = h[N][l]
  BY <1>1, <1>2, <1>3, EndsForGood
<1>5. h[N + 1][l] = IF IsJmp(c[l]) THEN h[N][c[l][2]] ELSE l
  BY <1>1, <1>2 DEF Rounds
<1> QED BY <1>1, <1>4, <1>5
==========================================================================
