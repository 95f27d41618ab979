----------------------------- MODULE ListsProofs -----------------------------
(***************************************************************************)
(* What removal from a list leaves.  Both proofs look at the first place   *)
(* of the list where the claim would fail.                                 *)
(***************************************************************************)
EXTENDS Lists, WellFoundedInduction, TLAPS

\* A set of numbers that is not empty has a least member.
LEMMA LeastMember ==
  ASSUME NEW T \in SUBSET Nat, T # {}
  PROVE  \E m \in T : \A k \in T : m <= k
<1>1. PICK m \in T : \A k \in T : <<k, m>> \notin OpToRel(<, Nat)
  BY WFMin, NatLessThanWellFounded
<1>2. \A k \in T : ~(k < m)
  BY <1>1 DEF OpToRel
<1> QED BY <1>2

\* The recursion of Kept has a solution for each length.
IsKept(d, list, S, n) ==
  d = [i \in 0..n |-> IF i = 0 THEN <<>> ELSE IF list[i] \in S THEN d[i - 1]
                      ELSE Append(d[i - 1], list[i])]

LEMMA KeptExists ==
  ASSUME NEW list, NEW S, NEW n \in Nat
  PROVE  \E d : IsKept(d, list, S, n)
<1> USE DEF IsKept
<1> DEFINE Next(d, i) == IF i = 0 THEN <<>> ELSE IF list[i] \in S THEN d[i - 1]
                         ELSE Append(d[i - 1], list[i])
           Solved(m) == \E d : d = [i \in 0..m |-> Next(d, i)]
           T == {m \in Nat : ~Solved(m)}
<1> SUFFICES ASSUME T # {} PROVE FALSE
  OBVIOUS
<1>1. PICK m \in T : \A k \in T : m <= k
  <2> HIDE DEF Solved
  <2> QED BY LeastMember
<1>2. CASE m = 0
  <2> DEFINE e == [i \in 0..0 |-> <<>>]
  <2>1. e = [i \in 0..m |-> Next(e, i)]
    BY <1>2
  <2> QED BY <1>1, <2>1
<1>3. CASE m # 0
  <2>1. m - 1 \in Nat /\ ~(m <= m - 1)
    BY <1>1, <1>3
  <2>2. Solved(m - 1)
    <3> HIDE DEF Solved
    <3> QED BY <1>1, <2>1
  <2>3. PICK g : g = [i \in 0..(m - 1) |-> Next(g, i)]
    BY <2>2
  <2> DEFINE e == [i \in 0..m |-> IF i < m THEN g[i] ELSE Next(g, m)]
  <2>4. ASSUME NEW i \in 0..m PROVE e[i] = Next(e, i)
    <3>1. CASE i = 0
      BY <1>3, <2>1, <2>3, <3>1
    <3>2. CASE i # 0
      <4>1. i - 1 \in 0..m /\ i - 1 < m /\ e[i - 1] = g[i - 1]
        BY <2>1, <3>2
      <4>2. Next(e, i) = Next(g, i)
        BY <3>2, <4>1
      <4>3. i < m => g[i] = Next(g, i)
        <5> SUFFICES ASSUME i < m PROVE g[i] = Next(g, i)
          OBVIOUS
        <5>1. i \in 0..(m - 1)
          BY <2>1
        <5> HIDE DEF Next
        <5> QED BY <2>3, <5>1
      <4>4. e[i] = IF i < m THEN g[i] ELSE Next(g, m)
        <5> HIDE DEF Next
        <5> QED OBVIOUS
      <4>5. ~(i < m) => i = m
        BY <2>1
      <4> HIDE DEF Next, e
      <4> QED BY <4>2, <4>3, <4>4, <4>5
    <3> QED BY <3>1, <3>2
  <2>5. e = [i \in 0..m |-> Next(e, i)]
    <3>1. e = [i \in 0..m |-> e[i]]
      OBVIOUS
    <3> HIDE DEF e, Next
    <3> QED BY <2>4, <3>1
  <2> HIDE DEF e, Next
  <2>6. Solved(m)
    BY <2>5
  <2> HIDE DEF Solved
  <2> QED BY <1>1, <2>6
<1> QED BY <1>2, <1>3

LEMMA KeptUnfolds ==
  ASSUME NEW U, NEW list \in Seq(U), NEW S
  PROVE  /\ DOMAIN Kept(list, S) = 0..Len(list)
         /\ Kept(list, S)[0] = <<>>
         /\ \A i \in 1..Len(list) :
              Kept(list, S)[i] = IF list[i] \in S THEN Kept(list, S)[i - 1]
                                 ELSE Append(Kept(list, S)[i - 1], list[i])
<1> DEFINE d == Kept(list, S)
<1>1. Len(list) \in Nat
  OBVIOUS
<1>2. d = [i \in 0..Len(list) |-> IF i = 0 THEN <<>> ELSE IF list[i] \in S THEN d[i - 1]
                                  ELSE Append(d[i - 1], list[i])]
  <2>1. \E f : IsKept(f, list, S, Len(list))
    BY <1>1, KeptExists
  <2> QED BY <2>1 DEF Kept, IsKept
<1> HIDE DEF d
<1>3. DOMAIN d = 0..Len(list) /\ d[0] = <<>>
  BY <1>1, <1>2
<1>4. ASSUME NEW i \in 1..Len(list)
      PROVE  d[i] = IF list[i] \in S THEN d[i - 1] ELSE Append(d[i - 1], list[i])
  <2>1. i \in 0..Len(list) /\ i # 0
    BY <1>1
  <2> QED BY <1>2, <2>1
<1> QED BY <1>3, <1>4 DEF d

\* The members that are not in S stay, and none of them twice that was not there twice.
THEOREM DroppedFacts ==
  ASSUME NEW U, NEW list \in Seq(U), NEW S
  PROVE  /\ Dropped(list, S) \in Seq(U)
         /\ \A x : (\E i \in DOMAIN Dropped(list, S) : Dropped(list, S)[i] = x)
                   <=> x \notin S /\ \E i \in DOMAIN list : list[i] = x
         /\ (\A i, j \in DOMAIN list : list[i] = list[j] => i = j)
              => \A i, j \in DOMAIN Dropped(list, S) :
                   Dropped(list, S)[i] = Dropped(list, S)[j] => i = j
<1> DEFINE d == Kept(list, S)
           Once == \A i, j \in DOMAIN list : list[i] = list[j] => i = j
           Typed(m)  == d[m] \in Seq(U)
           Holds(m)  == \A x : (\E i \in DOMAIN d[m] : d[m][i] = x)
                               <=> x \notin S /\ \E i \in 1..m : list[i] = x
           Single(m) == Once => \A i, j \in DOMAIN d[m] : d[m][i] = d[m][j] => i = j
           Good(m) == Typed(m) /\ Holds(m) /\ Single(m)
           T == {m \in 0..Len(list) : ~Good(m)}
<1>1. /\ Len(list) \in Nat /\ DOMAIN list = 1..Len(list)
      /\ \A i \in 1..Len(list) : list[i] \in U
  OBVIOUS
<1>2. /\ d[0] = <<>>
      /\ \A i \in 1..Len(list) : d[i] = IF list[i] \in S THEN d[i - 1] ELSE Append(d[i - 1], list[i])
  BY KeptUnfolds
<1> HIDE DEF d
<1>3. Good(0)
  BY <1>2
<1>4. ASSUME NEW m \in 1..Len(list), Good(m - 1) PROVE Good(m)
  <2>0. /\ m \in Nat /\ m > 0 /\ list[m] \in U /\ m \in DOMAIN list
        /\ \A i : i \in 1..m <=> i \in 1..(m - 1) \/ i = m
    BY <1>1
  <2>1. CASE list[m] \in S
    <3>1. d[m] = d[m - 1]
      BY <1>2, <2>1
    <3> HIDE DEF Once
    <3> QED BY <1>4, <2>0, <2>1, <3>1
  <2>2. CASE list[m] \notin S
    <3> DEFINE e == d[m - 1]
               k == Len(e)
    <3>1. d[m] = Append(e, list[m]) /\ e \in Seq(U)
      BY <1>2, <1>4, <2>2
    <3> HIDE DEF e
    <3>2. /\ k \in Nat /\ DOMAIN e = 1..k /\ DOMAIN d[m] = 1..(k + 1)
          /\ d[m][k + 1] = list[m] /\ \A i \in 1..k : d[m][i] = e[i]
          /\ d[m] \in Seq(U)
      BY <2>0, <3>1
    <3>3. \A i : i \in DOMAIN d[m] <=> i \in DOMAIN e \/ i = k + 1
      BY <3>2
    <3>4. /\ \A x : (\E i \in DOMAIN e : e[i] = x) <=> x \notin S /\ \E i \in 1..(m - 1) : list[i] = x
          /\ Once => \A i, j \in DOMAIN e : e[i] = e[j] => i = j
      BY <1>4 DEF e
    <3> HIDE DEF k
    <3>5. Holds(m)
      <4> SUFFICES ASSUME NEW x
                   PROVE  (\E i \in DOMAIN d[m] : d[m][i] = x)
                            <=> x \notin S /\ \E i \in 1..m : list[i] = x
        OBVIOUS
      <4>1. (\E i \in DOMAIN d[m] : d[m][i] = x) <=> (\E i \in DOMAIN e : e[i] = x) \/ x = list[m]
        BY <3>2, <3>3
      <4>2. (\E i \in 1..m : list[i] = x) <=> (\E i \in 1..(m - 1) : list[i] = x) \/ x = list[m]
        BY <2>0
      <4> QED BY <2>2, <3>4, <4>1, <4>2
    <3>6. Single(m)
      <4> SUFFICES ASSUME Once, NEW i \in DOMAIN d[m], NEW j \in DOMAIN d[m], d[m][i] = d[m][j]
                   PROVE  i = j
        BY DEF Once
      <4>1. \A a \in DOMAIN e : e[a] # list[m]
        <5> SUFFICES ASSUME NEW a \in DOMAIN e, e[a] = list[m] PROVE FALSE
          OBVIOUS
        <5>1. PICK b \in 1..(m - 1) : list[b] = list[m]
          BY <3>4
        <5> QED BY <1>1, <2>0, <5>1
      <4> HIDE DEF Once
      <4> QED BY <3>2, <3>3, <3>4, <4>1
    <3> QED BY <3>2, <3>5, <3>6
  <2> QED BY <2>1, <2>2
<1> HIDE DEF Good
<1>5. Good(Len(list))
  <2> SUFFICES ASSUME T # {} PROVE FALSE
    BY <1>1
  <2>1. PICK m \in T : \A k \in T : m <= k
    <3>1. T \subseteq Nat
      BY <1>1
    <3> QED BY <3>1, LeastMember
  <2>2. m \in 1..Len(list) /\ m - 1 \in 0..Len(list) /\ m - 1 \notin T
    BY <1>1, <1>3, <2>1
  <2> QED BY <1>4, <2>1, <2>2
<1> QED BY <1>1, <1>5 DEF Good, d, Dropped

=============================================================================
