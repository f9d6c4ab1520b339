----------------------- MODULE RelayPoolStatus_proofs -----------------------
(***************************************************************************)
(* RelayPool implements StatusBoard when every url is served by one task,  *)
(* for any number of relays and any capacity of the channels.              *)
(***************************************************************************)
EXTENDS RelayPoolStatus, RelayPoolSafety_proofs, FiniteSetTheorems

\* No relay is added twice under one url.
OneTaskPerUrl == \A t \in Task : Sole(t)

-----------------------------------------------------------------------------
(* The positions of a set, in their order. *)

LEMMA RankBounds ==
    ASSUME NEW S \in SUBSET Nat, IsFiniteSet(S)
    PROVE  /\ Cardinality(S) \in Nat
           /\ \A i \in Nat : IsFiniteSet({j \in S : j <= i}) /\ Rank(S, i) \in 0 .. Cardinality(S)
           /\ \A i \in S : Rank(S, i) \in 1 .. Cardinality(S)
           /\ \A i, k \in S : i < k => Rank(S, i) < Rank(S, k)
<1>1. Cardinality(S) \in Nat BY FS_CardinalityType
<1>2. ASSUME NEW i \in Nat
      PROVE  IsFiniteSet({j \in S : j <= i}) /\ Rank(S, i) \in 0 .. Cardinality(S)
  <2> DEFINE L == {j \in S : j <= i}
  <2>1. L \in SUBSET S OBVIOUS
  <2> HIDE DEF L
  <2>2. IsFiniteSet(L) /\ Cardinality(L) <= Cardinality(S) BY <2>1, FS_Subset
  <2>3. Cardinality(L) \in Nat BY <2>2, FS_CardinalityType
  <2>4. Cardinality(L) \in 0 .. Cardinality(S) BY <1>1, <2>2, <2>3
  <2>5. QED BY <2>2, <2>4 DEF Rank, L
<1>3. ASSUME NEW i \in S PROVE Rank(S, i) \in 1 .. Cardinality(S)
  <2>1. i \in {j \in S : j <= i} OBVIOUS
  <2>2. Rank(S, i) # 0
    <3>1. IsFiniteSet({j \in S : j <= i}) BY <1>2
    <3>2. QED BY <2>1, <3>1, FS_EmptySet DEF Rank
  <2>3. i \in Nat OBVIOUS
  <2>4. Rank(S, i) \in 0 .. Cardinality(S) BY <1>2, <2>3
  <2>5. QED BY <1>1, <2>2, <2>4
<1>4. ASSUME NEW i \in S, NEW k \in S, i < k PROVE Rank(S, i) < Rank(S, k)
  <2> DEFINE L == {j \in S : j <= i}
             H == {j \in S : j <= k}
  <2>0. i \in Nat /\ k \in Nat /\ \A j \in S : j \in Nat OBVIOUS
  <2>1. k \notin L /\ L \cup {k} \in SUBSET H
    <3>1. ~(k <= i) /\ k <= k BY <1>4, <2>0
    <3>2. \A j \in S : j <= i => j <= k BY <1>4, <2>0
    <3>3. QED BY <3>1, <3>2
  <2>2. IsFiniteSet(L) /\ IsFiniteSet(H) /\ Rank(S, i) = Cardinality(L) /\ Rank(S, k) = Cardinality(H)
    BY <1>2, <2>0 DEF Rank
  <2> HIDE DEF L, H
  <2>3. Cardinality(L \cup {k}) = Cardinality(L) + 1 BY <2>1, <2>2, FS_AddElement
  <2>4. Cardinality(L \cup {k}) <= Cardinality(H) BY <2>1, <2>2, FS_Subset
  <2>5. Cardinality(L) \in Nat /\ Cardinality(H) \in Nat BY <2>2, FS_CardinalityType
  <2>6. QED BY <2>2, <2>3, <2>4, <2>5
<1>5. QED BY <1>1, <1>2, <1>3, <1>4

\* Every position has a rank of its own, and every rank its position.
LEMMA NthOfRank ==
    ASSUME NEW S \in SUBSET Nat, IsFiniteSet(S)
    PROVE  /\ \A i \in S : Nth(S, Rank(S, i)) = i
           /\ \A n \in 1 .. Cardinality(S) : Nth(S, n) \in S /\ Rank(S, Nth(S, n)) = n
<1> DEFINE m == Cardinality(S)
           rank == [i \in S |-> Rank(S, i)]
<1>1. m \in Nat BY RankBounds
<1>2. \A i, k \in S : Rank(S, i) = Rank(S, k) => i = k
  <2> SUFFICES ASSUME NEW i \in S, NEW k \in S, Rank(S, i) = Rank(S, k), i # k PROVE FALSE
    OBVIOUS
  <2>1. i \in Nat /\ k \in Nat OBVIOUS
  <2>2. i < k \/ k < i BY <2>1
  <2>3. Rank(S, i) \in Nat /\ Rank(S, k) \in Nat BY <2>1, RankBounds
  <2>4. Rank(S, i) < Rank(S, k) \/ Rank(S, k) < Rank(S, i) BY <2>2, RankBounds
  <2>5. QED BY <2>3, <2>4
<1>3. rank \in [S -> 1 .. m] BY RankBounds
<1>4. rank \in Injection(S, 1 .. m) BY <1>2, <1>3 DEF Injection, IsInjective
<1>5. IsFiniteSet(1 .. m) /\ Cardinality(1 .. m) = m BY <1>1, FS_Interval
<1>6. rank \in Surjection(S, 1 .. m)
  <2> HIDE DEF m, rank
  <2>1. Cardinality(S) = Cardinality(1 .. m) BY <1>5 DEF m
  <2>2. QED BY <1>4, <1>5, <2>1, FS_Injection
<1>7. \A n \in 1 .. m : \E i \in S : Rank(S, i) = n BY <1>6 DEF Surjection
<1>8. QED BY <1>2, <1>7 DEF Nth

\* A position after all the others is the last one.
LEMMA NthAdded ==
    ASSUME NEW S \in SUBSET Nat, IsFiniteSet(S), NEW m \in Nat, \A i \in S : i < m
    PROVE  LET T == S \cup {m} IN
           /\ T \in SUBSET Nat /\ IsFiniteSet(T) /\ Cardinality(T) = Cardinality(S) + 1
           /\ \A n \in 1 .. Cardinality(S) : Nth(T, n) = Nth(S, n)
           /\ Nth(T, Cardinality(S) + 1) = m
<1> DEFINE T == S \cup {m}
<1>1. m \notin S OBVIOUS
<1>2. T \in SUBSET Nat /\ IsFiniteSet(T) /\ Cardinality(T) = Cardinality(S) + 1
  BY <1>1, FS_AddElement
<1>3. ASSUME NEW i \in S PROVE Rank(T, i) = Rank(S, i)
  <2>1. {j \in T : j <= i} = {j \in S : j <= i} OBVIOUS
  <2>2. QED BY <2>1 DEF Rank
<1>4. Rank(T, m) = Cardinality(S) + 1
  <2>1. \A j \in T : j <= m
    <3>1. \A j \in S : j \in Nat /\ j <= m OBVIOUS
    <3>2. QED BY <3>1
  <2> HIDE DEF T
  <2>2. {j \in T : j <= m} = T BY <2>1
  <2>3. QED BY <1>2, <2>2 DEF Rank
<1>5. ASSUME NEW n \in 1 .. Cardinality(S) PROVE Nth(T, n) = Nth(S, n)
  <2>1. Nth(S, n) \in S /\ Rank(S, Nth(S, n)) = n BY NthOfRank
  <2>2. Nth(S, n) \in T /\ Rank(T, Nth(S, n)) = n BY <1>3, <2>1
  <2> HIDE DEF T
  <2>3. QED BY <1>2, <2>2, NthOfRank
<1>6. m \in T OBVIOUS
<1>7. Nth(T, Cardinality(S) + 1) = m
  <2> HIDE DEF T
  <2>1. QED BY <1>2, <1>4, <1>6, NthOfRank
<1>8. QED BY <1>2, <1>5, <1>7

\* The positions when the first element of the sequence is taken.
Moved(S) == {i \in Nat : i # 0 /\ i + 1 \in S}

LEMMA NthMoved ==
    ASSUME NEW S \in SUBSET (Nat \ {0}), IsFiniteSet(S), 1 \notin S
    PROVE  /\ Moved(S) \in SUBSET Nat /\ IsFiniteSet(Moved(S))
           /\ Cardinality(Moved(S)) = Cardinality(S)
           /\ \A n \in 1 .. Cardinality(S) : Nth(Moved(S), n) + 1 = Nth(S, n)
<1>1. ASSUME NEW U \in SUBSET S, NEW V, V = {i \in Nat : i # 0 /\ i + 1 \in U}
      PROVE  IsFiniteSet(V) /\ Cardinality(V) = Cardinality(U)
  <2> DEFINE back == [i \in U |-> i - 1]
  <2>1. IsFiniteSet(U) BY FS_Subset
  <2>2. \A i \in U : i \in Nat /\ i - 1 \in Nat /\ i - 1 # 0 /\ (i - 1) + 1 = i OBVIOUS
  <2>3. back \in [U -> V] BY <1>1, <2>2
  <2>4. \A i, k \in U : back[i] = back[k] => i = k BY <2>2
  <2>5. \A k \in V : k + 1 \in U /\ back[k + 1] = k BY <1>1
  <2> HIDE DEF back
  <2>6. back \in Injection(U, V) BY <2>3, <2>4 DEF Injection, IsInjective
  <2>7. back \in Surjection(U, V) BY <2>3, <2>5 DEF Surjection
  <2>8. ExistsBijection(U, V) BY <2>6, <2>7 DEF ExistsBijection, Bijection
  <2>9. QED BY <2>1, <2>8, FS_Bijection
<1>2. IsFiniteSet(Moved(S)) /\ Cardinality(Moved(S)) = Cardinality(S) BY <1>1 DEF Moved
<1>3. Moved(S) \in SUBSET Nat /\ S \in SUBSET Nat BY DEF Moved
<1>4. ASSUME NEW i \in Moved(S) PROVE i + 1 \in S /\ Rank(S, i + 1) = Rank(Moved(S), i)
  <2> DEFINE U == {j \in S : j <= i + 1}
             V == {j \in Moved(S) : j <= i}
  <2>1. i \in Nat /\ i + 1 \in S BY DEF Moved
  <2>2. V = {j \in Nat : j # 0 /\ j + 1 \in U} BY <2>1 DEF Moved
  <2>3. U \in SUBSET S OBVIOUS
  <2> HIDE DEF U, V
  <2>4. Cardinality(V) = Cardinality(U) BY <1>1, <2>2, <2>3
  <2>5. QED BY <2>1, <2>4 DEF Rank, U, V
<1>5. ASSUME NEW n \in 1 .. Cardinality(S) PROVE Nth(Moved(S), n) + 1 = Nth(S, n)
  <2>1. /\ Nth(Moved(S), n) \in Moved(S)
        /\ Rank(Moved(S), Nth(Moved(S), n)) = n
    BY <1>2, <1>3, NthOfRank
  <2> DEFINE k == Nth(Moved(S), n) + 1
  <2>2. k \in S /\ Rank(S, k) = n BY <1>4, <2>1
  <2> HIDE DEF k
  <2>3. Nth(S, n) = k BY <1>3, <2>2, NthOfRank
  <2>4. QED BY <2>3 DEF k
<1>6. QED BY <1>2, <1>3, <1>5

\* Of a set with 1, the others come one rank later.
LEMMA NthFirst ==
    ASSUME NEW S \in SUBSET (Nat \ {0}), IsFiniteSet(S), 1 \in S
    PROVE  /\ IsFiniteSet(S \ {1}) /\ Cardinality(S) = Cardinality(S \ {1}) + 1
           /\ Nth(S, 1) = 1
           /\ \A n \in 1 .. Cardinality(S \ {1}) : Nth(S, n + 1) = Nth(S \ {1}, n)
<1> DEFINE T == S \ {1}
<1>1. /\ IsFiniteSet(T) /\ Cardinality(T) = Cardinality(S) - 1
      /\ T \in SUBSET Nat /\ S \in SUBSET Nat
  BY FS_RemoveElement
<1>2. Cardinality(S) \in Nat BY FS_CardinalityType
<1>3. ASSUME NEW i \in T PROVE Rank(S, i) = Rank(T, i) + 1
  <2> DEFINE L == {j \in T : j <= i}
  <2>1. {j \in S : j <= i} = L \cup {1} /\ 1 \notin L OBVIOUS
  <2>2. IsFiniteSet(L) BY <1>1, RankBounds
  <2> HIDE DEF L
  <2>3. Cardinality(L \cup {1}) = Cardinality(L) + 1 BY <2>1, <2>2, FS_AddElement
  <2>4. QED BY <2>1, <2>3 DEF Rank, L
<1>4. Rank(S, 1) = 1
  <2>1. {j \in S : j <= 1} = {1}
    <3>1. \A j \in S : j \in Nat \ {0} OBVIOUS
    <3>2. \A j \in Nat \ {0} : j <= 1 <=> j = 1 OBVIOUS
    <3>3. QED BY <3>1, <3>2
  <2>2. QED BY <2>1, FS_Singleton DEF Rank
<1>5. Nth(S, 1) = 1 BY <1>1, <1>4, NthOfRank
<1>6. ASSUME NEW n \in 1 .. Cardinality(T) PROVE Nth(S, n + 1) = Nth(T, n)
  <2> HIDE DEF T
  <2>1. Nth(T, n) \in T /\ Rank(T, Nth(T, n)) = n BY <1>1, NthOfRank
  <2>2. Nth(T, n) \in S /\ Rank(S, Nth(T, n)) = n + 1 BY <1>3, <2>1 DEF T
  <2>3. QED BY <1>1, <2>2, NthOfRank
<1>7. Cardinality(S) = Cardinality(T) + 1 BY <1>1, <1>2
<1>8. QED BY <1>1, <1>5, <1>6, <1>7

-----------------------------------------------------------------------------
(* The events of one url in the channel. *)

LEMMA PositionsTypes ==
    ASSUME NEW q \in Seq(RelayToPool), NEW u
    PROVE  /\ Positions(q, u) \in SUBSET (Nat \ {0}) /\ Positions(q, u) \in SUBSET Nat
           /\ IsFiniteSet(Positions(q, u)) /\ Cardinality(Positions(q, u)) \in Nat
           /\ \A i \in Positions(q, u) : i < Len(q) + 1
<1>1. Len(q) \in Nat /\ DOMAIN q = 1 .. Len(q) OBVIOUS
<1>2. Positions(q, u) \in SUBSET (1 .. Len(q)) BY <1>1 DEF Positions
<1>3. IsFiniteSet(1 .. Len(q)) BY <1>1, FS_Interval
<1>4. IsFiniteSet(Positions(q, u)) BY <1>2, <1>3, FS_Subset
<1>5. Cardinality(Positions(q, u)) \in Nat BY <1>4, FS_CardinalityType
<1>6. \A i \in 1 .. Len(q) : i \in Nat \ {0} /\ i < Len(q) + 1 BY <1>1
<1>7. QED BY <1>2, <1>4, <1>5, <1>6

LEMMA BehindTypes ==
    ASSUME NEW q \in Seq(RelayToPool), NEW u
    PROVE  /\ Behind(q, u) \in Seq(RelayStatus)
           /\ Len(Behind(q, u)) = Cardinality(Positions(q, u))
           /\ \A n \in 1 .. Cardinality(Positions(q, u)) :
                  /\ Nth(Positions(q, u), n) \in DOMAIN q
                  /\ Behind(q, u)[n] = set_status(q[Nth(Positions(q, u), n)].event)
<1> DEFINE S == Positions(q, u)
           m == Cardinality(S)
<1>1. S \in SUBSET Nat /\ IsFiniteSet(S) /\ m \in Nat BY PositionsTypes
<1>2. S \in SUBSET DOMAIN q BY DEF Positions
<1>3. Behind(q, u) = [n \in 1 .. m |-> set_status(q[Nth(S, n)].event)] BY DEF Behind
<1> HIDE DEF S
<1>4. ASSUME NEW n \in 1 .. m
      PROVE  Nth(S, n) \in DOMAIN q /\ set_status(q[Nth(S, n)].event) \in RelayStatus
  <2>1. Nth(S, n) \in S BY <1>1, NthOfRank
  <2>2. Nth(S, n) \in DOMAIN q BY <1>2, <2>1
  <2>3. q[Nth(S, n)] \in RelayToPool BY <2>2
  <2>4. QED BY <2>2, <2>3, StatusIsState DEF RelayToPool
<1>5. Behind(q, u) \in [1 .. m -> RelayStatus] BY <1>3, <1>4
<1> HIDE DEF m
<1>6. Behind(q, u) \in Seq(RelayStatus) /\ Len(Behind(q, u)) = m BY <1>1, <1>5
<1>7. QED BY <1>3, <1>4, <1>6 DEF S, m

\* Two channels with the same events of a url.
LEMMA BehindEqual ==
    ASSUME NEW s \in Seq(RelayStatus), NEW r \in Seq(RelayStatus), Len(s) = Len(r),
           \A n \in 1 .. Len(s) : s[n] = r[n]
    PROVE  s = r
OBVIOUS

LEMMA BehindAppend ==
    ASSUME NEW q \in Seq(RelayToPool), NEW e \in RelayToPool
    PROVE  Behind(Append(q, e), e.url) = Append(Behind(q, e.url), set_status(e.event))
<1> DEFINE p == Append(q, e)
           u == e.url
           S == Positions(q, u)
           T == Positions(p, u)
           m == Cardinality(S)
           s == set_status(e.event)
<1>1. /\ p \in Seq(RelayToPool) /\ DOMAIN p = 1 .. (Len(q) + 1) /\ DOMAIN q = 1 .. Len(q)
      /\ p[Len(q) + 1] = e /\ \A i \in DOMAIN q : p[i] = q[i]
      /\ Len(q) \in Nat
  OBVIOUS
<1>2. T = S \cup {Len(q) + 1}
  <2>1. \A i \in DOMAIN p : i = Len(q) + 1 \/ i \in DOMAIN q BY <1>1
  <2>2. \A i \in DOMAIN q : i \in DOMAIN p BY <1>1
  <2>3. Len(q) + 1 \in DOMAIN p BY <1>1
  <2> HIDE DEF p, u
  <2>4. QED BY <1>1, <2>1, <2>2, <2>3 DEF Positions, u
<1>3. s \in RelayStatus BY StatusIsState DEF RelayToPool
<1>4. /\ S \in SUBSET Nat /\ IsFiniteSet(S) /\ m \in Nat /\ Len(q) + 1 \in Nat
      /\ \A i \in S : i < Len(q) + 1
  BY <1>1, PositionsTypes
<1>5. /\ Behind(q, u) \in Seq(RelayStatus) /\ Len(Behind(q, u)) = m
      /\ \A n \in 1 .. m : Nth(S, n) \in DOMAIN q /\ Behind(q, u)[n] = set_status(q[Nth(S, n)].event)
  BY BehindTypes
<1> HIDE DEF p
<1>6. /\ Behind(p, u) \in Seq(RelayStatus) /\ Len(Behind(p, u)) = Cardinality(T)
      /\ \A n \in 1 .. Cardinality(T) : Behind(p, u)[n] = set_status(p[Nth(T, n)].event)
  BY <1>1, BehindTypes
<1> HIDE DEF u, S, T
<1>7. /\ Cardinality(T) = m + 1
      /\ \A n \in 1 .. m : Nth(T, n) = Nth(S, n)
      /\ Nth(T, m + 1) = Len(q) + 1
  BY <1>2, <1>4, NthAdded
<1> HIDE DEF m, s
<1> DEFINE b == Append(Behind(q, u), s)
<1>8. /\ b \in Seq(RelayStatus) /\ Len(b) = m + 1 /\ b[m + 1] = s
      /\ \A n \in 1 .. m : b[n] = Behind(q, u)[n]
  BY <1>3, <1>4, <1>5
<1> HIDE DEF b
<1>9. ASSUME NEW n \in 1 .. (m + 1) PROVE Behind(p, u)[n] = b[n]
  <2>1. Behind(p, u)[n] = set_status(p[Nth(T, n)].event) BY <1>6, <1>7
  <2>2. CASE n \in 1 .. m
    <3>1. Nth(T, n) = Nth(S, n) /\ Nth(S, n) \in DOMAIN q BY <1>5, <1>7, <2>2
    <3>2. p[Nth(T, n)] = q[Nth(S, n)] BY <1>1, <3>1
    <3>3. QED BY <1>5, <1>8, <2>1, <2>2, <3>2
  <2>3. CASE n = m + 1
    <3>1. p[Nth(T, n)] = e BY <1>1, <1>7, <2>3
    <3>2. QED BY <1>8, <2>1, <2>3, <3>1 DEF s
  <2>4. n \in 1 .. m \/ n = m + 1 BY <1>4
  <2>5. QED BY <2>2, <2>3, <2>4
<1>10. Behind(p, u) = b
  <2>1. Len(Behind(p, u)) = m + 1 BY <1>6, <1>7
  <2>2. QED BY <1>6, <1>8, <1>9, <2>1, BehindEqual
<1>11. QED BY <1>10 DEF b, p, u, s

LEMMA BehindAppendOther ==
    ASSUME NEW q \in Seq(RelayToPool), NEW e \in RelayToPool, NEW u, e.url # u
    PROVE  Behind(Append(q, e), u) = Behind(q, u)
<1> DEFINE p == Append(q, e)
           S == Positions(q, u)
           m == Cardinality(S)
<1>1. /\ p \in Seq(RelayToPool) /\ DOMAIN p = 1 .. (Len(q) + 1) /\ DOMAIN q = 1 .. Len(q)
      /\ p[Len(q) + 1] = e /\ \A i \in DOMAIN q : p[i] = q[i]
      /\ Len(q) \in Nat
  OBVIOUS
<1>2. Positions(p, u) = S
  <2>1. \A i \in DOMAIN p : i = Len(q) + 1 \/ i \in DOMAIN q BY <1>1
  <2>2. \A i \in DOMAIN q : i \in DOMAIN p BY <1>1
  <2> HIDE DEF p
  <2>3. QED BY <1>1, <2>1, <2>2 DEF Positions
<1>3. /\ Behind(q, u) \in Seq(RelayStatus) /\ Len(Behind(q, u)) = m
      /\ \A n \in 1 .. m : Nth(S, n) \in DOMAIN q /\ Behind(q, u)[n] = set_status(q[Nth(S, n)].event)
  BY BehindTypes
<1> HIDE DEF p
<1>4. /\ Behind(p, u) \in Seq(RelayStatus) /\ Len(Behind(p, u)) = m
      /\ \A n \in 1 .. m : Behind(p, u)[n] = set_status(p[Nth(S, n)].event)
  <2> HIDE DEF S, m
  <2>1. Cardinality(Positions(p, u)) = m BY <1>2 DEF m
  <2>2. QED BY <1>1, <1>2, <2>1, BehindTypes
<1> HIDE DEF S, m
<1>5. \A n \in 1 .. m : Behind(p, u)[n] = Behind(q, u)[n] BY <1>1, <1>3, <1>4
<1>6. QED BY <1>3, <1>4, <1>5, BehindEqual DEF p

\* The channel without its first event.
LEMMA PositionsOfTail ==
    ASSUME NEW q \in Seq(RelayToPool), q # <<>>, NEW u
    PROVE  /\ Tail(q) \in Seq(RelayToPool)
           /\ \A i \in DOMAIN Tail(q) : Tail(q)[i] = q[i + 1]
           /\ Positions(Tail(q), u) = Moved(Positions(q, u) \ {1})
           /\ 1 \in Positions(q, u) <=> Head(q).url = u
<1> DEFINE p == Tail(q)
<1>1. /\ p \in Seq(RelayToPool) /\ DOMAIN q = 1 .. Len(q) /\ DOMAIN p = 1 .. (Len(q) - 1)
      /\ Len(q) \in Nat \ {0} /\ Head(q) = q[1]
      /\ \A i \in DOMAIN p : p[i] = q[i + 1]
  OBVIOUS
<1>2. \A i \in Nat : i \in DOMAIN p <=> i # 0 /\ i + 1 \in DOMAIN q BY <1>1
<1>3. \A i \in Nat : i # 0 => i + 1 # 1 OBVIOUS
<1>4. DOMAIN p \in SUBSET Nat BY <1>1
<1>5. 1 \in DOMAIN q BY <1>1
<1> HIDE DEF p
<1>6. Positions(p, u) = Moved(Positions(q, u) \ {1})
  BY <1>1, <1>2, <1>3, <1>4 DEF Positions, Moved
<1>7. 1 \in Positions(q, u) <=> Head(q).url = u BY <1>1, <1>5 DEF Positions
<1>8. QED BY <1>1, <1>6, <1>7 DEF p

\* The first event is one of u's.
LEMMA BehindTail ==
    ASSUME NEW q \in Seq(RelayToPool), q # <<>>
    PROVE  LET u == Head(q).url IN
           /\ Behind(q, u) # <<>>
           /\ Head(Behind(q, u)) = set_status(Head(q).event)
           /\ Behind(Tail(q), u) = Tail(Behind(q, u))
<1> DEFINE u == Head(q).url
           p == Tail(q)
           S == Positions(q, u)
           R == S \ {1}
           T == Positions(p, u)
           m == Cardinality(R)
<1>1. /\ p \in Seq(RelayToPool) /\ T = Moved(R) /\ 1 \in S
      /\ \A i \in DOMAIN p : p[i] = q[i + 1]
  BY PositionsOfTail
<1>2. S \in SUBSET (Nat \ {0}) /\ IsFiniteSet(S) BY PositionsTypes
<1>3. Head(q) = q[1] OBVIOUS
<1>4. /\ Behind(q, u) \in Seq(RelayStatus) /\ Len(Behind(q, u)) = Cardinality(S)
      /\ \A n \in 1 .. Cardinality(S) : Behind(q, u)[n] = set_status(q[Nth(S, n)].event)
  BY BehindTypes
<1> HIDE DEF p
<1>5. /\ Behind(p, u) \in Seq(RelayStatus) /\ Len(Behind(p, u)) = Cardinality(T)
      /\ \A n \in 1 .. Cardinality(T) :
             Nth(T, n) \in DOMAIN p /\ Behind(p, u)[n] = set_status(p[Nth(T, n)].event)
  BY <1>1, BehindTypes
<1> HIDE DEF u, S, T
<1>6. /\ IsFiniteSet(R) /\ Cardinality(S) = m + 1 /\ Nth(S, 1) = 1
      /\ \A n \in 1 .. m : Nth(S, n + 1) = Nth(R, n)
  BY <1>1, <1>2, NthFirst
<1>7. m \in Nat BY <1>6, FS_CardinalityType
<1>8. R \in SUBSET (Nat \ {0}) /\ 1 \notin R BY <1>2
<1> HIDE DEF R
<1>9. Cardinality(T) = m /\ \A n \in 1 .. m : Nth(T, n) + 1 = Nth(R, n)
  BY <1>1, <1>6, <1>8, NthMoved
<1> HIDE DEF m
<1>10. /\ Behind(q, u) # <<>> /\ Head(Behind(q, u)) = Behind(q, u)[1]
       /\ Tail(Behind(q, u)) \in Seq(RelayStatus) /\ Len(Tail(Behind(q, u))) = m
       /\ \A n \in 1 .. m : Tail(Behind(q, u))[n] = Behind(q, u)[n + 1]
  <2> DEFINE b == Behind(q, u)
  <2>1. b \in Seq(RelayStatus) /\ Len(b) = m + 1 BY <1>4, <1>6
  <2> HIDE DEF b
  <2>2. /\ b # <<>> /\ Head(b) = b[1]
        /\ Tail(b) \in Seq(RelayStatus) /\ Len(Tail(b)) = m
        /\ \A n \in 1 .. m : Tail(b)[n] = b[n + 1]
    BY <1>7, <2>1
  <2>3. QED BY <2>2 DEF b
<1>11. Head(Behind(q, u)) = set_status(Head(q).event)
  <2>1. 1 \in 1 .. Cardinality(S) BY <1>6, <1>7
  <2>2. QED BY <1>3, <1>4, <1>6, <1>10, <2>1
<1>12. ASSUME NEW n \in 1 .. m PROVE Behind(p, u)[n] = Tail(Behind(q, u))[n]
  <2>1. n + 1 \in 1 .. Cardinality(S) BY <1>6, <1>7
  <2>2. Nth(S, n + 1) = Nth(T, n) + 1 BY <1>6, <1>9
  <2>3. Behind(q, u)[n + 1] = set_status(q[Nth(T, n) + 1].event) BY <1>4, <2>1, <2>2
  <2>4. Nth(T, n) \in DOMAIN p /\ Behind(p, u)[n] = set_status(p[Nth(T, n)].event)
    BY <1>5, <1>9
  <2>5. p[Nth(T, n)] = q[Nth(T, n) + 1] BY <1>1, <2>4
  <2>6. Tail(Behind(q, u))[n] = Behind(q, u)[n + 1] BY <1>10
  <2>7. QED BY <2>3, <2>4, <2>5, <2>6
<1>13. Behind(p, u) = Tail(Behind(q, u))
  <2>1. Len(Behind(p, u)) = m BY <1>5, <1>9
  <2>2. QED BY <1>5, <1>10, <1>12, <2>1, BehindEqual
<1>14. QED BY <1>10, <1>11, <1>13 DEF p, u

\* The first event is not one of u's.
LEMMA BehindTailOther ==
    ASSUME NEW q \in Seq(RelayToPool), q # <<>>, NEW u, Head(q).url # u
    PROVE  Behind(Tail(q), u) = Behind(q, u)
<1> DEFINE p == Tail(q)
           S == Positions(q, u)
           T == Positions(p, u)
           m == Cardinality(S)
<1>1. /\ p \in Seq(RelayToPool) /\ T = Moved(S) /\ 1 \notin S
      /\ \A i \in DOMAIN p : p[i] = q[i + 1]
  <2>1. 1 \notin S BY PositionsOfTail
  <2>2. S \ {1} = S BY <2>1
  <2>3. QED BY <2>1, <2>2, PositionsOfTail
<1>2. S \in SUBSET (Nat \ {0}) /\ IsFiniteSet(S) /\ m \in Nat BY PositionsTypes
<1>3. /\ Behind(q, u) \in Seq(RelayStatus) /\ Len(Behind(q, u)) = m
      /\ \A n \in 1 .. m : Behind(q, u)[n] = set_status(q[Nth(S, n)].event)
  BY BehindTypes
<1> HIDE DEF p
<1>4. /\ Behind(p, u) \in Seq(RelayStatus) /\ Len(Behind(p, u)) = Cardinality(T)
      /\ \A n \in 1 .. Cardinality(T) :
             Nth(T, n) \in DOMAIN p /\ Behind(p, u)[n] = set_status(p[Nth(T, n)].event)
  BY <1>1, BehindTypes
<1> HIDE DEF S, T
<1>5. Cardinality(T) = m /\ \A n \in 1 .. m : Nth(T, n) + 1 = Nth(S, n)
  BY <1>1, <1>2, NthMoved
<1> HIDE DEF m
<1>6. ASSUME NEW n \in 1 .. m PROVE Behind(p, u)[n] = Behind(q, u)[n]
  <2>1. Nth(T, n) \in DOMAIN p /\ Nth(T, n) + 1 = Nth(S, n) BY <1>4, <1>5
  <2>2. p[Nth(T, n)] = q[Nth(S, n)] BY <1>1, <2>1
  <2>3. QED BY <1>3, <1>4, <1>5, <2>2
<1>7. Behind(p, u) = Behind(q, u)
  <2>1. Len(Behind(p, u)) = m BY <1>4, <1>5
  <2>2. QED BY <1>3, <1>4, <1>6, <2>1, BehindEqual
<1>8. QED BY <1>7 DEF p

\* No event of u is in the channel.
LEMMA BehindEmpty ==
    ASSUME NEW q \in Seq(RelayToPool), NEW u, \A i \in DOMAIN q : q[i].url # u
    PROVE  Behind(q, u) = <<>>
<1>1. Positions(q, u) = {} BY DEF Positions
<1>2. Cardinality(Positions(q, u)) = 0 BY <1>1, FS_EmptySet
<1>3. Len(Behind(q, u)) = 0 /\ Behind(q, u) \in Seq(RelayStatus) BY <1>2, BehindTypes
<1>4. QED BY <1>3

-----------------------------------------------------------------------------
(* The steps of the board. *)

Shown == [u \in Url |-> IF Listed(u) THEN listenerStatus[u] ELSE "Unlisted"]
Actual == [u \in Url |-> IF Listed(u) THEN state[relays[u]] ELSE "Unlisted"]
Late == [u \in Url |-> IF Listed(u) THEN Behind(toPool, u) ELSE <<>>]

\* Nothing that the board shows of a listed url changes.
SameAt(u) ==
    Listed(u) =>
        /\ listenerStatus'[u] = listenerStatus[u]
        /\ state'[relays[u]] = state[relays[u]]
        /\ Behind(toPool', u) = Behind(toPool, u)

LEMMA BoardStutters ==
    ASSUME UNCHANGED relays, \A u \in Url : SameAt(u)
    PROVE  UNCHANGED Board!vars
<1>1. \A u \in Url : Listed(u)' <=> Listed(u) BY DEF Listed
<1>2. Shown' = Shown BY <1>1 DEF Shown, SameAt
<1>3. Actual' = Actual BY <1>1 DEF Actual, SameAt, Listed
<1>4. Late' = Late BY <1>1 DEF Late, SameAt
<1>5. QED BY <1>2, <1>3, <1>4 DEF Board!vars, Shown, Actual, Late

LEMMA BoardChanges ==
    ASSUME TypeInv, ListenerInv, NEW u \in Url, Listed(u), NEW s,
           UNCHANGED <<relays, listenerStatus>>,
           s \in Board!Changes[state[relays[u]]],
           state'[relays[u]] = s,
           Behind(toPool', u) = Append(Behind(toPool, u), s),
           \A v \in Url \ {u} : SameAt(v)
    PROVE  Board!Change(u, s)
<1>1. \A v \in Url : Listed(v)' <=> Listed(v) BY DEF Listed
<1>2. Shown' = Shown BY <1>1 DEF Shown
<1>3. Actual' = [Actual EXCEPT ![u] = s] BY <1>1 DEF Actual, SameAt, Listed
<1>4. Late' = [Late EXCEPT ![u] = Append(@, s)] BY <1>1 DEF Late, SameAt
<1>5. Actual[u] = state[relays[u]] BY DEF Actual
<1>6. Actual[u] # "Unlisted" BY <1>5 DEF ListenerInv, Listed, RelayStatus
<1>7. QED
  BY <1>2, <1>3, <1>4, <1>5, <1>6 DEF Board!Change, Board!Unlisted, Shown, Actual, Late

LEMMA BoardShows ==
    ASSUME NEW u \in Url, Listed(u),
           UNCHANGED <<relays, state>>,
           listenerStatus \in [Url -> RelayStatus],
           Behind(toPool, u) # <<>>,
           listenerStatus' = [listenerStatus EXCEPT ![u] = Head(Behind(toPool, u))],
           Behind(toPool', u) = Tail(Behind(toPool, u)),
           \A v \in Url \ {u} : Behind(toPool', v) = Behind(toPool, v)
    PROVE  Board!Show(u)
<1>1. \A v \in Url : Listed(v)' <=> Listed(v) BY DEF Listed
<1>2. Shown' = [Shown EXCEPT ![u] = Head(Behind(toPool, u))] BY <1>1 DEF Shown
<1>3. Actual' = Actual BY <1>1 DEF Actual
<1>4. Late' = [Late EXCEPT ![u] = Tail(@)] BY <1>1 DEF Late
<1>5. Late[u] = Behind(toPool, u) BY DEF Late
<1>6. QED BY <1>2, <1>3, <1>4, <1>5 DEF Board!Show, Shown, Actual, Late

\* A relay is added under a url of which no event is left.
LEMMA BoardLists ==
    ASSUME TypeInv, ListenerInv, NEW t \in Task, NEW u \in Url, ~Listed(u), t # NoTask,
           state[t] = "Unspawned", state' = [state EXCEPT ![t] = "Disconnected"],
           relays' = [relays EXCEPT ![u] = t],
           listenerStatus' = [listenerStatus EXCEPT ![u] = "Disconnected"],
           UNCHANGED toPool, Behind(toPool, u) = <<>>
    PROVE  Board!List(u)
<1>1. /\ relays \in [Url -> Task \cup {NoTask}] /\ listenerStatus \in [Url -> RelayStatus]
      /\ state \in [Task -> RelayStatus \cup {"Unspawned", "Ended"}]
  BY DEF TypeInv, TypeOK, RelayTypeOK
<1>2. relays'[u] = t /\ Listed(u)' /\ \A v \in Url \ {u} : relays'[v] = relays[v]
  BY <1>1 DEF Listed
<1>3. \A v \in Url \ {u} : Listed(v)' <=> Listed(v) BY <1>2 DEF Listed
<1>4. \A v \in Url \ {u} : Listed(v) => state'[relays[v]] = state[relays[v]]
  <2>1. \A v \in Url : Listed(v) => relays[v] \in Task /\ state[relays[v]] # "Unspawned"
    BY <1>1 DEF ListenerInv, Listed, RelayStatus
  <2>2. QED BY <1>1, <2>1
<1>5. /\ state'[t] = "Disconnected" /\ listenerStatus'[u] = "Disconnected"
      /\ \A v \in Url \ {u} : listenerStatus'[v] = listenerStatus[v]
  BY <1>1
<1>6. Shown' = [Shown EXCEPT ![u] = "Disconnected"]
  <2>1. Shown'[u] = "Disconnected" BY <1>2, <1>5 DEF Shown
  <2>2. \A v \in Url \ {u} : Shown'[v] = Shown[v] BY <1>3, <1>5 DEF Shown
  <2>3. Shown = [v \in Url |-> Shown[v]] /\ Shown' = [v \in Url |-> Shown'[v]] BY DEF Shown
  <2>4. QED BY <2>1, <2>2, <2>3
<1>7. Actual' = [Actual EXCEPT ![u] = "Disconnected"]
  <2>1. Actual'[u] = "Disconnected" BY <1>2, <1>5 DEF Actual
  <2>2. \A v \in Url \ {u} : Actual'[v] = Actual[v] BY <1>2, <1>3, <1>4 DEF Actual
  <2>3. Actual = [v \in Url |-> Actual[v]] /\ Actual' = [v \in Url |-> Actual'[v]]
    BY DEF Actual
  <2>4. QED BY <2>1, <2>2, <2>3
<1>8. Late' = Late BY <1>2, <1>3 DEF Late
<1>9. Shown[u] = "Unlisted" BY DEF Shown
<1>10. QED BY <1>6, <1>7, <1>8, <1>9 DEF Board!List, Board!Unlisted, Shown, Actual, Late

\* Some listeners are dropped.
LEMMA BoardUnlists ==
    ASSUME NEW U \in SUBSET Url, UNCHANGED state,
           \A u \in U : relays'[u] = NoTask,
           \A u \in Url \ U : relays'[u] = relays[u] /\ SameAt(u)
    PROVE  Board!Unlist(U)
<1>1. \A u \in U : ~Listed(u)' BY DEF Listed
<1>2. \A u \in Url \ U : Listed(u)' <=> Listed(u) BY DEF Listed
<1>3. Shown' = [u \in Url |-> IF u \in U THEN "Unlisted" ELSE Shown[u]]
  BY <1>1, <1>2 DEF Shown, SameAt
<1>4. Actual' = [u \in Url |-> IF u \in U THEN "Unlisted" ELSE Actual[u]]
  BY <1>1, <1>2 DEF Actual, SameAt
<1>5. Late' = [u \in Url |-> IF u \in U THEN <<>> ELSE Late[u]]
  BY <1>1, <1>2 DEF Late, SameAt
<1>6. QED BY <1>3, <1>4, <1>5 DEF Board!Unlist, Board!Unlisted, Shown, Actual, Late

-----------------------------------------------------------------------------
(* Every step is one of the board's, or none. *)

BoardStep == [Board!Next]_(Board!vars)

LEMMA StatesTaken ==
    ASSUME TypeInv, NEW t \in Task, outgoing[t] \in RelayToPoolEvent
    PROVE  /\ StateAfter(outgoing[t]) \in Board!Changes[state[t]]
           /\ StateAfter(outgoing[t]) \in Board!Status
<1>1. outgoing[t] \in EventsIn(state[t]) BY DEF TypeInv, OutgoingOK, RelayToPoolEvent, NoEvent
<1>2. StateAfter(outgoing[t]) \in Board!Changes[state[t]]
  BY <1>1 DEF EventsIn, StateAfter, Board!Changes
<1>3. StateAfter(outgoing[t]) \in Board!Status BY DEF StateAfter, Board!Status
<1>4. QED BY <1>2, <1>3

\* What the listeners of a state satisfying the invariants are.
LEMMA ListenersTypes ==
    ASSUME TypeInv, ListenerInv, OneTaskPerUrl
    PROVE  /\ \A u \in Url : Listed(u) =>
                  /\ relays[u] \in Task /\ UrlOf[relays[u]] = u /\ relays[u] \in Listening
                  /\ \A t \in Task : UrlOf[t] = u => relays[u] = t
           /\ toPool \in Seq(RelayToPool)
           /\ \A t \in Task : UrlOf[t] \in Url /\ t # NoTask
<1>1. relays \in [Url -> Task \cup {NoTask}] /\ toPool \in Seq(RelayToPool)
  BY DEF TypeInv, TypeOK, RelayTypeOK
<1>2. \A t \in Task : UrlOf[t] \in Url /\ t # NoTask BY RelayAssumption, PoolAssumption
<1>3. ASSUME NEW u \in Url, Listed(u)
      PROVE  /\ relays[u] \in Task /\ UrlOf[relays[u]] = u /\ relays[u] \in Listening
             /\ \A t \in Task : UrlOf[t] = u => relays[u] = t
  BY <1>1, <1>3 DEF Listed, ListenerInv, Listening, OneTaskPerUrl, Sole
<1>4. QED BY <1>1, <1>2, <1>3

LEMMA BoardRelayStep ==
    ASSUME TypeInv, ListenerInv, OneTaskPerUrl, NEW t \in Task, RelayStep(t)
    PROVE  BoardStep
<1>1. UNCHANGED <<relays, listenerStatus>> /\ \A r \in Task \ {t} : state'[r] = state[r]
  <2>1. UNCHANGED poolVars BY RelayStepFrame
  <2>2. QED BY <2>1, RelayStepFrame DEF poolVars
<1>2. CASE state'[t] = state[t] /\ toPool' = toPool
  <2>1. \A u \in Url : SameAt(u) BY <1>1, <1>2, ListenersTypes DEF SameAt
  <2>2. QED BY <1>1, <2>1, BoardStutters DEF BoardStep
<1>3. CASE /\ outgoing[t] \in RelayToPoolEvent
           /\ state'[t] = StateAfter(outgoing[t])
           /\ toPool' = Append(toPool, [url |-> UrlOf[t], event |-> outgoing[t]])
  <2>1. PICK e : e = outgoing[t] OBVIOUS
  <2>2. PICK u \in Url : u = UrlOf[t] BY ListenersTypes
  <2>3. PICK m \in RelayToPool : m.url = u /\ m.event = e /\ toPool' = Append(toPool, m)
    BY <1>3, <2>1, <2>2 DEF RelayToPool
  <2>4. toPool \in Seq(RelayToPool) BY ListenersTypes
  <2>5. Behind(toPool', u) = Append(Behind(toPool, u), StateAfter(e))
    BY <1>3, <2>1, <2>3, <2>4, BehindAppend, StatusIsState
  <2>6. \A v \in Url \ {u} : Behind(toPool', v) = Behind(toPool, v)
    BY <2>3, <2>4, BehindAppendOther
  <2>7. ASSUME NEW v \in Url \ {u} PROVE SameAt(v)
    <3>1. Listed(v) => relays[v] \in Task /\ relays[v] # t BY <2>2, ListenersTypes
    <3>2. QED BY <1>1, <2>6, <3>1 DEF SameAt
  <2>8. CASE Listed(u)
    <3>1. relays[u] = t BY <2>2, <2>8, ListenersTypes
    <3>2. PICK s \in Board!Status : s = StateAfter(e) BY <1>3, <2>1, StatesTaken
    <3>3. s \in Board!Changes[state[relays[u]]] BY <1>3, <2>1, <3>1, <3>2, StatesTaken
    <3>4. state'[relays[u]] = s BY <1>3, <2>1, <3>1, <3>2
    <3>5. Behind(toPool', u) = Append(Behind(toPool, u), s) BY <2>5, <3>2
    <3>6. Board!Change(u, s) BY <1>1, <2>7, <2>8, <3>3, <3>4, <3>5, BoardChanges
    <3>7. QED BY <3>2, <3>6 DEF BoardStep, Board!Next
  <2>9. CASE ~Listed(u)
    <3>1. \A v \in Url : SameAt(v) BY <2>7, <2>9 DEF SameAt
    <3>2. QED BY <1>1, <3>1, BoardStutters DEF BoardStep
  <2>10. QED BY <2>8, <2>9
<1>4. CASE toPool' = toPool /\ (t \notin Listening \/ pool # "running")
  <2>1. t \notin Listening BY <1>4 DEF ListenerInv
  <2>2. \A u \in Url : SameAt(u) BY <1>1, <1>4, <2>1, ListenersTypes DEF SameAt
  <2>3. QED BY <1>1, <2>2, BoardStutters DEF BoardStep
<1>5. QED BY <1>2, <1>3, <1>4, RelayStepFrame

LEMMA BoardHandles ==
    ASSUME TypeInv, ListenerInv, OneTaskPerUrl, handle_relay_to_pool
    PROVE  BoardStep
<1>1. /\ UNCHANGED <<relays, state>> /\ toPool # <<>> /\ toPool' = Tail(toPool)
      /\ toPool \in Seq(RelayToPool) /\ listenerStatus \in [Url -> RelayStatus]
  BY DEF handle_relay_to_pool, TypeInv, TypeOK, RelayTypeOK
<1>2. PICK m \in RelayToPool : m = Head(toPool) BY <1>1
<1>3. PICK u \in Url : u = m.url BY <1>2 DEF RelayToPool
<1>4. \A v \in Url \ {u} : Behind(toPool', v) = Behind(toPool, v)
  BY <1>1, <1>2, <1>3, BehindTailOther
<1>5. CASE Listed(u)
  <2>1. listenerStatus' = [listenerStatus EXCEPT ![u] = set_status(m.event)]
    BY <1>2, <1>3, <1>5 DEF handle_relay_to_pool, Listed
  <2>2. /\ Behind(toPool, u) # <<>> /\ Head(Behind(toPool, u)) = set_status(m.event)
        /\ Behind(toPool', u) = Tail(Behind(toPool, u))
    BY <1>1, <1>2, <1>3, BehindTail
  <2>3. Board!Show(u) BY <1>1, <1>4, <1>5, <2>1, <2>2, BoardShows
  <2>4. QED BY <2>3 DEF BoardStep, Board!Next
<1>6. CASE ~Listed(u)
  <2>1. UNCHANGED listenerStatus
    BY <1>2, <1>3, <1>6 DEF handle_relay_to_pool, Listed
  <2>2. \A v \in Url : SameAt(v) BY <1>1, <1>4, <1>6, <2>1 DEF SameAt
  <2>3. QED BY <1>1, <2>2, BoardStutters DEF BoardStep
<1>7. QED BY <1>5, <1>6

LEMMA BoardAdds ==
    ASSUME TypeInv, ListenerInv, OneTaskPerUrl, NEW t \in Task, AddRelay(UrlOf[t], t)
    PROVE  BoardStep
<1>1. /\ state[t] = "Unspawned" /\ state' = [state EXCEPT ![t] = "Disconnected"]
      /\ relays' = [relays EXCEPT ![UrlOf[t]] = t]
      /\ listenerStatus' = [listenerStatus EXCEPT ![UrlOf[t]] = "Disconnected"]
      /\ UNCHANGED toPool
  BY DEF AddRelay, Spawn
<1>2. PICK u \in Url : u = UrlOf[t] BY ListenersTypes
<1>3. ~Listed(u)
  <2>1. SUFFICES ASSUME Listed(u) PROVE FALSE OBVIOUS
  <2>2. relays[u] = t BY <1>2, <2>1, ListenersTypes
  <2>3. state[t] \in RelayStatus BY <2>1, <2>2 DEF ListenerInv, Listed
  <2>4. QED BY <1>1, <2>3 DEF RelayStatus
<1>4. \A i \in DOMAIN toPool : toPool[i].url # u
  BY <1>1, <1>2 DEF ListenerInv, OneTaskPerUrl, Sole
<1>5. Behind(toPool, u) = <<>> BY <1>4, ListenersTypes, BehindEmpty
<1>6. t # NoTask BY ListenersTypes
<1>7. Board!List(u) BY <1>1, <1>2, <1>3, <1>5, <1>6, BoardLists
<1>8. QED BY <1>7 DEF BoardStep, Board!Next

LEMMA BoardDrops ==
    ASSUME UNCHANGED state, DropPool("shutdown") \/ DropPool("abandoned")
    PROVE  BoardStep
<1>1. \A u \in Url : relays'[u] = NoTask BY DEF DropPool
<1>2. Board!Unlist(Url) BY <1>1, BoardUnlists
<1>3. QED BY <1>2 DEF BoardStep, Board!Next

LEMMA BoardIdles ==
    ASSUME UNCHANGED <<relays, listenerStatus, state, toPool>>
    PROVE  BoardStep
<1>1. \A u \in Url : SameAt(u) BY DEF SameAt
<1>2. QED BY <1>1, BoardStutters DEF BoardStep

LEMMA BoardSends ==
    ASSUME TypeInv, PoolSend
    PROVE  BoardStep
<1>1. UNCHANGED state BY DEF PoolSend
<1>2. CASE UNCHANGED <<relays, listenerStatus, toPool>> BY <1>1, <1>2, BoardIdles
<1>3. CASE /\ relays' = [relays EXCEPT ![UrlOf[job.to]] = NoTask]
           /\ listenerStatus' = [listenerStatus EXCEPT ![UrlOf[job.to]] = "Disconnected"]
           /\ UNCHANGED toPool
  <2>1. /\ relays \in [Url -> Task \cup {NoTask}] /\ listenerStatus \in [Url -> RelayStatus]
        /\ job.to \in Task
    BY JobTypes DEF TypeInv, TypeOK, PoolSend
  <2>2. PICK u \in Url : u = UrlOf[job.to] BY <2>1, RelayAssumption
  <2>3. /\ relays'[u] = NoTask
        /\ \A v \in Url \ {u} : relays'[v] = relays[v] /\ listenerStatus'[v] = listenerStatus[v]
    BY <1>3, <2>1, <2>2
  <2>4. \A v \in Url \ {u} : SameAt(v) BY <1>1, <1>3, <2>3 DEF SameAt
  <2>5. Board!Unlist({u}) BY <1>1, <2>3, <2>4, BoardUnlists
  <2>6. QED BY <2>5 DEF BoardStep, Board!Next
<1>4. CASE DropPool("shutdown") BY <1>1, <1>4, BoardDrops
<1>5. QED BY <1>2, <1>3, <1>4 DEF PoolSend, AfterSend

LEMMA BoardSteps ==
    ASSUME TypeInv, ListenerInv, OneTaskPerUrl, [Next]_vars
    PROVE  BoardStep
<1>1. CASE \E t \in Task : RelayStep(t) BY <1>1, BoardRelayStep
<1>2. CASE \E t \in Task, s \in Subscription : Resend(t, s)
  BY <1>2, BoardIdles DEF Resend
<1>3. CASE handle_relay_to_pool BY <1>3, BoardHandles
<1>4. CASE Command
  BY <1>4, BoardAdds, BoardDrops, BoardIdles
     DEF Command, RemoveRelay, ReconnectRelay, ForwardToOne, ForwardToAll, AddSubscription,
         AddSubscriptionToRelay, Shutdown, Abandon, relayVars
<1>5. CASE PoolSend BY <1>5, BoardSends
<1>6. CASE UNCHANGED vars BY <1>6, BoardIdles DEF vars, relayVars, poolVars
<1>7. QED BY <1>1, <1>2, <1>3, <1>4, <1>5, <1>6 DEF Next

\* As long as no url is added twice, the status list shows of every relay all the
\* states its loop goes through, in their order, whatever the pool is sending and
\* however many events of however many relays are in the one channel.
THEOREM StatusesFollow == OneTaskPerUrl => (Spec => StatusesInOrder)
<1>1. Init => Board!Init
  <2>1. Init => \A u \in Url : ~Listed(u) BY DEF Init, Listed
  <2>2. QED BY <2>1 DEF Board!Init, Board!Unlisted
<1>2. ASSUME OneTaskPerUrl PROVE TypeInv /\ ListenerInv /\ [Next]_vars => [Board!Next]_(Board!vars)
  BY <1>2, BoardSteps DEF BoardStep
<1>3. QED
  <2>1. SUFFICES ASSUME OneTaskPerUrl PROVE Spec => StatusesInOrder OBVIOUS
  <2>2. TypeInv /\ ListenerInv /\ [Next]_vars => [Board!Next]_(Board!vars) BY <1>2, <2>1
  <2>3. QED BY ListenerInvariance, <1>1, <2>2, PTL DEF Spec, StatusesInOrder, Board!Spec

=============================================================================
