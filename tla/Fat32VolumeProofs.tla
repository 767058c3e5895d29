-------------------------- MODULE Fat32VolumeProofs --------------------------
(* What ls, cat, cd and the prompt make of a volume, for every volume that  *)
(* the driver reads right (DirTree and its companions in Fat32).            *)
EXTENDS Fat32Proofs, FiniteSetTheorems

-----------------------------------------------------------------------------
(* Numbers in order. *)

\* What holds of 0 and is handed on up to n holds up to n.
LEMMA UpTo ==
    ASSUME NEW n \in Nat, NEW S, 0 \in S,
           \A i \in 1 .. n : i - 1 \in S => i \in S
    PROVE  \A i \in 0 .. n : i \in S
  <1> SUFFICES ASSUME NEW j \in 0 .. n, j \notin S PROVE FALSE
    OBVIOUS
  <1> DEFINE T == {i \in Nat : i <= n /\ i \notin S}
  <1>1. T \subseteq Nat /\ j \in T
    OBVIOUS
  <1>2. PICK x \in T : \A y \in T : x <= y
    BY <1>1, LeastNat
  <1>3. x \in 1 .. n /\ x - 1 \in Nat /\ x - 1 \notin T
    BY <1>2
  <1> QED
    BY <1>3

LEMMA MinNat ==
    ASSUME NEW T, T \subseteq Nat, T # {}
    PROVE  /\ Min(T) \in T
           /\ \A y \in T : Min(T) <= y
  BY LeastNat DEF Min

LEMMA MinPair ==
    ASSUME NEW a \in Nat, NEW b \in Nat
    PROVE  Min({a, b}) = IF a <= b THEN a ELSE b
  <1>1. Min({a, b}) \in {a, b} /\ Min({a, b}) <= a /\ Min({a, b}) <= b
    BY MinNat
  <1> QED
    BY <1>1

\* S holds numbers from 1 to n.
Within(S, n) == S \subseteq 1 .. n

LEMMA RankFinite ==
    ASSUME NEW n \in Nat, NEW S, Within(S, n), NEW i
    PROVE  /\ IsFiniteSet(S) /\ IsFiniteSet({j \in S : j <= i})
           /\ Rank(S, i) \in Nat /\ Cardinality(S) \in Nat
  <1>1. IsFiniteSet(1 .. n)
    BY FS_Interval
  <1>2. IsFiniteSet(S)
    BY <1>1, FS_Subset DEF Within
  <1>3. IsFiniteSet({j \in S : j <= i})
    BY <1>2, FS_Subset
  <1> QED
    BY <1>2, <1>3, FS_CardinalityType DEF Rank

\* The rank of a number counts the members up to it.
LEMMA RankSteps ==
    ASSUME NEW n \in Nat, NEW S, Within(S, n)
    PROVE  /\ Rank(S, 0) = 0
           /\ \A p \in Nat : Rank(S, p + 1) = IF p + 1 \in S THEN Rank(S, p) + 1 ELSE Rank(S, p)
           /\ Rank(S, n) = Cardinality(S)
  <1>0. \A j \in S : j \in Nat /\ 1 <= j /\ j <= n
    BY DEF Within
  <1>1. Rank(S, 0) = 0
    <2>1. {j \in S : j <= 0} = {}
      BY <1>0
    <2> QED
      BY <2>1, FS_EmptySet DEF Rank
  <1>2. ASSUME NEW p \in Nat
        PROVE  Rank(S, p + 1) = IF p + 1 \in S THEN Rank(S, p) + 1 ELSE Rank(S, p)
    <2> DEFINE P == {j \in S : j <= p}
               Q == {j \in S : j <= p + 1}
    <2>1. CASE p + 1 \in S
      <3>1. Q = P \cup {p + 1} /\ p + 1 \notin P
        BY <1>0, <2>1
      <3>2. IsFiniteSet(P)
        BY RankFinite
      <3> HIDE DEF P, Q
      <3>3. Cardinality(Q) = Cardinality(P) + 1
        BY <3>1, <3>2, FS_AddElement
      <3> QED
        BY <2>1, <3>3 DEF Rank, P, Q
    <2>2. CASE p + 1 \notin S
      <3>1. Q = P
        BY <1>0, <2>2
      <3> QED
        BY <2>2, <3>1 DEF Rank
    <2> QED  BY <2>1, <2>2
  <1>3. Rank(S, n) = Cardinality(S)
    <2>1. {j \in S : j <= n} = S
      BY <1>0
    <2> QED
      BY <2>1 DEF Rank
  <1> QED  BY <1>1, <1>2, <1>3

LEMMA RankGrows ==
    ASSUME NEW n \in Nat, NEW S, Within(S, n), NEW p \in Nat, NEW q \in Nat, p <= q
    PROVE  /\ Rank(S, p) <= Rank(S, q)
           /\ q \in S /\ p # q => Rank(S, p) < Rank(S, q)
           /\ Rank(S, p) <= Cardinality(S)
  <1> DEFINE P == {j \in S : j <= p}
             Q == {j \in S : j <= q}
  <1>0. \A j \in S : j \in Nat
    BY DEF Within
  <1>1. P \subseteq Q /\ P \subseteq S
    BY <1>0
  <1>2. IsFiniteSet(P) /\ IsFiniteSet(Q) /\ IsFiniteSet(S)
    BY RankFinite
  <1>3. q \in S /\ p # q => P # Q
    <2>1. q \in S /\ p # q => q \in Q /\ q \notin P
      OBVIOUS
    <2> QED  BY <2>1
  <1>4. Rank(S, p) = Cardinality(P) /\ Rank(S, q) = Cardinality(Q)
    BY DEF Rank
  <1>5. Cardinality(P) \in Nat /\ Cardinality(Q) \in Nat
    BY <1>2, FS_CardinalityType
  <1> HIDE DEF P, Q
  <1>6. /\ Cardinality(P) <= Cardinality(Q)
        /\ P # Q => Cardinality(P) < Cardinality(Q)
        /\ Cardinality(P) <= Cardinality(S)
    <2>1. /\ Cardinality(P) <= Cardinality(Q)
          /\ Cardinality(Q) = Cardinality(P) => Q = P
          /\ Cardinality(P) <= Cardinality(S)
      BY <1>1, <1>2, FS_Subset, Zenon
    <2> QED
      BY <1>5, <2>1
  <1> QED
    BY <1>3, <1>4, <1>6, Zenon

\* A member stands in the sequence where its rank says.
LEMMA InOrderAt ==
    ASSUME NEW n \in Nat, NEW S, Within(S, n), NEW m \in S
    PROVE  /\ Rank(S, m) \in 1 .. Cardinality(S)
           /\ Rank(S, m) \in DOMAIN InOrder(S)
           /\ InOrder(S)[Rank(S, m)] = m
  <1>0. m \in Nat /\ m - 1 \in Nat /\ S \subseteq Nat
    BY DEF Within
  <1>1. Rank(S, m) \in Nat /\ Rank(S, m - 1) \in Nat /\ Cardinality(S) \in Nat
    BY RankFinite
  <1>2. Rank(S, m - 1) < Rank(S, m) /\ Rank(S, m) <= Cardinality(S)
    <2>1. m - 1 <= m /\ m - 1 # m /\ m <= m
      BY <1>0
    <2> QED
      BY <1>0, <2>1, RankGrows, Zenon
  <1>3. Rank(S, m) \in 1 .. Cardinality(S)
    BY <1>1, <1>2
  <1> DEFINE T == {i \in S : Rank(S, i) = Rank(S, m)}
  <1>4. T = {m}
    <2> SUFFICES ASSUME NEW i \in S, i # m PROVE Rank(S, i) # Rank(S, m)
      OBVIOUS
    <2>1. i \in Nat /\ Rank(S, i) \in Nat
      BY <1>0, RankFinite
    <2>2. CASE i <= m
      <3>1. Rank(S, i) < Rank(S, m)
        BY <1>0, <2>1, <2>2, RankGrows
      <3> QED
        BY <1>1, <2>1, <3>1
    <2>3. CASE m <= i
      <3>1. Rank(S, m) < Rank(S, i)
        BY <1>0, <2>1, <2>3, RankGrows
      <3> QED
        BY <1>1, <2>1, <3>1
    <2> QED
      BY <1>0, <2>1, <2>2, <2>3
  <1>5. Min(T) = m
    <2>1. Min({m}) \in {m}
      BY <1>0, MinNat
    <2> HIDE DEF T
    <2> QED
      BY <1>4, <2>1
  <1> QED
    BY <1>3, <1>5 DEF InOrder

-----------------------------------------------------------------------------
(* Sequences laid end to end. *)

LEMMA ConcatSecond ==
    ASSUME NEW T, NEW a \in Seq(T), NEW b \in Seq(T), NEW j \in 1 .. Len(b)
    PROVE  (a \o b)[Len(a) + j] = b[j]
  <1>1. Len(a) \in Nat /\ Len(b) \in Nat
    OBVIOUS
  <1>2. PICK i : i = Len(a) + j
    OBVIOUS
  <1>3. i \in 1 .. Len(a) + Len(b) /\ ~(i <= Len(a)) /\ i - Len(a) = j
    BY <1>1, <1>2
  <1>4. \A m \in 1 .. Len(a) + Len(b) : (a \o b)[m] = IF m <= Len(a) THEN a[m] ELSE b[m - Len(a)]
    BY ConcatProperties
  <1>5. (a \o b)[i] = b[i - Len(a)]
    BY <1>3, <1>4, Zenon
  <1> QED
    BY <1>2, <1>3, <1>5

Flat(ss) ==
    LET flatten[i \in 1 .. Len(ss)] == IF i = 1 THEN ss[i] ELSE flatten[i - 1] \o ss[i]
    IN  flatten

IsFlat(f, ss, n) == f = [i \in 1 .. n |-> IF i = 1 THEN ss[i] ELSE f[i - 1] \o ss[i]]

LEMMA FlatSteps ==
    ASSUME NEW ss, Len(ss) \in Nat
    PROVE  /\ Len(ss) # 0 => FlattenSeq(ss) = Flat(ss)[Len(ss)]
           /\ \A i \in 1 .. Len(ss) :
                 Flat(ss)[i] = IF i = 1 THEN ss[i] ELSE Flat(ss)[i - 1] \o ss[i]
  <1> DEFINE S == {n \in Nat : \E f : IsFlat(f, ss, n)}
  <1>1. 0 \in S
    <2> DEFINE f == [i \in 1 .. 0 |-> ss]
    <2>1. IsFlat(f, ss, 0)
      BY DEF IsFlat
    <2> QED
      BY <2>1
  <1>2. ASSUME NEW n \in 1 .. Len(ss), n - 1 \in S
        PROVE  n \in S
    <2>1. PICK f : IsFlat(f, ss, n - 1)
      BY <1>2
    <2> DEFINE g == [i \in 1 .. n |->
                       IF i = n THEN (IF n = 1 THEN ss[n] ELSE f[n - 1] \o ss[n]) ELSE f[i]]
    <2>2. \A i \in 1 .. n - 1 : f[i] = IF i = 1 THEN ss[i] ELSE f[i - 1] \o ss[i]
      BY <2>1 DEF IsFlat
    <2>3. ASSUME NEW i \in 1 .. n
          PROVE  g[i] = IF i = 1 THEN ss[i] ELSE g[i - 1] \o ss[i]
      <3>1. CASE i \in 1 .. n - 1
        <4>1. g[i] = f[i] /\ (i # 1 => g[i - 1] = f[i - 1])
          BY <3>1
        <4> QED
          BY <2>2, <3>1, <4>1
      <3>2. CASE i = n
        <4>1. i # 1 => g[i - 1] = f[i - 1]
          BY <3>2
        <4> QED
          BY <3>2, <4>1
      <3> QED
        BY <3>1, <3>2
    <2>4. IsFlat(g, ss, n)
      BY <2>3 DEF IsFlat
    <2> QED
      BY <2>4
  <1> HIDE DEF S
  <1>3. Len(ss) \in S
    <2>1. \A i \in 1 .. Len(ss) : i - 1 \in S => i \in S
      BY <1>2
    <2>2. \A i \in 0 .. Len(ss) : i \in S
      BY <1>1, <2>1, UpTo, Zenon
    <2> QED
      BY <2>2
  <1>4. \E f : IsFlat(f, ss, Len(ss))
    BY <1>3 DEF S
  <1>5. IsFlat(Flat(ss), ss, Len(ss))
    <2>1. Flat(ss) = CHOOSE f : IsFlat(f, ss, Len(ss))
      BY Zenon DEF Flat, IsFlat
    <2> QED
      BY <1>4, <2>1, Zenon
  <1>6. \A i \in 1 .. Len(ss) :
           Flat(ss)[i] = IF i = 1 THEN ss[i] ELSE Flat(ss)[i - 1] \o ss[i]
    BY <1>5 DEF IsFlat
  <1>7. Len(ss) # 0 => FlattenSeq(ss) = Flat(ss)[Len(ss)]
    BY DEF FlattenSeq, Flat
  <1> QED
    BY <1>6, <1>7

\* The first k of the sequences laid end to end.
FlatTo(ss, k) == IF k = 0 THEN <<>> ELSE Flat(ss)[k]

LEMMA FlatFacts ==
    ASSUME NEW T, NEW ss \in Seq(Seq(T))
    PROVE  /\ FlatTo(ss, 0) = <<>>
           /\ \A k \in 1 .. Len(ss) : FlatTo(ss, k) = FlatTo(ss, k - 1) \o ss[k]
           /\ \A k \in 0 .. Len(ss) : FlatTo(ss, k) \in Seq(T)
           /\ FlattenSeq(ss) = FlatTo(ss, Len(ss))
  <1>0. Len(ss) \in Nat /\ \A k \in 1 .. Len(ss) : ss[k] \in Seq(T)
    OBVIOUS
  <1>1. FlatTo(ss, 0) = <<>>
    BY DEF FlatTo
  <1>2. ASSUME NEW k \in 1 .. Len(ss)  PROVE FlatTo(ss, k) = FlatTo(ss, k - 1) \o ss[k]
    <2>1. Flat(ss)[k] = IF k = 1 THEN ss[k] ELSE Flat(ss)[k - 1] \o ss[k]
      BY <1>0, FlatSteps
    <2>2. CASE k = 1
      <3>1. FlatTo(ss, k) = ss[k] /\ FlatTo(ss, k - 1) = <<>>
        BY <2>1, <2>2 DEF FlatTo
      <3>2. ss[k] \in Seq(T)
        BY <1>0
      <3>3. <<>> \o ss[k] = ss[k]
        BY <3>2, ConcatEmptySeq
      <3> QED
        BY <3>1, <3>3
    <2>3. CASE k # 1
      <3>1. k # 0 /\ k - 1 # 0
        BY <2>3
      <3> QED
        BY <2>1, <2>3, <3>1 DEF FlatTo
    <2> QED  BY <2>2, <2>3
  <1>3. \A k \in 0 .. Len(ss) : FlatTo(ss, k) \in Seq(T)
    <2> DEFINE S == {k \in Nat : FlatTo(ss, k) \in Seq(T)}
    <2>1. 0 \in S
      <3>1. <<>> \in Seq(T)
        BY EmptySeq
      <3> QED
        BY <1>1, <3>1
    <2>2. ASSUME NEW k \in 1 .. Len(ss), k - 1 \in S  PROVE k \in S
      <3>1. ss[k] \in Seq(T) /\ FlatTo(ss, k - 1) \in Seq(T) /\ k \in Nat
        BY <1>0, <2>2
      <3>2. FlatTo(ss, k) \in Seq(T)
        BY <1>2, <3>1, ConcatProperties
      <3> QED
        BY <3>1, <3>2
    <2> HIDE DEF S
    <2>3. \A k \in 0 .. Len(ss) : k \in S
      BY <1>0, <2>1, <2>2, UpTo, Zenon
    <2> QED
      BY <2>3 DEF S
  <1>4. FlattenSeq(ss) = FlatTo(ss, Len(ss))
    <2>1. CASE Len(ss) = 0
      <3>1. ss = <<>>
        BY <2>1, EmptySeq
      <3> QED
        BY <2>1, <3>1 DEF FlattenSeq, FlatTo
    <2>2. CASE Len(ss) # 0
      BY <1>0, <2>2, FlatSteps DEF FlatTo
    <2> QED  BY <2>1, <2>2
  <1> QED  BY <1>1, <1>2, <1>3, <1>4

\* What is laid stays where it is.
LEMMA FlatPrefix ==
    ASSUME NEW T, NEW ss \in Seq(Seq(T)), NEW i \in 0 .. Len(ss), NEW j \in i .. Len(ss)
    PROVE  /\ Len(FlatTo(ss, i)) <= Len(FlatTo(ss, j))
           /\ \A q \in 1 .. Len(FlatTo(ss, i)) : FlatTo(ss, j)[q] = FlatTo(ss, i)[q]
  <1>0. Len(ss) \in Nat /\ i \in Nat /\ j \in Nat
    OBVIOUS
  <1> DEFINE Kept(k) ==
               /\ Len(FlatTo(ss, i)) <= Len(FlatTo(ss, k))
               /\ \A q \in 1 .. Len(FlatTo(ss, i)) : FlatTo(ss, k)[q] = FlatTo(ss, i)[q]
             S == {k \in Nat : k >= i => Kept(k)}
  <1>1. ASSUME NEW k \in 0 .. Len(ss)
        PROVE  FlatTo(ss, k) \in Seq(T) /\ Len(FlatTo(ss, k)) \in Nat
    <2>1. FlatTo(ss, k) \in Seq(T)
      BY FlatFacts
    <2> QED  BY <2>1
  <1>2. Kept(i)
    BY <1>1
  <1>3. 0 \in S
    BY <1>0, <1>2
  <1>4. ASSUME NEW k \in 1 .. Len(ss), k - 1 \in S  PROVE k \in S
    <2> SUFFICES ASSUME k >= i, k # i  PROVE Kept(k)
      BY <1>2
    <2>1. Kept(k - 1)
      <3>1. k - 1 >= i
        BY <1>0
      <3> QED
        BY <1>4, <3>1
    <2> DEFINE old == FlatTo(ss, k - 1)
               new == FlatTo(ss, k)
               base == FlatTo(ss, i)
    <2>2. new = old \o ss[k]
      BY FlatFacts
    <2>3. old \in Seq(T) /\ ss[k] \in Seq(T) /\ base \in Seq(T)
      BY <1>1
    <2>4. /\ Len(base) <= Len(old)
          /\ \A q \in 1 .. Len(base) : old[q] = base[q]
      BY <2>1
    <2> HIDE DEF old, new, base
    <2>5. /\ Len(new) = Len(old) + Len(ss[k])
          /\ \A q \in 1 .. Len(old) : new[q] = old[q]
      BY <2>2, <2>3
    <2>6. Len(base) <= Len(new) /\ \A q \in 1 .. Len(base) : new[q] = base[q]
      BY <2>3, <2>4, <2>5
    <2> QED
      BY <2>6 DEF new, base
  <1> HIDE DEF S
  <1>5. \A k \in 0 .. Len(ss) : k \in S
    BY <1>0, <1>3, <1>4, UpTo, Zenon
  <1>6. j \in S
    BY <1>0, <1>5
  <1> QED
    BY <1>0, <1>6 DEF S

-----------------------------------------------------------------------------
(* The directories of a volume. *)

\* The slots of the sectors of cluster d.
DirSeq(d) == [k \in 1 .. Bpb.spc |-> Image[0][LbaOf(Vol, d) + k - 1].dir]
All(d) == FlattenSeq(DirSeq(d))

LEMMA BootRecordTyped ==
    ASSUME NEW dirs, DirTree(dirs)
    PROVE  /\ Bpb \in Bpbs /\ Bpb.spc \in Nat \ {0} /\ Bpb.reserved \in Nat
           /\ Bpb.tables \in Nat /\ Bpb.spf \in Nat /\ Bpb.root \in Nat /\ Vol.part \in Nat
           /\ Drives = {0} /\ Image[0] \in [DOMAIN Image[0] -> Sectors]
           /\ 0 \in DOMAIN Image[0] /\ Vol.part \in DOMAIN Image[0]
           /\ Vol.part = Image[0][0].part /\ Bpb = Image[0][Vol.part].bpb
  <1>1. Drives = {0} /\ {0, Vol.part} \subseteq DOMAIN Image[0] /\ Bpb.spc # 0
    BY DEF DirTree
  <1>2. Image[0] \in [DOMAIN Image[0] -> Sectors]
    BY <1>1, Fat32Assumption DEF Fat32Assumption
  <1>3. Image[0][0] \in Sectors /\ Image[0][Vol.part] \in Sectors
    BY <1>1, <1>2
  <1>4. Vol.part = Image[0][0].part /\ Bpb = Image[0][Vol.part].bpb
    BY DEF Vol, Volume, Bpb
  <1>5. Bpb \in Bpbs /\ Vol.part \in Nat
    BY <1>3, <1>4 DEF Sectors
  <1> QED
    BY <1>1, <1>2, <1>4, <1>5 DEF Bpbs

LEMMA DirOf ==
    ASSUME NEW dirs, DirTree(dirs), NEW d \in dirs
    PROVE  /\ d \in Clusters /\ d \in Nat /\ d >= 2 /\ d < EOC
           /\ Chain[d] = <<d>> /\ Whole(d) /\ EndSeen(d)
           /\ \A i \in DOMAIN Slots[d] :
                 Slots[d][i].kind \in {"dir", "file"} => NameWhole(Slots[d], i)
           /\ \A p \in Paths \ {"/", ".", ".."} :
                 Child(Listing[d], p) >= 2 =>
                    Child(Listing[d], p) \in dirs /\ ChildOf(Child(Listing[d], p), d)
  <1>1. /\ d \in Clusters /\ d < EOC
        /\ Chain[d] = <<d>> /\ Whole(d) /\ EndSeen(d)
        /\ \A i \in DOMAIN Slots[d] :
              Slots[d][i].kind \in {"dir", "file"} => NameWhole(Slots[d], i)
        /\ \A p \in Paths \ {"/", ".", ".."} :
              Child(Listing[d], p) >= 2 =>
                 Child(Listing[d], p) \in dirs /\ ChildOf(Child(Listing[d], p), d)
    BY DEF DirTree
  <1>2. d \in 2 .. Cardinality(DOMAIN Vol.sector)
    BY <1>1 DEF Clusters, ClustersOf
  <1>3. d \in Nat /\ d >= 2
    BY <1>2
  <1> QED
    BY <1>1, <1>3

LEMMA RootIn ==
    ASSUME NEW dirs, DirTree(dirs)
    PROVE  Bpb.root \in dirs
  BY DEF DirTree

\* The sectors of one cluster that is there.
LEMMA ClusterSectors ==
    ASSUME NEW dirs, DirTree(dirs), NEW cl, Whole(cl), NEW k \in 1 .. Bpb.spc
    PROVE  /\ LbaOf(Vol, cl) + k - 1 \in DOMAIN Image[0]
           /\ Image[0][LbaOf(Vol, cl) + k - 1] \in Sectors
           /\ Image[0][LbaOf(Vol, cl) + k - 1].dir \in Seq(DirSlots)
           /\ Image[0][LbaOf(Vol, cl) + k - 1].data \in DataSectors
  <1>1. LbaOf(Vol, cl) + k - 1 \in DOMAIN Image[0]
    BY DEF Whole
  <1>2. Image[0][LbaOf(Vol, cl) + k - 1] \in Sectors
    BY <1>1, BootRecordTyped
  <1> QED
    BY <1>1, <1>2 DEF Sectors

LEMMA OneClusterSectors ==
    ASSUME NEW dirs, DirTree(dirs), NEW d \in dirs
    PROVE  /\ SectorsOf(Vol, Chain[d]) = [k \in 1 .. Bpb.spc |-> Image[0][LbaOf(Vol, d) + k - 1]]
           /\ AllSlots(SectorsOf(Vol, Chain[d])) = All(d)
           /\ DirSeq(d) \in Seq(Seq(DirSlots)) /\ Len(DirSeq(d)) = Bpb.spc
  <1> DEFINE f == [k \in 1 .. Bpb.spc |-> Image[0][LbaOf(Vol, d) + k - 1]]
             ss == [i \in DOMAIN <<d>> |->
                      [k \in 1 .. Vol.bpb.spc |-> Vol.sector[LbaOf(Vol, <<d>>[i]) + k - 1]]]
  <1>1. SectorsOf(Vol, Chain[d]) = FlattenSeq(ss)
    <2>1. Chain[d] = <<d>>
      BY DirOf
    <2> QED
      BY <2>1 DEF SectorsOf
  <1>2. ss = <<f>>
    <2>1. Vol.bpb = Bpb /\ Vol.sector = Image[0]
      BY DEF Bpb, Vol, Volume
    <2>2. DOMAIN <<d>> = 1 .. 1 /\ <<d>>[1] = d
      OBVIOUS
    <2>3. ss = [i \in 1 .. 1 |-> f]
      BY <2>1, <2>2
    <2> HIDE DEF f, ss
    <2> QED
      BY <2>3
  <1>3. FlattenSeq(<<f>>) = f
    <2> HIDE DEF f
    <2>1. PICK g : g = <<f>>
      OBVIOUS
    <2>2. Len(g) = 1 /\ Len(g) \in Nat /\ g[1] = f
      BY <2>1
    <2>3. /\ Len(g) # 0 => FlattenSeq(g) = Flat(g)[Len(g)]
          /\ \A i \in 1 .. Len(g) : Flat(g)[i] = IF i = 1 THEN g[i] ELSE Flat(g)[i - 1] \o g[i]
      BY <2>2, FlatSteps
    <2>4. 1 \in 1 .. Len(g)
      BY <2>2
    <2>5. Flat(g)[1] = g[1] /\ FlattenSeq(g) = Flat(g)[1]
      BY <2>2, <2>3, <2>4
    <2> QED
      BY <2>1, <2>2, <2>5
  <1>4. SectorsOf(Vol, Chain[d]) = f
    BY <1>1, <1>2, <1>3
  <1>5. AllSlots(f) = All(d)
    <2>1. [i \in DOMAIN f |-> f[i].dir] = DirSeq(d)
      BY DEF DirSeq
    <2> QED
      BY <2>1 DEF AllSlots, All
  <1>6. Whole(d) /\ Bpb.spc \in Nat
    BY DirOf, BootRecordTyped
  <1>7. \A k \in 1 .. Bpb.spc : Image[0][LbaOf(Vol, d) + k - 1].dir \in Seq(DirSlots)
    BY <1>6, ClusterSectors
  <1>8. DirSeq(d) \in Seq(Seq(DirSlots)) /\ Len(DirSeq(d)) = Bpb.spc
    BY <1>6, <1>7 DEF DirSeq
  <1> QED
    BY <1>4, <1>5, <1>8

\* The slots of a directory are all those before the first end mark.
LEMMA SlotsFacts ==
    ASSUME NEW dirs, DirTree(dirs), NEW d \in dirs
    PROVE  /\ All(d) \in Seq(DirSlots) /\ Slots[d] \in Seq(DirSlots)
           /\ Len(Slots[d]) <= Len(All(d))
           /\ \A i \in 1 .. Len(Slots[d]) :
                 Slots[d][i] = All(d)[i] /\ Slots[d][i].kind # "end"
           /\ Len(Slots[d]) < Len(All(d)) => All(d)[Len(Slots[d]) + 1].kind = "end"
           /\ Len(Slots[d]) = Len(All(d)) => Slots[d] = All(d)
  <1> DEFINE all == All(d)
             ends == {i \in DOMAIN all : all[i].kind = "end"}
  <1>1. all \in Seq(DirSlots)
    <2>0. DirSeq(d) \in Seq(Seq(DirSlots)) /\ Len(DirSeq(d)) = Bpb.spc /\ Bpb.spc \in Nat
      BY OneClusterSectors, BootRecordTyped
    <2>1. DirSeq(d) \in Seq(Seq(DirSlots)) /\ Len(DirSeq(d)) \in 0 .. Len(DirSeq(d))
      BY <2>0
    <2> QED
      BY <2>1, FlatFacts DEF All
  <1>2. Slots[d] = IF ends = {} THEN all ELSE SubSeq(all, 1, Min(ends) - 1)
    <2>1. d \in Clusters /\ AllSlots(SectorsOf(Vol, Chain[d])) = all
      BY DirOf, OneClusterSectors
    <2>2. Slots[d] = SlotsOf(SectorsOf(Vol, Chain[d]))
      BY <2>1 DEF Slots
    <2> HIDE DEF all
    <2> QED
      BY <2>1, <2>2 DEF SlotsOf
  <1> HIDE DEF all
  <1>3. CASE ends = {}
    <2>1. \A i \in 1 .. Len(all) : all[i].kind # "end"
      BY <1>1, <1>3
    <2> QED
      BY <1>1, <1>2, <1>3, <2>1 DEF all
  <1>4. CASE ends # {}
    <2> DEFINE m == Min(ends)
    <2>1. m \in ends /\ \A y \in ends : m <= y
      <3>1. ends \subseteq Nat
        BY <1>1
      <3> HIDE DEF ends
      <3> QED
        BY <1>4, <3>1, MinNat
    <2>2. Slots[d] = SubSeq(all, 1, m - 1)
      BY <1>2, <1>4
    <2> HIDE DEF m
    <2>3. m \in 1 .. Len(all) /\ all[m].kind = "end"
      BY <1>1, <2>1
    <2>4. \A i \in 1 .. m - 1 : all[i].kind # "end"
      BY <1>1, <2>1, <2>3
    <2>5. /\ Slots[d] \in Seq(DirSlots) /\ Len(Slots[d]) = m - 1
          /\ \A i \in 1 .. m - 1 : Slots[d][i] = all[i]
      BY <1>1, <2>2, <2>3
    <2> QED
      BY <1>1, <2>3, <2>4, <2>5 DEF all
  <1> QED
    BY <1>3, <1>4

-----------------------------------------------------------------------------
(* Entries and their names. *)

\* The slots that fat32_list_dir and fat32_read_dir make entries of.
ListKinds == {"dir", "file"}
ReadKinds == {"dir", "file", "label"}
SlotsIn(d, kinds) == {i \in DOMAIN Slots[d] : Slots[d][i].kind \in kinds}

LEMMA SlotsWithin ==
    ASSUME NEW dirs, DirTree(dirs), NEW d \in dirs, NEW kinds
    PROVE  /\ Len(Slots[d]) \in Nat
           /\ Within(SlotsIn(d, kinds), Len(Slots[d]))
           /\ \A i : i \in SlotsIn(d, kinds) <=>
                       i \in 1 .. Len(Slots[d]) /\ Slots[d][i].kind \in kinds
  <1>1. Slots[d] \in Seq(DirSlots)
    BY SlotsFacts
  <1>2. Len(Slots[d]) \in Nat /\ DOMAIN Slots[d] = 1 .. Len(Slots[d])
    BY <1>1
  <1> QED
    BY <1>2 DEF Within, SlotsIn

LEMMA ListingAt ==
    ASSUME NEW dirs, DirTree(dirs), NEW d \in dirs
    PROVE  /\ Cardinality(SlotsIn(d, ListKinds)) \in Nat
           /\ DOMAIN Listing[d] = 1 .. Cardinality(SlotsIn(d, ListKinds))
           /\ Len(Listing[d]) = Cardinality(SlotsIn(d, ListKinds))
           /\ \A i \in SlotsIn(d, ListKinds) :
                 Listing[d][Rank(SlotsIn(d, ListKinds), i)] =
                    Entry(Slots[d][i], LongName(Slots[d], i))
  <1> DEFINE S == SlotsIn(d, ListKinds)
             idx == InOrder(S)
             n == Cardinality(S)
  <1>1. Len(Slots[d]) \in Nat /\ Within(S, Len(Slots[d]))
    BY SlotsWithin
  <1>2. n \in Nat
    BY <1>1, RankFinite
  <1>3. DOMAIN idx = 1 .. n
    BY DEF InOrder
  <1>4. Listing[d] = [k \in DOMAIN idx |-> Entry(Slots[d][idx[k]], LongName(Slots[d], idx[k]))]
    <2>1. d \in Clusters
      BY DirOf
    <2>2. Listing[d] = EntriesOf(Slots[d])
      BY <2>1 DEF Listing
    <2> QED
      BY <2>2 DEF EntriesOf, SlotsIn, ListKinds
  <1>5. ASSUME NEW i \in S
        PROVE  Rank(S, i) \in DOMAIN idx /\ idx[Rank(S, i)] = i
    BY <1>1, InOrderAt
  <1> HIDE DEF idx, S, n
  <1>6. DOMAIN Listing[d] = 1 .. n /\ Len(Listing[d]) = n
    BY <1>2, <1>3, <1>4
  <1>7. ASSUME NEW i \in S
        PROVE  Listing[d][Rank(S, i)] = Entry(Slots[d][i], LongName(Slots[d], i))
    BY <1>4, <1>5
  <1> QED
    BY <1>2, <1>6, <1>7 DEF S, n

\* The n parts of a long name before slot i.
Run(slots, i, n) ==
    /\ n \in {0} \cup DOMAIN NoParts
    /\ \A j \in 1 .. n :
          LET part == slots[i - j]
          IN  /\ part.kind = "lfn" /\ part.name # NoName
              /\ part.ord = IF slots[i].deleted THEN 5 ELSE j
              /\ part.final = (slots[i].deleted \/ j = n)
    /\ n < i - 1 => slots[i - n - 1].kind # "lfn"

LEMMA RunOf ==
    ASSUME NEW slots, NEW i, NameWhole(slots, i)
    PROVE  \E n \in 0 .. i - 1 : Run(slots, i, n)
  BY DEF NameWhole, Run

LEMMA RunLength ==
    ASSUME NEW slots, NEW i \in Nat, NEW n \in 0 .. i - 1, Run(slots, i, n),
           ~slots[i].deleted
    PROVE  LfnParts(slots, i) = n
  <1> DEFINE ns == {m \in 1 .. i - 1 :
                      /\ \A j \in 1 .. m : slots[i - j].kind = "lfn" /\ slots[i - j].ord = j
                      /\ slots[i - m].final}
  <1>1. ASSUME NEW j \in 1 .. n
        PROVE  /\ slots[i - j].kind = "lfn" /\ slots[i - j].ord = j
               /\ slots[i - j].final = (j = n)
    BY DEF Run
  <1>2. ASSUME NEW m \in ns  PROVE m = n /\ n # 0
    <2>1. m \in 1 .. i - 1 /\ slots[i - m].final
      BY <1>2
    <2>2. CASE m > n
      <3>1. n + 1 \in 1 .. m /\ n < i - 1 /\ i - (n + 1) = i - n - 1
        BY <2>1, <2>2
      <3>2. slots[i - (n + 1)].kind = "lfn"
        BY <1>2, <3>1
      <3>3. slots[i - n - 1].kind # "lfn"
        BY <3>1 DEF Run
      <3> QED
        BY <3>1, <3>2, <3>3
    <2>3. CASE m <= n
      <3>1. m \in 1 .. n
        BY <2>1, <2>3
      <3>2. slots[i - m].final = (m = n)
        BY <1>1, <3>1
      <3>3. m = n
        BY <2>1, <3>2, Zenon
      <3> QED
        BY <3>1, <3>3
    <2> QED
      BY <2>1, <2>2, <2>3
  <1>3. n # 0 => n \in ns
    <2> SUFFICES ASSUME n # 0 PROVE n \in ns
      OBVIOUS
    <2>1. n \in 1 .. n /\ n \in 1 .. i - 1
      OBVIOUS
    <2>2. slots[i - n].final
      BY <1>1, <2>1
    <2> QED
      BY <1>1, <2>1, <2>2
  <1>4. LfnParts(slots, i) = IF ns = {} THEN 0 ELSE Min(ns)
    BY DEF LfnParts
  <1>5. ns \subseteq Nat
    OBVIOUS
  <1> HIDE DEF ns
  <1>6. CASE n = 0
    BY <1>2, <1>4, <1>6
  <1>7. CASE n # 0
    <2>1. ns # {} /\ Min(ns) \in ns
      BY <1>3, <1>5, <1>7, MinNat
    <2> QED
      BY <1>2, <1>4, <2>1
  <1> QED
    BY <1>6, <1>7

LEMMA LongNameOf ==
    ASSUME NEW slots, NEW i \in Nat, NEW n \in 0 .. i - 1, Run(slots, i, n),
           ~slots[i].deleted
    PROVE  /\ n = 0 => LongName(slots, i) = <<slots[i].name>>
           /\ n = 1 => LongName(slots, i) = <<slots[i - 1].name>>
           /\ n # 0 => Len(LongName(slots, i)) = n
  <1>1. LfnParts(slots, i) = n
    BY RunLength
  <1>2. n # 0 => LongName(slots, i) = [j \in 1 .. n |-> slots[i - j].name]
    BY <1>1 DEF LongName
  <1>3. n = 0 => LongName(slots, i) = <<slots[i].name>>
    BY <1>1 DEF LongName
  <1>4. n # 0 => Len(LongName(slots, i)) = n
    BY <1>2
  <1>5. n = 1 => LongName(slots, i) = <<slots[i - 1].name>>
    BY <1>2
  <1> QED
    BY <1>3, <1>4, <1>5

\* The name of a deleted slot.
LEMMA LeftOverOf ==
    ASSUME NEW slots, NEW i \in Nat, NEW n \in 0 .. i - 1, Run(slots, i, n),
           slots[i].deleted
    PROVE  /\ n = 0 => LongName(slots, i) = <<slots[i].name>>
           /\ n # 0 => LongName(slots, i) = <<slots[i - 1].name>> /\ slots[i - 1].name # NoName
  <1>1. CASE n = 0
    <2>1. i > 1 => slots[i - 1].kind # "lfn"
      BY <1>1 DEF Run
    <2> QED
      BY <1>1, <2>1 DEF LongName
  <1>2. CASE n # 0
    <2>1. 1 \in 1 .. n /\ i > 1
      BY <1>2
    <2>2. slots[i - 1].kind = "lfn" /\ slots[i - 1].name # NoName
      BY <2>1 DEF Run
    <2> QED
      BY <1>2, <2>1, <2>2 DEF LongName
  <1> QED
    BY <1>1, <1>2

\* Parts with nothing but what is left of a deleted name.
LeftOver(name) == [NoParts EXCEPT ![5] = name]

LEMMA GlueLeftOver ==
    ASSUME NEW name, name # NoName
    PROVE  Glue(LeftOver(name), 5) = <<name>>
  <1> DEFINE parts == LeftOver(name)
             S == {i \in 1 .. 5 : parts[i] # NoName}
             idx == InOrder(S)
  <1>1. parts[5] = name /\ \A i \in 1 .. 4 : parts[i] = NoName
    BY DEF LeftOver, NoParts
  <1>2. S = {5}
    <2> HIDE DEF parts
    <2>1. \A i : i \in 1 .. 5 <=> i \in 1 .. 4 \/ i = 5
      OBVIOUS
    <2> QED
      BY <1>1, <2>1
  <1>3. Cardinality(S) = 1
    BY <1>2, FS_Singleton
  <1>4. DOMAIN idx = 1 .. 1 /\ Len(idx) = 1
    <2> HIDE DEF S
    <2> QED
      BY <1>3 DEF InOrder
  <1>5. idx[1] = 5
    <2>1. Within(S, 5) /\ 5 \in S
      BY <1>2 DEF Within
    <2> HIDE DEF S
    <2>2. /\ Rank(S, 5) \in 1 .. Cardinality(S)
          /\ InOrder(S)[Rank(S, 5)] = 5
      BY <2>1, InOrderAt
    <2>3. Rank(S, 5) = 1
      BY <1>3, <2>2
    <2> QED
      BY <2>2, <2>3
  <1>6. Glue(parts, 5) = [k \in DOMAIN idx |-> parts[idx[Len(idx) + 1 - k]]]
    BY DEF Glue
  <1> HIDE DEF idx, S, parts
  <1>7. Glue(parts, 5) = [k \in 1 .. 1 |-> parts[idx[1 + 1 - k]]]
    BY <1>4, <1>6
  <1>8. Glue(parts, 5) = <<parts[5]>>
    BY <1>5, <1>7
  <1> QED
    BY <1>1, <1>8 DEF parts

LEMMA GlueOf ==
    ASSUME NEW parts, NEW n \in Nat \ {0}, \A j \in 1 .. n : parts[j] # NoName
    PROVE  /\ Len(Glue(parts, n)) = n
           /\ n = 1 => Glue(parts, n) = <<parts[1]>>
  <1> DEFINE S == {i \in 1 .. n : parts[i] # NoName}
             idx == InOrder(S)
  <1>1. S = 1 .. n
    OBVIOUS
  <1>2. Cardinality(S) = n
    <2>1. Cardinality(1 .. n) = n
      BY FS_Interval
    <2> QED
      BY <1>1, <2>1
  <1>3. DOMAIN idx = 1 .. n /\ Len(idx) = n
    <2> HIDE DEF S
    <2> QED
      BY <1>2 DEF InOrder
  <1>4. Glue(parts, n) = [k \in DOMAIN idx |-> parts[idx[Len(idx) + 1 - k]]]
    BY DEF Glue
  <1>5. n = 1 => idx[1] = 1
    <2> SUFFICES ASSUME n = 1 PROVE idx[1] = 1
      OBVIOUS
    <2>1. Within(S, 1) /\ 1 \in S
      BY <1>1 DEF Within
    <2> HIDE DEF S
    <2>2. /\ Rank(S, 1) \in 1 .. Cardinality(S)
          /\ InOrder(S)[Rank(S, 1)] = 1
      BY <2>1, InOrderAt
    <2>3. Rank(S, 1) = 1
      BY <1>2, <2>2
    <2> QED
      BY <2>2, <2>3
  <1> HIDE DEF idx, S
  <1>6. Glue(parts, n) = [k \in 1 .. n |-> parts[idx[n + 1 - k]]]
    BY <1>3, <1>4
  <1>7. n = 1 => Glue(parts, n) = <<parts[1]>>
    BY <1>5, <1>6
  <1> QED
    BY <1>6, <1>7

-----------------------------------------------------------------------------
(* The driver's addresses on the volume. *)

\* While the trail is good, the disk is as it was at boot and the driver has
\* taken the boot record of its volume into use.
GeoInv ==
    /\ disk = Image
    /\ cacheDrive = 0 /\ cached_fat_sector \in DOMAIN Image[0] \cup {NO_SECTOR}
    /\ fat32_bpb = Bpb /\ fat_start = Bpb.reserved
    /\ cluster_begin_lba = Vol.part + Bpb.reserved + Bpb.tables * Bpb.spf
    /\ root_dir_first_cluster = Bpb.root

LEMMA LbaTyped ==
    ASSUME NEW dirs, DirTree(dirs), NEW cl \in Nat
    PROVE  LbaOf(Vol, cl) \in Int
  <1>1. /\ Bpb.spc \in Nat /\ Bpb.reserved \in Nat /\ Bpb.tables \in Nat /\ Bpb.spf \in Nat
        /\ Vol.part \in Nat /\ Vol.bpb = Bpb
    BY BootRecordTyped DEF Bpb
  <1>2. PICK t \in Int, e \in Int : t = Bpb.tables * Bpb.spf /\ e = (cl - 2) * Bpb.spc
    BY <1>1
  <1>3. LbaOf(Vol, cl) = Vol.part + Bpb.reserved + t + e
    BY <1>1, <1>2 DEF LbaOf
  <1> QED
    BY <1>1, <1>2, <1>3

LEMMA Address ==
    ASSUME NEW dirs, DirTree(dirs), GeoInv, NEW cl \in Nat
    PROVE  /\ fat32_cluster_to_lba(cl) = LbaOf(Vol, cl)
           /\ LbaOf(Vol, cl) \in Int
  <1>1. /\ Bpb.spc \in Nat /\ Bpb.reserved \in Nat /\ Bpb.tables \in Nat /\ Bpb.spf \in Nat
        /\ Vol.part \in Nat /\ Vol.bpb = Bpb
    BY BootRecordTyped DEF Bpb
  <1>2. PICK c \in Int : c = Bpb.spc
    BY <1>1
  <1>3. PICK t \in Int : t = Bpb.tables * Bpb.spf
    BY <1>1
  <1>4. LbaOf(Vol, cl) = Vol.part + Bpb.reserved + t + (cl - 2) * c
    BY <1>1, <1>2, <1>3 DEF LbaOf
  <1>5. fat32_cluster_to_lba(cl) = 0 + (Vol.part + Bpb.reserved + t) + (cl * c - 2 * c)
    BY <1>2, <1>3 DEF GeoInv, fat32_cluster_to_lba, partition_lba
  <1>6. (cl - 2) * c = cl * c - 2 * c /\ (cl - 2) * c \in Int
    BY <1>2
  <1>7. PICK b \in Int : b = Vol.part + Bpb.reserved + t
    BY <1>1, <1>3
  <1>8. PICK e \in Int : e = (cl - 2) * c
    BY <1>6
  <1>9. LbaOf(Vol, cl) = b + e /\ fat32_cluster_to_lba(cl) = 0 + b + e
    BY <1>4, <1>5, <1>6, <1>7, <1>8
  <1> QED
    BY <1>9

LEMMA OnDrive ==
    ASSUME NEW dirs, DirTree(dirs), GeoInv, NEW drive, NEW lba
    PROVE  Readable(drive, lba) <=> drive = 0 /\ lba \in DOMAIN Image[0]
  BY BootRecordTyped DEF Readable, GeoInv

\* What the driver finds for the next cluster.
LEMMA Lookup ==
    ASSUME NEW dirs, DirTree(dirs), GeoInv, Fat32Inv, NEW cl \in Nat, cl < EOC,
           NEW next, NEW failed,
           fat32_get_next_cluster(0, cl, next, failed)
    PROVE  /\ \/ failed /\ next = EOC
              \/ ~failed /\ SeenAt(cl) \in DOMAIN Image[0] /\ next = NextSeen(cl)
           /\ cacheDrive' = 0 /\ cached_fat_sector' \in DOMAIN Image[0] \cup {NO_SECTOR}
  <1> DEFINE sector == partition_lba + fat_start + cl \div FatEntries
  <1>1. sector = SeenAt(cl) /\ sector # NO_SECTOR
    <2>1. PICK k \in Nat : k = cl \div FatEntries /\ k <= cl
      BY Sizes
    <2>2. /\ EOC \in Nat /\ NO_SECTOR \in Nat /\ Bpb.reserved \in Nat
          /\ Bpb.reserved + EOC < NO_SECTOR
      BY Sizes, BootRecordTyped DEF DirTree
    <2>3. sector = Bpb.reserved + k /\ SeenAt(cl) = Bpb.reserved + k
      BY <2>1, <2>2 DEF GeoInv, SeenAt, partition_lba
    <2> QED
      BY <2>1, <2>2, <2>3
  <1>2. Readable(0, sector) => sector \in DOMAIN Image[0]
    BY OnDrive
  <1>3. CASE /\ sector = cached_fat_sector
             /\ next = fat_cache[cl % FatEntries] /\ ~failed /\ UNCHANGED cache
    <2>1. fat_cache = disk[cacheDrive][cached_fat_sector].fat
      BY <1>1, <1>3 DEF Fat32Inv, CacheCoherent, GeoInv
    <2> HIDE DEF sector
    <2> QED
      BY <1>1, <1>3, <2>1 DEF GeoInv, NextSeen, cache
  <1>4. CASE /\ Readable(0, sector) /\ next = disk[0][sector].fat[cl % FatEntries] /\ ~failed
             /\ cached_fat_sector' = sector /\ cacheDrive' = 0
    <2> HIDE DEF sector
    <2> QED
      BY <1>1, <1>2, <1>4 DEF GeoInv, NextSeen
  <1>5. CASE next = EOC /\ failed /\ UNCHANGED cache
    BY <1>5 DEF GeoInv, cache
  <1> QED
    BY <1>3, <1>4, <1>5 DEF fat32_get_next_cluster

-----------------------------------------------------------------------------
(* The scan of a directory. *)

KindsOf(o) == IF o.fn = "list" THEN ListKinds ELSE ReadKinds
EntrySlots(o, d) == SlotsIn(d, KindsOf(o))

\* A long name of several parts is never taken for a name of one.
NameSeen(name, true) ==
    /\ Len(true) = 1 => name = true
    /\ Len(true) # 1 => Len(name) # 1

\* Entry e is the one of slot i of directory d.
EntryIs(fn, e, d, i) ==
    /\ e.kind = Slots[d][i].kind /\ e.first = Slots[d][i].first /\ e.size = Slots[d][i].size
    /\ e.deleted = Slots[d][i].deleted
    /\ fn = "list" => NameSeen(e.name, LongName(Slots[d], i))
    /\ fn = "read" => e.name = <<Slots[d][i].name>>

\* The array holds the first entries of the directory.
Matched(o, d) ==
    \A k \in 1 .. Len(o.out) : \E i \in EntrySlots(o, d) :
       Rank(EntrySlots(o, d), i) = k /\ EntryIs(o.fn, o.out[k], d, i)

\* After p slots, the parts of the long name under way are there.
LfnHeld(present, parts, d, p) ==
    \A i \in SlotsIn(d, ListKinds), n \in Nat :
       n <= i - 1 /\ Run(Slots[d], i, n) /\ i - n - 1 <= p /\ p <= i - 1 =>
          /\ p = i - n - 1 => present = 0
          /\ p # i - n - 1 =>
                IF Slots[d][i].deleted THEN present = 5 /\ parts = LeftOver(Slots[d][p].name)
                ELSE present = n /\ \A j \in i - p .. n : parts[j] = Slots[d][i - j].name

\* p slots of directory d have been looked at, and its cluster goes on.
InCluster(o, d, p) ==
    /\ o.cl = d /\ o.s \in 0 .. Bpb.spc /\ p \in 0 .. Len(Slots[d])
    /\ p + Len(o.slots) = Len(FlatTo(DirSeq(d), o.s))
    /\ \A j \in 1 .. Len(o.slots) : o.slots[j] = All(d)[p + j]
    /\ Len(o.out) = Rank(EntrySlots(o, d), p)
    /\ o.fn = "list" => LfnHeld(o.present, o.parts, d, p)

\* The cluster of directory d is done; what the driver takes for the next one
\* begins with an end mark.
Beyond(o, d) ==
    /\ Len(o.out) = Cardinality(EntrySlots(o, d))
    /\ LET lba == LbaOf(Vol, o.cl)
       IN  \/ o.cl >= EOC
           \/ /\ o.slots = <<>> /\ o.s = 0 /\ lba \in DOMAIN Image[0]
              /\ Image[0][lba].dir # <<>> /\ Head(Image[0][lba].dir).kind = "end"
           \/ o.slots # <<>> /\ Head(o.slots).kind = "end"

\* The array is full or holds every entry.
Complete(o, d) == Len(o.out) = Min({Cardinality(EntrySlots(o, d)), o.max})

ScanInv(o, d) ==
    /\ Matched(o, d)
    /\ o.error => o.faulty /\ o.done
    /\ o.done => o.error \/ Complete(o, d)
    /\ ~o.done => (\E p \in Nat : InCluster(o, d, p)) \/ Beyond(o, d)

LEMMA LfnStart ==
    ASSUME NEW dirs, DirTree(dirs), NEW d \in dirs, NEW parts
    PROVE  LfnHeld(0, parts, d, 0)
  <1>1. \A i \in SlotsIn(d, ListKinds) : i \in Nat
    BY SlotsWithin
  <1> QED
    BY <1>1 DEF LfnHeld

\* The numbers of the parts of a long name that come before part k.
LEMMA PartsAbove ==
    \A n \in 1 .. 20 : \A k \in 1 .. n : \A j \in k + 1 .. n : j \in 1 .. 20 /\ j # k
  OBVIOUS

\* One slot more: a part is put in its place, anything else ends the name.
LEMMA LfnStep ==
    ASSUME NEW dirs, DirTree(dirs), NEW d \in dirs, NEW p \in Nat, p < Len(Slots[d]),
           NEW present, NEW parts \in PartArrays, LfnHeld(present, parts, d, p),
           NEW slot, slot = Slots[d][p + 1]
    PROVE  /\ slot.kind = "lfn" =>
                 LfnHeld(LastPart(present, slot), PutPart(parts, slot), d, p + 1)
           /\ slot.kind # "lfn" => LfnHeld(0, parts, d, p + 1)
  <1>0. Len(Slots[d]) \in Nat /\ \A i \in SlotsIn(d, ListKinds) : i \in 1 .. Len(Slots[d])
    BY SlotsWithin
  <1> DEFINE Held(pr, pa, i, n) ==
               /\ p + 1 = i - n - 1 => pr = 0
               /\ p + 1 # i - n - 1 =>
                     IF Slots[d][i].deleted
                     THEN pr = 5 /\ pa = LeftOver(Slots[d][p + 1].name)
                     ELSE pr = n /\ \A j \in i - (p + 1) .. n : pa[j] = Slots[d][i - j].name
             new == LastPart(present, slot)
             put == PutPart(parts, slot)
  <1>1. ASSUME NEW i \in SlotsIn(d, ListKinds), NEW n \in Nat,
               n <= i - 1, Run(Slots[d], i, n), i - n - 1 <= p + 1, p + 1 <= i - 1
        PROVE  /\ slot.kind = "lfn" => Held(new, put, i, n)
               /\ slot.kind # "lfn" => Held(0, parts, i, n)
    <2>1. i \in Nat
      BY <1>0
    <2>2. CASE p + 1 = i - n - 1
      <3>1. n < i - 1
        BY <2>1, <2>2
      <3>2. slot.kind # "lfn"
        BY <1>1, <2>2, <3>1 DEF Run
      <3> QED
        BY <2>2, <3>2
    <2>3. CASE p + 1 # i - n - 1 /\ Slots[d][i].deleted
      <3>1. PICK k \in 1 .. n : i - k = p + 1
        <4>1. i - (p + 1) \in 1 .. n /\ i - (i - (p + 1)) = p + 1
          BY <1>1, <2>1, <2>3
        <4> QED
          BY <4>1
      <3>2. slot.kind = "lfn" /\ slot.ord = 5 /\ slot.final = TRUE
        BY <1>1, <2>3, <3>1 DEF Run
      <3>3. DOMAIN NoParts = 1 .. 20
        BY DEF NoParts
      <3>4. new = 5
        BY <3>2, <3>3 DEF LastPart
      <3>5. put = LeftOver(slot.name)
        <4>1. put = IF slot.ord \in DOMAIN NoParts THEN [NoParts EXCEPT ![slot.ord] = slot.name]
                    ELSE NoParts
          BY <3>2, Zenon DEF PutPart
        <4>2. slot.ord \in DOMAIN NoParts
          BY <3>2, <3>3
        <4> HIDE DEF put
        <4> QED
          BY <3>2, <4>1, <4>2 DEF LeftOver
      <3> HIDE DEF put, new
      <3> QED
        BY <2>3, <3>2, <3>4, <3>5
    <2>4. CASE p + 1 # i - n - 1 /\ ~Slots[d][i].deleted
      <3> DEFINE k == i - (p + 1)
      <3>1. k \in 1 .. n /\ i - k = p + 1 /\ n # 0
        BY <1>1, <2>1, <2>4
      <3>2. slot.kind = "lfn" /\ slot.ord = k /\ slot.final = (k = n)
        BY <1>1, <2>4, <3>1 DEF Run
      <3>3. n \in DOMAIN NoParts
        BY <3>1, <1>1 DEF Run
      <3>4. DOMAIN NoParts = 1 .. 20 /\ DOMAIN parts = 1 .. 20
        BY DEF NoParts, PartArrays
      <3>5. k \in 1 .. 20
        <4>1. n \in 1 .. 20
          BY <3>3, <3>4
        <4> HIDE DEF k
        <4> QED
          BY <3>1, <4>1
      <3>6. CASE k = n
        <4>1. slot.final
          BY <3>2, <3>6, Zenon
        <4>2. new = n
          BY <3>2, <3>3, <3>6, <4>1 DEF LastPart
        <4>3. put = [NoParts EXCEPT ![n] = slot.name]
          BY <3>2, <3>3, <3>6, <4>1 DEF PutPart
        <4>4. put[n] = slot.name
          BY <3>3, <4>3
        <4>5. \A j \in k .. n : put[j] = Slots[d][i - j].name
          BY <3>1, <3>6, <4>4
        <4> HIDE DEF put, new
        <4> QED
          BY <2>4, <3>2, <4>2, <4>5
      <3>7. CASE k # n
        <4>1. ~slot.final
          BY <3>2, <3>7, Zenon
        <4>2. new = present
          BY <4>1 DEF LastPart
        <4>3. put = [parts EXCEPT ![k] = slot.name]
          BY <3>2, <3>4, <3>5, <4>1 DEF PutPart
        <4>4. p # i - n - 1 /\ i - n - 1 <= p /\ p <= i - 1 /\ i - p = k + 1
          BY <1>1, <2>1, <3>1, <3>7
        <4>5. present = n /\ \A j \in k + 1 .. n : parts[j] = Slots[d][i - j].name
          BY <1>1, <2>4, <4>4 DEF LfnHeld
        <4>6. put[k] = slot.name /\ \A j \in k + 1 .. n : put[j] = parts[j]
          <5>1. \A j \in k + 1 .. n : j \in 1 .. 20 /\ j # k
            <6>1. n \in 1 .. 20
              BY <3>3, <3>4
            <6>2. k \in 1 .. n
              BY <3>1
            <6> HIDE DEF k
            <6> QED
              BY ONLY <6>1, <6>2, PartsAbove
          <5> QED
            BY <3>4, <3>5, <4>3, <5>1
        <4>7. \A j \in k .. n : put[j] = Slots[d][i - j].name
          <5>1. \A j \in k .. n : j = k \/ j \in k + 1 .. n
            BY <3>1
          <5> HIDE DEF put, new, k
          <5> QED
            BY <3>1, <4>5, <4>6, <5>1
        <4> HIDE DEF put, new
        <4> QED
          BY <2>4, <3>2, <4>2, <4>5, <4>7
      <3> QED
        BY <3>6, <3>7
    <2> QED
      BY <2>2, <2>3, <2>4
  <1> HIDE DEF new, put
  <1>2. slot.kind = "lfn" => LfnHeld(new, put, d, p + 1)
    BY <1>1 DEF LfnHeld
  <1>3. slot.kind # "lfn" => LfnHeld(0, parts, d, p + 1)
    BY <1>1 DEF LfnHeld
  <1> QED
    BY <1>2, <1>3 DEF new, put

LEMMA ScanStart ==
    ASSUME NEW dirs, DirTree(dirs), NEW d \in dirs, NEW o,
           o.cl = d, o.s = 0, o.out = <<>>, o.slots = <<>>, o.present = 0,
           o.done = FALSE, o.error = FALSE
    PROVE  ScanInv(o, d)
  <1>1. Bpb.spc \in Nat /\ Len(Slots[d]) \in Nat
    BY BootRecordTyped, SlotsWithin
  <1>2. Rank(EntrySlots(o, d), 0) = 0
    <2>1. Within(EntrySlots(o, d), Len(Slots[d]))
      BY SlotsWithin DEF EntrySlots
    <2> QED
      BY <1>1, <2>1, RankSteps
  <1>3. LfnHeld(o.present, o.parts, d, 0)
    BY LfnStart
  <1>4. Len(o.out) = 0 /\ Len(o.slots) = 0 /\ FlatTo(DirSeq(d), o.s) = <<>>
    BY DEF FlatTo
  <1>5. InCluster(o, d, 0)
    BY <1>1, <1>2, <1>3, <1>4 DEF InCluster
  <1>6. Matched(o, d)
    BY <1>4 DEF Matched
  <1>7. 0 \in Nat
    OBVIOUS
  <1> QED
    BY <1>5, <1>6, <1>7, Zenon DEF ScanInv

LEMMA DirFlat ==
    ASSUME NEW dirs, DirTree(dirs), NEW d \in dirs, NEW s \in 0 .. Bpb.spc
    PROVE  /\ FlatTo(DirSeq(d), s) \in Seq(DirSlots) /\ All(d) = FlatTo(DirSeq(d), Bpb.spc)
           /\ Len(FlatTo(DirSeq(d), s)) \in Nat
           /\ Len(FlatTo(DirSeq(d), s)) <= Len(All(d))
           /\ \A q \in 1 .. Len(FlatTo(DirSeq(d), s)) : All(d)[q] = FlatTo(DirSeq(d), s)[q]
           /\ s # Bpb.spc => /\ DirSeq(d)[s + 1] \in Seq(DirSlots)
                             /\ FlatTo(DirSeq(d), s + 1) = FlatTo(DirSeq(d), s) \o DirSeq(d)[s + 1]
  <1>1. /\ DirSeq(d) \in Seq(Seq(DirSlots)) /\ Len(DirSeq(d)) = Bpb.spc /\ Bpb.spc \in Nat
    BY OneClusterSectors, BootRecordTyped
  <1>2. /\ FlatTo(DirSeq(d), s) \in Seq(DirSlots)
        /\ All(d) = FlatTo(DirSeq(d), Bpb.spc)
    BY <1>1, FlatFacts DEF All
  <1>3. s \in 0 .. Len(DirSeq(d)) /\ Bpb.spc \in s .. Len(DirSeq(d))
    BY <1>1
  <1>4. /\ Len(FlatTo(DirSeq(d), s)) <= Len(All(d))
        /\ \A q \in 1 .. Len(FlatTo(DirSeq(d), s)) : All(d)[q] = FlatTo(DirSeq(d), s)[q]
    BY <1>1, <1>2, <1>3, FlatPrefix
  <1>5. ASSUME s # Bpb.spc
        PROVE  /\ DirSeq(d)[s + 1] \in Seq(DirSlots)
               /\ FlatTo(DirSeq(d), s + 1) = FlatTo(DirSeq(d), s) \o DirSeq(d)[s + 1]
    <2>1. PICK k : k = s + 1
      OBVIOUS
    <2>2. k \in 1 .. Len(DirSeq(d)) /\ k - 1 = s
      BY <1>1, <1>5, <2>1
    <2>3. FlatTo(DirSeq(d), k) = FlatTo(DirSeq(d), k - 1) \o DirSeq(d)[k]
      BY <1>1, <2>2, FlatFacts
    <2> QED
      BY <1>1, <2>1, <2>2, <2>3
  <1>6. Len(FlatTo(DirSeq(d), s)) \in Nat
    BY <1>2
  <1> QED
    BY <1>2, <1>4, <1>5, <1>6

LEMMA MatchedKept ==
    ASSUME NEW d, NEW o, NEW new, Matched(o, d), new.fn = o.fn, new.out = o.out
    PROVE  Matched(new, d) /\ EntrySlots(new, d) = EntrySlots(o, d)
  BY DEF Matched, EntrySlots, KindsOf

LEMMA ScanFails ==
    ASSUME NEW d, NEW new, ScanInv(op, d), op \in CallRecords,
           new = [op EXCEPT !.done = TRUE, !.error = TRUE, !.faulty = TRUE]
    PROVE  ScanInv(new, d)
  <1>1. /\ new.fn = op.fn /\ new.out = op.out
        /\ new.done = TRUE /\ new.error = TRUE /\ new.faulty = TRUE
    BY DEF CallRecords
  <1>2. Matched(new, d)
    BY <1>1, MatchedKept DEF ScanInv
  <1> QED
    BY <1>1, <1>2 DEF ScanInv

LEMMA ScanSectorInv ==
    ASSUME NEW dirs, DirTree(dirs), NEW d \in dirs, Fat32Inv, GeoInv, op.drive = 0,
           ScanInv(op, d), ScanSector
    PROVE  ScanInv(op', d)
  <1> DEFINE lba == fat32_cluster_to_lba(op.cl) + op.s
  <1>0. /\ op \in CallRecords /\ op.cl \in Nat /\ op.s \in Nat /\ Bpb.spc \in Nat
        /\ op.faulty \in BOOLEAN /\ op.slots = <<>> /\ op.s < Bpb.spc
        /\ ~op.done /\ op.cl < EOC /\ EOC \in Nat
    BY BootRecordTyped, Sizes DEF Fat32Inv, Fat32Type, CallRecords, ScanSector, GeoInv, Scanning
  <1>1. lba = LbaOf(Vol, op.cl) + op.s /\ LbaOf(Vol, op.cl) \in Int
    BY <1>0, Address
  <1>2. \/ /\ Readable(0, lba)
           /\ op' = [op EXCEPT !.slots = Image[0][lba].dir, !.s = @ + 1]
        \/ op' = [op EXCEPT !.done = TRUE, !.error = TRUE, !.faulty = @ \/ Readable(0, lba)]
    BY DEF ScanSector, GeoInv
  <1>3. Readable(0, lba) <=> lba \in DOMAIN Image[0]
    BY OnDrive
  <1> HIDE DEF lba
  <1>4. ASSUME lba \in DOMAIN Image[0],
               op' = [op EXCEPT !.done = TRUE, !.error = TRUE, !.faulty = @ \/ Readable(0, lba)]
        PROVE  ScanInv(op', d)
    <2>1. op' = [op EXCEPT !.done = TRUE, !.error = TRUE, !.faulty = TRUE]
      BY <1>0, <1>3, <1>4 DEF CallRecords
    <2> QED
      BY <1>0, <2>1, ScanFails
  <1>5. ASSUME NEW p \in Nat, InCluster(op, d, p)  PROVE ScanInv(op', d)
    <2>1. op.cl = d /\ op.s \in 0 .. Bpb.spc /\ op.s # Bpb.spc
      BY <1>0, <1>5 DEF InCluster
    <2>2. PICK k \in 1 .. Bpb.spc : k = op.s + 1 /\ lba = LbaOf(Vol, d) + k - 1
      BY <1>0, <1>1, <2>1
    <2>3. lba \in DOMAIN Image[0] /\ Image[0][lba].dir = DirSeq(d)[k]
      <3>1. Whole(d)
        BY DirOf
      <3> QED
        BY <2>2, <3>1, ClusterSectors DEF DirSeq
    <2>4. CASE op' = [op EXCEPT !.slots = Image[0][lba].dir, !.s = @ + 1]
      <3> DEFINE old == FlatTo(DirSeq(d), op.s)
                 new == FlatTo(DirSeq(d), k)
                 more == DirSeq(d)[k]
                 o == op'
      <3>1. /\ old \in Seq(DirSlots) /\ more \in Seq(DirSlots) /\ new = old \o more
        BY <2>1, <2>2, DirFlat
      <3>2. /\ o.slots = more /\ o.s = k /\ o.cl = d /\ o.fn = op.fn /\ o.out = op.out
            /\ o.present = op.present /\ o.parts = op.parts
            /\ o.done = op.done /\ o.error = op.error /\ o.faulty = op.faulty
        BY <1>0, <2>1, <2>2, <2>3, <2>4 DEF CallRecords
      <3>3. \A q \in 1 .. Len(new) : All(d)[q] = new[q]
        <4>1. k \in 0 .. Bpb.spc
          OBVIOUS
        <4> QED
          BY <4>1, DirFlat
      <3>4. p = Len(old)
        BY <1>0, <1>5, <3>1 DEF InCluster
      <3> HIDE DEF old, new, more, o
      <3>5. Len(new) = p + Len(more) /\ \A j \in 1 .. Len(more) : All(d)[p + j] = more[j]
        <4>1. Len(new) = Len(old) + Len(more) /\ Len(old) \in Nat /\ Len(more) \in Nat
          BY <3>1, ConcatProperties
        <4> SUFFICES ASSUME NEW j \in 1 .. Len(more)  PROVE All(d)[p + j] = more[j]
          BY <3>4, <4>1
        <4>2. (old \o more)[Len(old) + j] = more[j]
          BY <3>1, ConcatSecond
        <4>3. p + j \in 1 .. Len(new)
          BY <3>4, <4>1
        <4>4. All(d)[p + j] = new[p + j]
          BY <3>3, <4>3, Zenon
        <4> QED
          BY <3>1, <3>4, <4>2, <4>4
      <3>6. InCluster(o, d, p)
        <4>1. k \in 0 .. Bpb.spc /\ p \in 0 .. Len(Slots[d])
              /\ Len(op.out) = Rank(EntrySlots(op, d), p)
              /\ (op.fn = "list" => LfnHeld(op.present, op.parts, d, p))
          BY <1>5 DEF InCluster
        <4>2. EntrySlots(o, d) = EntrySlots(op, d)
          BY <3>2 DEF EntrySlots, KindsOf
        <4> QED
          BY <3>2, <3>5, <4>1, <4>2 DEF InCluster, new
      <3>7. Matched(o, d)
        BY <3>2, MatchedKept DEF ScanInv
      <3>8. ScanInv(o, d)
        BY <1>0, <3>2, <3>6, <3>7 DEF ScanInv
      <3> QED
        BY <3>8 DEF o
    <2> QED
      BY <1>2, <1>4, <2>3, <2>4
  <1>6. ASSUME Beyond(op, d)  PROVE ScanInv(op', d)
    <2>1. /\ op.s = 0 /\ LbaOf(Vol, op.cl) \in DOMAIN Image[0]
          /\ Image[0][LbaOf(Vol, op.cl)].dir # <<>>
          /\ Head(Image[0][LbaOf(Vol, op.cl)].dir).kind = "end"
      BY <1>0, <1>6 DEF Beyond
    <2>2. lba = LbaOf(Vol, op.cl)
      BY <1>1, <2>1
    <2>3. CASE op' = [op EXCEPT !.slots = Image[0][lba].dir, !.s = @ + 1]
      <3>1. /\ op'.slots = Image[0][lba].dir /\ op'.fn = op.fn /\ op'.out = op.out
            /\ op'.done = op.done /\ op'.error = op.error /\ op'.faulty = op.faulty
        BY <1>0, <2>3 DEF CallRecords
      <3>2. Matched(op', d) /\ EntrySlots(op', d) = EntrySlots(op, d)
        BY <3>1, MatchedKept DEF ScanInv
      <3>3. Beyond(op', d)
        BY <1>6, <2>1, <2>2, <3>1, <3>2 DEF Beyond
      <3> QED
        BY <1>0, <3>1, <3>2, <3>3 DEF ScanInv
    <2> QED
      BY <1>2, <1>4, <2>1, <2>2, <2>3
  <1> QED
    BY <1>0, <1>5, <1>6 DEF ScanInv

\* The same call, further on.
SameCall(o, new) ==
    /\ new.cmd = o.cmd /\ new.fn = o.fn /\ new.arg = o.arg /\ new.drive = o.drive
    /\ new.max = o.max /\ new.want = o.want /\ new.cur = o.cur /\ new.parent = o.parent
    /\ new.path = o.path /\ (new.faulty = FALSE => o.faulty = FALSE)

\* What one slot does to the call, in both functions.
AfterSlot(slot, new) ==
    /\ SameCall(op, new) /\ new.cl = op.cl /\ new.s = op.s
    /\ new.error = op.error /\ new.faulty = op.faulty /\ new.slots = Tail(op.slots)
    /\ slot.kind = "end" => new.done = TRUE /\ new.out = op.out
    /\ slot.kind \notin KindsOf(op) \cup {"end"} => new.done = op.done /\ new.out = op.out
    /\ slot.kind \in KindsOf(op) /\ Len(op.out) >= op.max =>
          new.done = TRUE /\ new.out = op.out
    /\ slot.kind \in KindsOf(op) /\ Len(op.out) < op.max =>
          /\ new.done = op.done
          /\ new.out = Append(op.out, Entry(slot, IF op.fn = "list" THEN NameOf(slot)
                                                  ELSE <<slot.name>>))
    /\ op.fn = "list" /\ slot.kind = "lfn" =>
          new.parts = PutPart(op.parts, slot) /\ new.present = LastPart(op.present, slot)
    /\ op.fn = "list" /\ slot.kind \notin {"end", "lfn"} =>
          new.done = TRUE \/ (new.parts = op.parts /\ new.present = 0)

LEMMA SlotEffect ==
    ASSUME op \in CallRecords, op.fn \in {"list", "read"}, op.out \in Seq(EntryRecords),
           Len(op.out) <= op.max, NEW slot \in DirSlots, NEW new,
           new = [(IF op.fn = "list" THEN ListSlot(slot) ELSE ReadSlot(slot))
                    EXCEPT !.slots = Tail(@)]
    PROVE  AfterSlot(slot, new)
  <1> USE DEF AfterSlot, SameCall
  <1>1. slot.kind \in {"end", "lfn", "label", "dir", "file"} /\ ~LooksDeleted(slot)
    BY NoneLooksDeleted DEF DirSlots
  <1>2. Len(op.out) \in Nat /\ op.max \in Nat
        /\ (Len(op.out) >= op.max \/ Len(op.out) < op.max)
        /\ ~(Len(op.out) >= op.max /\ Len(op.out) < op.max)
    BY DEF CallRecords
  <1> DEFINE name == IF op.fn = "list" THEN NameOf(slot) ELSE <<slot.name>>
             e == Entry(slot, name)
             mid == IF op.fn = "list" THEN ListSlot(slot) ELSE ReadSlot(slot)
             Same(m) == /\ SameCall(op, m) /\ m.cl = op.cl /\ m.s = op.s
                        /\ m.error = op.error /\ m.faulty = op.faulty /\ m.slots = op.slots
  <1>3. mid \in CallRecords
    <2>1. SlotHeld(op)
      BY DEF SlotHeld
    <2> QED
      BY <2>1, SlotKept DEF SlotHeld
  <1>4. /\ SameCall(mid, new) /\ new.cl = mid.cl /\ new.s = mid.s
        /\ new.error = mid.error /\ new.faulty = mid.faulty /\ new.slots = Tail(mid.slots)
        /\ new.done = mid.done /\ new.out = mid.out
        /\ new.parts = mid.parts /\ new.present = mid.present
    <2>1. new = [mid EXCEPT !.slots = Tail(@)]
      OBVIOUS
    <2> HIDE DEF mid
    <2> QED
      BY <1>3, <2>1 DEF CallRecords
  <1> DEFINE Kept == /\ SameCall(op, new) /\ new.cl = op.cl /\ new.s = op.s /\ new.error = op.error
                     /\ new.faulty = op.faulty /\ new.slots = Tail(op.slots)
             full == Len(op.out) >= op.max
             room == Len(op.out) < op.max
             bigger == Append(op.out, e)
             put == PutPart(op.parts, slot)
             last == LastPart(op.present, slot)
  <1>5. ASSUME Same(mid) PROVE Kept
    <2> HIDE DEF mid
    <2> QED
      BY <1>4, <1>5
  <1>6. ASSUME mid = [op EXCEPT !.done = TRUE]
        PROVE  Kept /\ new.done = TRUE /\ new.out = op.out
    <2> HIDE DEF mid
    <2>1. Same(mid) /\ mid.done = TRUE /\ mid.out = op.out
      BY <1>6 DEF CallRecords
    <2> QED
      BY <1>4, <1>5, <2>1
  <1>7. CASE op.fn = "list"
    <2>1. mid = ListSlot(slot) /\ KindsOf(op) = {"dir", "file"}
      BY <1>7 DEF KindsOf, ListKinds
    <2>2. CASE slot.kind = "end" \/ (slot.kind \in {"dir", "file"} /\ full)
      <3>1. mid = [op EXCEPT !.done = TRUE]
        BY <1>1, <2>1, <2>2 DEF ListSlot
      <3>2. Kept /\ new.done = TRUE /\ new.out = op.out
        BY <1>6, <3>1
      <3>3. /\ slot.kind \in KindsOf(op) \cup {"end"} /\ slot.kind # "lfn"
            /\ ~(slot.kind \in KindsOf(op) /\ Len(op.out) < op.max)
        BY <1>2, <2>1, <2>2
      <3> HIDE DEF mid
      <3> QED
        BY <3>2, <3>3 DEF Kept
    <2>3. CASE slot.kind = "lfn"
      <3>1. mid = [op EXCEPT !.parts = put, !.present = last]
        BY <1>1, <2>1, <2>3 DEF ListSlot
      <3> HIDE DEF put, last, mid
      <3>2. Same(mid) /\ mid.done = op.done /\ mid.out = op.out /\ mid.parts = put
            /\ mid.present = last
        BY <3>1 DEF CallRecords
      <3>3. Kept /\ new.done = op.done /\ new.out = op.out /\ new.parts = put /\ new.present = last
        BY <1>4, <1>5, <3>2
      <3> QED
        BY <2>1, <2>3, <3>3 DEF Kept, put, last
    <2>4. CASE slot.kind = "label"
      <3>1. mid = [op EXCEPT !.present = 0]
        BY <1>1, <2>1, <2>4 DEF ListSlot
      <3> HIDE DEF mid
      <3>2. Same(mid) /\ mid.done = op.done /\ mid.out = op.out /\ mid.parts = op.parts
            /\ mid.present = 0
        BY <3>1 DEF CallRecords
      <3>3. Kept /\ new.done = op.done /\ new.out = op.out /\ new.parts = op.parts
            /\ new.present = 0
        BY <1>4, <1>5, <3>2
      <3> QED
        BY <2>1, <2>4, <3>3 DEF Kept
    <2>5. CASE slot.kind \in {"dir", "file"} /\ room
      <3>1. mid = [op EXCEPT !.out = Append(@, e), !.present = 0]
        BY <1>1, <1>2, <1>7, <2>1, <2>5 DEF ListSlot
      <3>2. mid = [op EXCEPT !.out = bigger, !.present = 0]
        <4> HIDE DEF mid, e
        <4> QED
          BY <3>1
      <3> HIDE DEF mid, bigger
      <3>3. Same(mid) /\ mid.done = op.done /\ mid.out = bigger /\ mid.parts = op.parts
            /\ mid.present = 0
        BY <3>2 DEF CallRecords
      <3>4. Kept /\ new.done = op.done /\ new.out = bigger /\ new.parts = op.parts
            /\ new.present = 0
        BY <1>4, <1>5, <3>3
      <3> QED
        BY <1>2, <2>1, <2>5, <3>4 DEF Kept, bigger
    <2> QED
      BY <1>1, <1>2, <2>2, <2>3, <2>4, <2>5
  <1>8. CASE op.fn = "read"
    <2>1. mid = ReadSlot(slot) /\ KindsOf(op) = {"dir", "file", "label"} /\ op.fn # "list"
      BY <1>8 DEF KindsOf, ReadKinds
    <2>2. CASE slot.kind = "end" \/ (slot.kind \in {"dir", "file", "label"} /\ full)
      <3>1. mid = [op EXCEPT !.done = TRUE]
        BY <1>1, <2>1, <2>2 DEF ReadSlot
      <3>2. Kept /\ new.done = TRUE /\ new.out = op.out
        BY <1>6, <3>1
      <3>3. /\ slot.kind \in KindsOf(op) \cup {"end"} /\ slot.kind # "lfn"
            /\ ~(slot.kind \in KindsOf(op) /\ Len(op.out) < op.max)
        BY <1>2, <2>1, <2>2
      <3> HIDE DEF mid
      <3> QED
        BY <3>2, <3>3 DEF Kept
    <2>3. CASE slot.kind = "lfn"
      <3>1. mid = op
        BY <1>1, <2>1, <2>3 DEF ReadSlot
      <3> HIDE DEF mid
      <3>2. Kept /\ new.done = op.done /\ new.out = op.out
        BY <1>4, <1>5, <3>1
      <3> QED
        BY <2>1, <2>3, <3>2 DEF Kept
    <2>4. CASE slot.kind \in {"dir", "file", "label"} /\ room
      <3>1. mid = [op EXCEPT !.out = Append(@, e)]
        BY <1>1, <1>2, <2>1, <2>4 DEF ReadSlot
      <3>2. mid = [op EXCEPT !.out = bigger]
        <4> HIDE DEF mid, e
        <4> QED
          BY <3>1
      <3> HIDE DEF mid, bigger
      <3>3. Same(mid) /\ mid.done = op.done /\ mid.out = bigger
        BY <3>2 DEF CallRecords
      <3>4. Kept /\ new.done = op.done /\ new.out = bigger
        BY <1>4, <1>5, <3>3
      <3> QED
        BY <1>2, <2>1, <2>4, <3>4 DEF Kept, bigger
    <2> QED
      BY <1>1, <1>2, <2>2, <2>3, <2>4
  <1> QED
    BY <1>7, <1>8

\* The name that fat32_list_dir puts together for slot p + 1.
LEMMA NameRight ==
    ASSUME NEW dirs, DirTree(dirs), NEW d \in dirs, NEW p \in Nat,
           p + 1 \in SlotsIn(d, ListKinds), LfnHeld(op.present, op.parts, d, p)
    PROVE  NameSeen(NameOf(Slots[d][p + 1]), LongName(Slots[d], p + 1))
  <1> DEFINE i == p + 1
             slots == Slots[d]
  <1>1. i \in DOMAIN slots /\ slots[i].kind \in {"dir", "file"} /\ i \in Nat
    BY DEF SlotsIn, ListKinds
  <1>2. NameWhole(slots, i)
    BY <1>1, DirOf
  <1>3. PICK n \in 0 .. i - 1 : Run(slots, i, n)
    BY <1>2, RunOf
  <1>4. /\ n = 0 => LongName(slots, i) = <<slots[i].name>>
        /\ ~slots[i].deleted => /\ n = 1 => LongName(slots, i) = <<slots[i - 1].name>>
                                /\ n # 0 => Len(LongName(slots, i)) = n
        /\ slots[i].deleted /\ n # 0 =>
              LongName(slots, i) = <<slots[i - 1].name>> /\ slots[i - 1].name # NoName
    <2>1. CASE slots[i].deleted
      BY <1>1, <1>3, <2>1, LeftOverOf
    <2>2. CASE ~slots[i].deleted
      BY <1>1, <1>3, <2>2, LongNameOf
    <2> QED
      BY <2>1, <2>2
  <1>5. /\ n \in Nat /\ n <= i - 1 /\ i - n - 1 <= p /\ p <= i - 1
        /\ p = i - n - 1 <=> n = 0
        /\ i - p = 1
    BY <1>1, <1>3
  <1>6. /\ n = 0 => op.present = 0
        /\ n # 0 /\ ~slots[i].deleted =>
              op.present = n /\ \A j \in 1 .. n : op.parts[j] = slots[i - j].name
        /\ n # 0 /\ slots[i].deleted => op.present = 5 /\ op.parts = LeftOver(slots[p].name)
    BY <1>3, <1>5 DEF LfnHeld
  <1>7. CASE n = 0
    <2>1. NameOf(slots[i]) = <<slots[i].name>>
      BY <1>6, <1>7 DEF NameOf
    <2>2. Len(<<slots[i].name>>) = 1
      OBVIOUS
    <2> QED
      BY <1>4, <1>7, <2>1, <2>2 DEF NameSeen
  <1>8. CASE n # 0 /\ slots[i].deleted
    <2>1. i - 1 = p
      OBVIOUS
    <2>2. NameOf(slots[i]) = <<slots[p].name>>
      BY <1>4, <1>6, <1>8, <2>1, GlueLeftOver DEF NameOf
    <2>3. LongName(slots, i) = <<slots[p].name>> /\ Len(<<slots[p].name>>) = 1
      BY <1>4, <1>8, <2>1
    <2> QED
      BY <2>2, <2>3 DEF NameSeen
  <1>9. CASE n # 0 /\ ~slots[i].deleted
    <2>1. NameOf(slots[i]) = Glue(op.parts, n)
      BY <1>6, <1>9 DEF NameOf
    <2>2. \A j \in 1 .. n : op.parts[j] # NoName
      BY <1>3, <1>6, <1>9 DEF Run
    <2>3. /\ Len(Glue(op.parts, n)) = n
          /\ n = 1 => Glue(op.parts, n) = <<op.parts[1]>>
      BY <1>5, <1>9, <2>2, GlueOf
    <2>4. n = 1 => op.parts[1] = slots[i - 1].name
      <3>1. \A j \in 1 .. n : op.parts[j] = slots[i - j].name
        BY <1>6, <1>9
      <3> QED
        BY <3>1
    <2> QED
      BY <1>4, <1>9, <2>1, <2>3, <2>4 DEF NameSeen
  <1> QED
    BY <1>7, <1>8, <1>9


LEMMA MatchedMore ==
    ASSUME NEW d, NEW o, NEW new, NEW T, NEW e, NEW i \in EntrySlots(o, d),
           Matched(o, d), new.fn = o.fn, o.out \in Seq(T), new.out = Append(o.out, e),
           Rank(EntrySlots(o, d), i) = Len(o.out) + 1, EntryIs(o.fn, e, d, i)
    PROVE  /\ Matched(new, d) /\ EntrySlots(new, d) = EntrySlots(o, d)
           /\ Len(new.out) = Len(o.out) + 1
  <1>1. EntrySlots(new, d) = EntrySlots(o, d)
    BY DEF EntrySlots, KindsOf
  <1>2. /\ Len(new.out) = Len(o.out) + 1 /\ new.out[Len(o.out) + 1] = e
        /\ \A k \in 1 .. Len(o.out) : new.out[k] = o.out[k]
    <2>1. \A s, x : s \in Seq(T) => /\ Len(Append(s, x)) = Len(s) + 1
                                    /\ Append(s, x)[Len(s) + 1] = x
                                    /\ \A k \in 1 .. Len(s) : Append(s, x)[k] = s[k]
      OBVIOUS
    <2> QED
      BY <2>1
  <1>3. ASSUME NEW k \in 1 .. Len(new.out)
        PROVE  \E j \in EntrySlots(new, d) :
                  Rank(EntrySlots(new, d), j) = k /\ EntryIs(new.fn, new.out[k], d, j)
    <2>1. Len(o.out) \in Nat
      OBVIOUS
    <2>2. CASE k \in 1 .. Len(o.out)
      <3>1. PICK j \in EntrySlots(o, d) :
              Rank(EntrySlots(o, d), j) = k /\ EntryIs(o.fn, o.out[k], d, j)
        BY <2>2 DEF Matched
      <3> QED
        BY <1>1, <1>2, <2>2, <3>1
    <2>3. CASE k = Len(o.out) + 1
      BY <1>1, <1>2, <2>3
    <2> QED
      BY <1>2, <2>1, <2>2, <2>3
  <1> QED
    BY <1>1, <1>2, <1>3 DEF Matched

\* The slots still to be looked at, after one more.
LEMMA NextSlot ==
    ASSUME NEW slots \in Seq(DirSlots), slots # <<>>
    PROVE  /\ Len(slots) \in Nat /\ Len(slots) >= 1 /\ 1 \in 1 .. Len(slots)
           /\ Head(slots) \in DirSlots /\ Head(slots) = slots[1]
           /\ Tail(slots) \in Seq(DirSlots) /\ Len(Tail(slots)) = Len(slots) - 1
           /\ \A j \in 1 .. Len(slots) - 1 : Tail(slots)[j] = slots[j + 1]
  OBVIOUS

LEMMA ScanSlotInv ==
    ASSUME NEW dirs, DirTree(dirs), NEW d \in dirs, Fat32Inv, ScanInv(op, d), ScanSlot
    PROVE  ScanInv(op', d)
  <1> DEFINE slot == Head(op.slots)
             new == op'
             S == EntrySlots(op, d)
  <1>0. /\ op \in CallRecords /\ op.fn \in {"list", "read"} /\ op.out \in Seq(EntryRecords)
        /\ Len(op.out) <= op.max /\ op.max \in Nat /\ Len(op.out) \in Nat
        /\ op.slots \in Seq(DirSlots) /\ op.slots # <<>> /\ op.parts \in PartArrays
        /\ ~op.done /\ op.cl < EOC /\ op.cl \in Nat /\ EOC \in Nat
    <2>1. op.fn \in {"list", "read"} /\ op.slots # <<>> /\ ~op.done /\ op.cl < EOC
      BY Zenon DEF ScanSlot, Scanning
    <2>2. /\ op \in CallRecords /\ op.out \in Seq(EntryRecords) /\ Len(op.out) <= op.max
      BY <2>1 DEF Fat32Inv, Fat32Type, BuffersHold
    <2>3. /\ op.max \in Nat /\ op.slots \in Seq(DirSlots) /\ op.parts \in PartArrays
          /\ op.cl \in Nat /\ Len(op.out) \in Nat
      BY <2>2 DEF CallRecords
    <2> QED
      BY <2>1, <2>2, <2>3, Sizes
  <1>1. slot \in DirSlots
    BY <1>0
  <1>2. AfterSlot(slot, new)
    <2>1. new = [(IF op.fn = "list" THEN ListSlot(slot) ELSE ReadSlot(slot))
                    EXCEPT !.slots = Tail(@)]
      BY DEF ScanSlot
    <2> HIDE DEF slot, new
    <2> QED
      BY <1>0, <1>1, <2>1, SlotEffect, Zenon
  <1>2a. /\ new.fn = op.fn /\ new.cl = op.cl /\ new.s = op.s /\ new.max = op.max
        /\ new.error = op.error /\ new.faulty = op.faulty /\ new.slots = Tail(op.slots)
    BY <1>2 DEF AfterSlot, SameCall
  <1> HIDE DEF new, slot
  <1>3. new.error => new.faulty /\ new.done
    BY <1>0, <1>2 DEF ScanInv, AfterSlot
  <1>4. Len(Slots[d]) \in Nat /\ Within(S, Len(Slots[d])) /\ Cardinality(S) \in Nat
    BY SlotsWithin, RankFinite DEF EntrySlots
  <1> HIDE DEF S
  <1>5. ASSUME new.done = TRUE, new.out = op.out,
               \/ Len(op.out) = Cardinality(S)
               \/ Len(op.out) = op.max /\ op.max <= Cardinality(S)
        PROVE  ScanInv(new, d)
    <2>1. Matched(new, d) /\ EntrySlots(new, d) = S
      BY <1>2a, <1>5, MatchedKept DEF ScanInv, S
    <2>2. Min({Cardinality(S), op.max}) = Len(op.out)
      <3>1. Min({Cardinality(S), op.max}) = IF Cardinality(S) <= op.max THEN Cardinality(S) ELSE op.max
        BY <1>0, <1>4, MinPair
      <3> HIDE DEF S
      <3> QED
        BY <1>0, <1>4, <1>5, <3>1
    <2>3. Complete(new, d)
      BY <1>2a, <1>5, <2>1, <2>2 DEF Complete
    <2> QED
      BY <1>3, <1>5, <2>1, <2>3 DEF ScanInv
  <1>6. CASE Beyond(op, d)
    <2>1. slot.kind = "end" /\ Len(op.out) = Cardinality(S)
      BY <1>0, <1>6 DEF Beyond, slot, S
    <2> QED
      BY <1>2, <1>5, <2>1 DEF new, AfterSlot
  <1>7. ASSUME NEW p \in Nat, InCluster(op, d, p)  PROVE ScanInv(new, d)
    <2>1. /\ op.cl = d /\ op.s \in 0 .. Bpb.spc /\ p \in 0 .. Len(Slots[d])
          /\ p + Len(op.slots) = Len(FlatTo(DirSeq(d), op.s))
          /\ \A j \in 1 .. Len(op.slots) : op.slots[j] = All(d)[p + j]
          /\ Len(op.out) = Rank(S, p)
          /\ op.fn = "list" => LfnHeld(op.present, op.parts, d, p)
      BY <1>7 DEF InCluster, S
    <2>2. /\ Len(op.slots) \in Nat /\ Len(op.slots) >= 1 /\ slot = All(d)[p + 1]
          /\ Len(Tail(op.slots)) = Len(op.slots) - 1
          /\ \A j \in 1 .. Len(Tail(op.slots)) : Tail(op.slots)[j] = All(d)[p + 1 + j]
      <3> DEFINE rest == op.slots
      <3>1. /\ Len(rest) \in Nat /\ Len(rest) >= 1 /\ 1 \in 1 .. Len(rest)
            /\ Head(rest) = rest[1] /\ Len(Tail(rest)) = Len(rest) - 1
            /\ \A j \in 1 .. Len(rest) - 1 : Tail(rest)[j] = rest[j + 1]
        BY <1>0, NextSlot, Zenon
      <3>2. \A j \in 1 .. Len(rest) : rest[j] = All(d)[p + j]
        BY <2>1
      <3>3. slot = Head(rest)
        BY DEF slot
      <3> HIDE DEF rest
      <3>4. \A j \in 1 .. Len(Tail(rest)) : Tail(rest)[j] = All(d)[p + 1 + j]
        <4> TAKE j \in 1 .. Len(Tail(rest))
        <4>1. j + 1 \in 1 .. Len(rest) /\ p + (j + 1) = p + 1 + j /\ j \in 1 .. Len(rest) - 1
          BY <3>1
        <4> QED
          BY <3>1, <3>2, <4>1
      <3> QED
        BY <3>1, <3>2, <3>3, <3>4 DEF rest
    <2>3. /\ Len(FlatTo(DirSeq(d), op.s)) \in Nat
          /\ Len(FlatTo(DirSeq(d), op.s)) <= Len(All(d))
      BY <2>1, DirFlat
    <2>4. /\ Len(All(d)) \in Nat
          /\ \A i \in 1 .. Len(Slots[d]) : Slots[d][i] = All(d)[i] /\ Slots[d][i].kind # "end"
          /\ Len(Slots[d]) < Len(All(d)) => All(d)[Len(Slots[d]) + 1].kind = "end"
      <3>1. All(d) \in Seq(DirSlots)
        BY SlotsFacts
      <3> QED
        BY <3>1, SlotsFacts
    <2>5. /\ Rank(S, p + 1) = IF p + 1 \in S THEN Rank(S, p) + 1 ELSE Rank(S, p)
          /\ Rank(S, Len(Slots[d])) = Cardinality(S)
      <3> DEFINE n == Len(Slots[d])
      <3>1. n \in Nat /\ Within(S, n)
        BY <1>4
      <3> HIDE DEF n
      <3>2. Rank(S, p + 1) = IF p + 1 \in S THEN Rank(S, p) + 1 ELSE Rank(S, p)
        BY <3>1, RankSteps
      <3>3. Rank(S, n) = Cardinality(S)
        BY <3>1, RankSteps
      <3> QED
        BY <3>2, <3>3 DEF n
    <2>6. CASE p = Len(Slots[d])
      <3>1. p < Len(All(d))
        BY <2>1, <2>2, <2>3, <2>4
      <3>2. slot.kind = "end"
        BY <2>2, <2>4, <2>6, <3>1
      <3> QED
        BY <1>2, <1>5, <2>1, <2>5, <2>6, <3>2 DEF AfterSlot
    <2>7. CASE p # Len(Slots[d])
      <3>1. p + 1 \in 1 .. Len(Slots[d]) /\ p < Len(Slots[d])
        BY <1>4, <2>1, <2>7
      <3>2. slot = Slots[d][p + 1] /\ slot.kind # "end"
        BY <2>2, <2>4, <3>1
      <3>3. p + 1 \in S <=> slot.kind \in KindsOf(op)
        BY <3>1, <3>2, SlotsWithin DEF EntrySlots, S
      <3>4. op.fn = "list" =>
              /\ slot.kind = "lfn" =>
                    LfnHeld(LastPart(op.present, slot), PutPart(op.parts, slot), d, p + 1)
              /\ slot.kind # "lfn" => LfnHeld(0, op.parts, d, p + 1)
        BY <1>0, <2>1, <3>1, <3>2, LfnStep
      <3>5. op.fn = "list" /\ ~new.done => LfnHeld(new.present, new.parts, d, p + 1)
        BY <1>2, <3>2, <3>4 DEF AfterSlot
      <3>6. ASSUME ~new.done, Matched(new, d), EntrySlots(new, d) = S,
                   Len(new.out) = Rank(S, p + 1)
            PROVE  ScanInv(new, d)
        <4>1. p + 1 \in 0 .. Len(Slots[d]) /\ p + 1 + Len(new.slots) = p + Len(op.slots)
          BY <1>2a, <1>4, <2>2, <3>1
        <4>2. InCluster(new, d, p + 1)
          BY <1>2a, <2>1, <2>2, <3>5, <3>6, <4>1 DEF InCluster, S
        <4>3. p + 1 \in Nat
          OBVIOUS
        <4> QED
          BY <1>3, <3>6, <4>2, <4>3 DEF ScanInv
      <3>7. CASE slot.kind \notin KindsOf(op)
        <4>1. new.done = op.done /\ new.out = op.out
          BY <1>2, <3>2, <3>7 DEF AfterSlot
        <4>2. Matched(new, d) /\ EntrySlots(new, d) = S
          BY <1>2a, <4>1, MatchedKept DEF ScanInv, S
        <4>3. Len(new.out) = Rank(S, p + 1)
          BY <2>1, <2>5, <3>3, <3>7, <4>1
        <4> QED
          BY <1>0, <3>6, <4>1, <4>2, <4>3
      <3>8. CASE slot.kind \in KindsOf(op) /\ Len(op.out) >= op.max
        <4>1. Rank(S, p + 1) = Len(op.out) + 1
          BY <2>1, <2>5, <3>3, <3>8
        <4>2. p + 1 <= p + 1 /\ p + 1 \in Nat
          OBVIOUS
        <4>3. Rank(S, p + 1) <= Cardinality(S)
          BY <1>4, <4>2, RankGrows
        <4>4. Len(op.out) = op.max /\ op.max <= Cardinality(S)
          BY <1>0, <1>4, <3>8, <4>1, <4>3
        <4> QED
          BY <1>2, <1>5, <3>8, <4>4 DEF AfterSlot
      <3>9. CASE slot.kind \in KindsOf(op) /\ Len(op.out) < op.max
        <4> DEFINE e == Entry(slot, IF op.fn = "list" THEN NameOf(slot) ELSE <<slot.name>>)
        <4>1. new.done = op.done /\ new.out = Append(op.out, e)
          BY <1>2, <3>9 DEF AfterSlot
        <4>2. Rank(S, p + 1) = Len(op.out) + 1 /\ p + 1 \in S
          BY <2>1, <2>5, <3>3, <3>9
        <4>3. EntryIs(op.fn, e, d, p + 1)
          <5>1. op.fn = "list" => NameSeen(NameOf(slot), LongName(Slots[d], p + 1))
            <6> SUFFICES ASSUME op.fn = "list"
                         PROVE  NameSeen(NameOf(slot), LongName(Slots[d], p + 1))
              OBVIOUS
            <6>1. p + 1 \in SlotsIn(d, ListKinds)
              BY <4>2 DEF EntrySlots, KindsOf, S
            <6> QED
              BY <2>1, <3>2, <6>1, NameRight
          <5>2. e.name = IF op.fn = "list" THEN NameOf(slot) ELSE <<slot.name>>
            BY DEF Entry
          <5>3. /\ e.kind = slot.kind /\ e.first = slot.first /\ e.size = slot.size
                /\ e.deleted = slot.deleted
            BY DEF Entry
          <5> HIDE DEF e
          <5> QED
            BY <1>0, <3>2, <5>1, <5>2, <5>3 DEF EntryIs
        <4> HIDE DEF e
        <4>4. /\ Matched(new, d) /\ EntrySlots(new, d) = S
              /\ Len(new.out) = Len(op.out) + 1
          <5>1. Matched(op, d)
            BY DEF ScanInv
          <5>2. PICK i \in EntrySlots(op, d) :
                  Rank(EntrySlots(op, d), i) = Len(op.out) + 1 /\ EntryIs(op.fn, e, d, i)
            BY <4>2, <4>3 DEF S
          <5>3. new.fn = op.fn /\ op.out \in Seq(EntryRecords)
            BY <1>0, <1>2a
          <5> QED
            BY <4>1, <5>1, <5>2, <5>3, MatchedMore DEF S
        <4> QED
          BY <1>0, <3>6, <4>1, <4>2, <4>4
      <3>10. Len(op.out) >= op.max \/ Len(op.out) < op.max
        BY <1>0
      <3> QED
        BY <3>7, <3>8, <3>9, <3>10
    <2> QED
      BY <2>6, <2>7
  <1> QED
    BY <1>0, <1>6, <1>7 DEF ScanInv, new

LEMMA ScanNextInv ==
    ASSUME NEW dirs, DirTree(dirs), NEW d \in dirs, Fat32Inv, GeoInv, op.drive = 0,
           ScanInv(op, d), ScanNext
    PROVE  ScanInv(op', d)
  <1> DEFINE S == EntrySlots(op, d)
  <1>0. /\ op \in CallRecords /\ ~op.done /\ op.cl < EOC /\ op.cl \in Nat /\ op.s \in Nat
        /\ op.slots = <<>> /\ op.s >= Bpb.spc /\ Bpb.spc \in Nat \ {0} /\ EOC \in Nat
    BY BootRecordTyped, Sizes DEF Fat32Inv, Fat32Type, CallRecords, ScanNext, Scanning, GeoInv
  <1>1. PICK next \in NextValues(0, op.cl), failed \in BOOLEAN :
          /\ fat32_get_next_cluster(0, op.cl, next, failed)
          /\ op' = [op EXCEPT !.cl = next, !.s = 0, !.faulty = @ \/ failed]
    <2> DEFINE Moved(next, failed) ==
                 op' = [op EXCEPT !.cl = next, !.s = 0, !.faulty = @ \/ failed]
    <2>1. \E next \in NextValues(op.drive, op.cl), failed \in BOOLEAN :
            fat32_get_next_cluster(op.drive, op.cl, next, failed) /\ Moved(next, failed)
      BY Zenon DEF ScanNext
    <2> HIDE DEF Moved
    <2>2. \E next \in NextValues(0, op.cl), failed \in BOOLEAN :
            fat32_get_next_cluster(0, op.cl, next, failed) /\ Moved(next, failed)
      BY <2>1
    <2> QED
      BY <2>2, Zenon DEF Moved
  <1>2. \/ failed /\ next = EOC
        \/ ~failed /\ SeenAt(op.cl) \in DOMAIN Image[0] /\ next = NextSeen(op.cl)
    BY <1>0, <1>1, Lookup
  <1>3. /\ op'.cl = next /\ op'.s = 0 /\ op'.slots = <<>> /\ op'.fn = op.fn /\ op'.out = op.out
        /\ op'.done = op.done /\ op'.error = op.error /\ op'.max = op.max
    BY <1>0, <1>1 DEF CallRecords
  <1>4. PICK p \in Nat : InCluster(op, d, p)
    <2>1. ~Beyond(op, d)
      BY <1>0 DEF Beyond
    <2> QED
      BY <1>0, <2>1 DEF ScanInv
  <1>5. /\ op.cl = d /\ op.s = Bpb.spc /\ p \in 0 .. Len(Slots[d])
        /\ p = Len(FlatTo(DirSeq(d), Bpb.spc)) /\ Len(op.out) = Rank(S, p)
    <2>1. /\ op.cl = d /\ op.s \in 0 .. Bpb.spc /\ p \in 0 .. Len(Slots[d])
          /\ p + Len(op.slots) = Len(FlatTo(DirSeq(d), op.s))
          /\ Len(op.out) = Rank(S, p)
      BY <1>4 DEF InCluster
    <2>2. op.s = Bpb.spc /\ Len(op.slots) = 0
      BY <1>0, <2>1
    <2> QED
      BY <2>1, <2>2
  <1>6. p = Len(All(d)) /\ p = Len(Slots[d]) /\ Slots[d] = All(d)
    <2>1. All(d) = FlatTo(DirSeq(d), Bpb.spc)
      <3>1. Bpb.spc \in 0 .. Bpb.spc
        BY <1>0
      <3> QED
        BY <3>1, DirFlat
    <2>2. All(d) \in Seq(DirSlots) /\ Slots[d] \in Seq(DirSlots) /\ Len(Slots[d]) <= Len(All(d))
      BY SlotsFacts
    <2>3. p = Len(All(d)) /\ p = Len(Slots[d])
      BY <1>5, <2>1, <2>2
    <2> QED
      BY <2>3, SlotsFacts
  <1>7. Len(op.out) = Cardinality(S)
    <2>1. Len(Slots[d]) \in Nat /\ Within(S, Len(Slots[d]))
      BY SlotsWithin DEF EntrySlots
    <2> QED
      BY <1>5, <1>6, <2>1, RankSteps
  <1>8. \/ next >= EOC
        \/ /\ LbaOf(Vol, next) \in DOMAIN Image[0] /\ Image[0][LbaOf(Vol, next)].dir # <<>>
           /\ Head(Image[0][LbaOf(Vol, next)].dir).kind = "end"
    <2>1. EndSeen(d) /\ Slots[d] = AllSlots(SectorsOf(Vol, Chain[d]))
      BY <1>6, DirOf, OneClusterSectors
    <2>2. CASE failed /\ next = EOC
      BY <1>0, <2>2
    <2>3. CASE SeenAt(d) \in DOMAIN Image[0] /\ next = NextSeen(d)
      BY <2>1, <2>3 DEF EndSeen
    <2> QED
      BY <1>2, <1>5, <2>2, <2>3
  <1>9. Matched(op', d) /\ EntrySlots(op', d) = S
    BY <1>3, MatchedKept DEF ScanInv
  <1>10. Beyond(op', d)
    BY <1>3, <1>7, <1>8, <1>9 DEF Beyond
  <1> QED
    BY <1>0, <1>3, <1>9, <1>10 DEF ScanInv

-----------------------------------------------------------------------------
(* The result of a scan. *)

\* A scan that has come to its end without an error.
LEMMA ScanResult ==
    ASSUME NEW dirs, DirTree(dirs), NEW d \in dirs, Fat32Inv, ScanInv(op, d), Scanned,
           ~op.error
    PROVE  Complete(op, d)
  <1> DEFINE n == Cardinality(EntrySlots(op, d))
  <1>0. /\ Len(op.out) \in Nat /\ Len(op.out) <= op.max /\ op.max \in Nat
        /\ op.cl \in Nat /\ EOC \in Nat
    BY Sizes DEF Fat32Inv, Fat32Type, BuffersHold, CallRecords, Scanned
  <1>1. n \in Nat
    BY SlotsWithin, RankFinite DEF EntrySlots
  <1>2. CASE op.done
    BY <1>2 DEF ScanInv
  <1>3. CASE ~op.done
    <2>1. op.cl >= EOC
      BY <1>3 DEF Scanned
    <2>2. ~\E p \in Nat : InCluster(op, d, p)
      <3>1. d < EOC /\ d \in Nat
        BY DirOf
      <3> QED
        BY <1>0, <2>1, <3>1 DEF InCluster
    <2>3. Len(op.out) = n
      BY <1>3, <2>2 DEF ScanInv, Beyond
    <2> HIDE DEF n
    <2>4. Min({n, op.max}) = n
      BY <1>0, <1>1, <2>3, MinPair
    <2> QED
      BY <2>3, <2>4 DEF Complete, n
  <1> QED
    BY <1>2, <1>3

LEMMA RankOnce ==
    ASSUME NEW n \in Nat, NEW S, Within(S, n), NEW i \in S, NEW j \in S,
           Rank(S, i) = Rank(S, j)
    PROVE  i = j
  BY InOrderAt

\* The entry at a place of the array comes from one slot.
LEMMA EntryAt ==
    ASSUME NEW dirs, DirTree(dirs), NEW d \in dirs, NEW o, Matched(o, d),
           NEW i \in EntrySlots(o, d), Rank(EntrySlots(o, d), i) \in 1 .. Len(o.out)
    PROVE  EntryIs(o.fn, o.out[Rank(EntrySlots(o, d), i)], d, i)
  <1> DEFINE S == EntrySlots(o, d)
  <1>1. Len(Slots[d]) \in Nat /\ Within(S, Len(Slots[d]))
    BY SlotsWithin DEF EntrySlots
  <1>2. PICK j \in S : Rank(S, j) = Rank(S, i) /\ EntryIs(o.fn, o.out[Rank(S, i)], d, j)
    BY DEF Matched
  <1> HIDE DEF S
  <1>3. i \in S
    BY DEF S
  <1>4. i = j
    BY <1>1, <1>2, <1>3, RankOnce
  <1> QED
    BY <1>2, <1>4 DEF S

\* A subdirectory begins with its own entry and that of its parent.
LEMMA FirstTwo ==
    ASSUME NEW dirs, DirTree(dirs), NEW c \in dirs, NEW d, ChildOf(c, d), NEW o
    PROVE  /\ 1 \in EntrySlots(o, c) /\ 2 \in EntrySlots(o, c)
           /\ Rank(EntrySlots(o, c), 1) = 1 /\ Rank(EntrySlots(o, c), 2) = 2
           /\ Cardinality(EntrySlots(o, c)) \in Nat /\ Cardinality(EntrySlots(o, c)) >= 2
  <1> DEFINE S == EntrySlots(o, c)
  <1>0. Len(Slots[c]) >= 2 /\ Slots[c][1].kind = "dir" /\ Slots[c][2].kind = "dir"
    BY DEF ChildOf
  <1>1. /\ Len(Slots[c]) \in Nat /\ Within(S, Len(Slots[c]))
        /\ \A i : i \in S <=> i \in 1 .. Len(Slots[c]) /\ Slots[c][i].kind \in KindsOf(o)
    BY SlotsWithin DEF EntrySlots
  <1>2. "dir" \in KindsOf(o)
    BY DEF KindsOf, ListKinds, ReadKinds
  <1> HIDE DEF S
  <1>3. 1 \in S /\ 2 \in S
    BY <1>0, <1>1, <1>2
  <1>4. PICK n \in Nat : n = Len(Slots[c])
    BY <1>1
  <1>5. Within(S, n)
    BY <1>1, <1>4
  <1>6. Rank(S, 0) = 0
    BY <1>5, RankSteps
  <1>7. Rank(S, 0 + 1) = IF 0 + 1 \in S THEN Rank(S, 0) + 1 ELSE Rank(S, 0)
    BY <1>5, RankSteps
  <1>8. Rank(S, 1 + 1) = IF 1 + 1 \in S THEN Rank(S, 1) + 1 ELSE Rank(S, 1)
    BY <1>5, RankSteps
  <1>9. Rank(S, 1) = 1 /\ Rank(S, 2) = 2
    BY <1>3, <1>6, <1>7, <1>8
  <1>10. Rank(S, 2) \in 1 .. Cardinality(S)
    BY <1>3, <1>5, InOrderAt
  <1>11. Cardinality(S) \in Nat
    BY <1>5, RankFinite
  <1> QED
    BY <1>3, <1>9, <1>10, <1>11 DEF S

LEMMA SecondEntry ==
    ASSUME NEW dirs, DirTree(dirs), NEW c \in dirs, NEW d, ChildOf(c, d), NEW o, NEW T,
           Matched(o, c), o.out \in Seq(T), Len(o.out) >= 2
    PROVE  /\ o.out[2].first = IF d = Bpb.root THEN 0 ELSE d
           /\ o.fn = "read" => o.out[1].name = <<".">> /\ o.out[2].name = <<"..">>
  <1>1. /\ 1 \in EntrySlots(o, c) /\ 2 \in EntrySlots(o, c)
        /\ Rank(EntrySlots(o, c), 1) = 1 /\ Rank(EntrySlots(o, c), 2) = 2
    BY FirstTwo
  <1>2. 1 \in 1 .. Len(o.out) /\ 2 \in 1 .. Len(o.out)
    OBVIOUS
  <1>3. EntryIs(o.fn, o.out[1], c, 1) /\ EntryIs(o.fn, o.out[2], c, 2)
    BY <1>1, <1>2, EntryAt
  <1> QED
    BY <1>3 DEF EntryIs, ChildOf

\* The first entry that is wanted, at its place.
LEMMA FirstEntryAt ==
    ASSUME NEW T, op.out \in Seq(T), NEW wanted, FirstEntry(wanted) # NoEntry
    PROVE  /\ ~op.error
           /\ \E k \in 1 .. Len(op.out) :
                 /\ FirstEntry(wanted) = op.out[k] /\ op.out[k] \in wanted
                 /\ \A j \in 1 .. Len(op.out) : op.out[j] \in wanted => k <= j
  <1> DEFINE H == {i \in DOMAIN op.out : op.out[i] \in wanted}
  <1>1. /\ ~op.error /\ H # {} /\ FirstEntry(wanted) = op.out[Min(H)]
    BY DEF FirstEntry
  <1>2. H \subseteq Nat /\ DOMAIN op.out = 1 .. Len(op.out)
    OBVIOUS
  <1>3. Min(H) \in H /\ \A y \in H : Min(H) <= y
    <2> HIDE DEF H
    <2> QED
      BY <1>1, <1>2, MinNat
  <1>4. PICK k : k = Min(H)
    OBVIOUS
  <1>5. k \in 1 .. Len(op.out) /\ op.out[k] \in wanted
    BY <1>2, <1>3, <1>4
  <1>6. \A j \in 1 .. Len(op.out) : op.out[j] \in wanted => k <= j
    BY <1>2, <1>3, <1>4
  <1> QED
    BY <1>1, <1>4, <1>5, <1>6

\* The entries that cd looks for.
DirsNamed(name) == {x \in Entries : x.kind = "dir" /\ x.name = <<name>>}

\* cd finds the subdirectory that the volume has under this name, unless it
\* finds a deleted one.
LEMMA ChildFound ==
    ASSUME NEW dirs, DirTree(dirs), NEW d \in dirs, NEW name, op.fn = "list", Matched(op, d),
           op.out \in Seq(EntryRecords),
           NEW e, e = FirstEntry(DirsNamed(name)), e # NoEntry, ~e.deleted
    PROVE  /\ e.first = Child(Listing[d], name)
           /\ \E i \in DOMAIN Slots[d] : Slots[d][i].kind = "dir" /\ Slots[d][i].first = e.first
  <1> DEFINE wanted == DirsNamed(name)
             S == EntrySlots(op, d)
             list == Listing[d]
             hits == {i \in DOMAIN list : /\ list[i].kind = "dir" /\ list[i].name = <<name>>
                                           /\ ~list[i].deleted}
  <1>1. PICK k \in 1 .. Len(op.out) :
          /\ e = op.out[k] /\ op.out[k] \in wanted
          /\ \A j \in 1 .. Len(op.out) : op.out[j] \in wanted => k <= j
    BY FirstEntryAt
  <1>2. \A j \in 1 .. Len(op.out) : op.out[j] \in wanted <=>
           op.out[j].kind = "dir" /\ op.out[j].name = <<name>>
    BY DEF DirsNamed, Entries, ToSet
  <1>3. S = SlotsIn(d, ListKinds)
    BY DEF EntrySlots, KindsOf
  <1>4. ASSUME NEW j \in 1 .. Len(op.out)
        PROVE  \E i \in S : /\ j \in DOMAIN list
                            /\ list[j] = Entry(Slots[d][i], LongName(Slots[d], i))
                            /\ EntryIs(op.fn, op.out[j], d, i)
    <2>1. PICK i \in S : Rank(S, i) = j /\ EntryIs(op.fn, op.out[j], d, i)
      BY DEF Matched
    <2>2. j \in DOMAIN list
      <3>1. Rank(S, i) \in 1 .. Cardinality(S)
        BY <1>3, SlotsWithin, InOrderAt
      <3> QED
        BY <1>3, <2>1, <3>1, ListingAt
    <2>3. list[j] = Entry(Slots[d][i], LongName(Slots[d], i))
      BY <1>3, <2>1, ListingAt
    <2> QED
      BY <2>1, <2>2, <2>3
  <1>5. ASSUME NEW j \in 1 .. Len(op.out)
        PROVE  /\ j \in hits <=> op.out[j] \in wanted /\ ~op.out[j].deleted
               /\ op.out[j].first = list[j].first
    <2>1. PICK i \in S : /\ j \in DOMAIN list
                         /\ list[j] = Entry(Slots[d][i], LongName(Slots[d], i))
                         /\ EntryIs(op.fn, op.out[j], d, i)
      BY <1>4
    <2>2. /\ list[j].kind = Slots[d][i].kind /\ list[j].first = Slots[d][i].first
          /\ list[j].name = LongName(Slots[d], i) /\ list[j].deleted = Slots[d][i].deleted
      BY <2>1 DEF Entry
    <2>3. /\ op.out[j].kind = list[j].kind /\ op.out[j].first = list[j].first
          /\ NameSeen(op.out[j].name, list[j].name) /\ op.out[j].deleted = list[j].deleted
      BY <2>1, <2>2 DEF EntryIs
    <2>4. Len(<<name>>) = 1
      OBVIOUS
    <2>5. op.out[j].name = <<name>> <=> list[j].name = <<name>>
      BY <2>3, <2>4, Zenon DEF NameSeen
    <2> QED
      BY <1>2, <2>1, <2>3, <2>5
  <1>6. DOMAIN list \subseteq Nat
    BY ListingAt
  <1> HIDE DEF wanted, list
  <1>7. k \in hits /\ hits \subseteq Nat
    BY <1>1, <1>5, <1>6
  <1>8. Min(hits) \in hits /\ \A y \in hits : Min(hits) <= y
    <2> HIDE DEF hits
    <2> QED
      BY <1>7, MinNat
  <1>9. Min(hits) = k
    <2>1. PICK m : m = Min(hits)
      OBVIOUS
    <2>2. m \in hits /\ m <= k /\ m \in Nat
      BY <1>7, <1>8, <2>1
    <2>3. m \in 1 .. Len(op.out)
      <3>1. m \in DOMAIN list /\ DOMAIN list = 1 .. Cardinality(SlotsIn(d, ListKinds))
        BY <2>2, ListingAt DEF list
      <3> QED
        BY <2>2, <3>1
    <2>4. k <= m
      BY <1>1, <1>5, <2>2, <2>3
    <2>5. k \in Nat
      BY <1>7
    <2>6. m = k
      BY ONLY <2>2, <2>4, <2>5
    <2> QED
      BY <2>1, <2>6
  <1>10. Child(Listing[d], name) = list[k].first
    <2>1. hits # {}
      BY <1>7
    <2> QED
      BY <1>9, <2>1 DEF Child, list
  <1>11. e.first = list[k].first
    BY <1>1, <1>5
  <1>12. \E i \in DOMAIN Slots[d] : Slots[d][i].kind = "dir" /\ Slots[d][i].first = e.first
    <2>1. PICK i \in S : EntryIs(op.fn, op.out[k], d, i)
      BY <1>4
    <2>2. op.out[k].kind = "dir"
      BY <1>1, <1>2
    <2>3. i \in DOMAIN Slots[d]
      BY <1>3 DEF SlotsIn
    <2> QED
      BY <1>1, <2>1, <2>2, <2>3 DEF EntryIs
  <1> QED
    BY <1>10, <1>11, <1>12

-----------------------------------------------------------------------------
(* The directory the shell is in. *)

\* Directory number j of the trail tr; number 0 is the root.
At(tr, j) == IF j = 0 THEN Bpb.root ELSE tr[j]

\* Directory d has an entry for its subdirectory c.
Holds(d, c) ==
    ChildOf(c, d) /\ \E k \in DOMAIN Slots[d] : Slots[d][k].kind = "dir" /\ Slots[d][k].first = c

\* Each directory of the trail is a subdirectory of the one before it.
TrailOk(tr, dirs) == tr \in Seq(dirs) /\ \A i \in 1 .. Len(tr) : Holds(At(tr, i - 1), tr[i])

\* ls, cat and cd scan the directory cwd; on other drives they find nothing.
ShellScan(o) == o.fn \in {"list", "read"} /\ o.cmd # "prompt"
ShellInv(o, cwd) ==
    /\ ShellScan(o) => IF o.drive = 0 THEN ScanInv(o, cwd) ELSE o.out = <<>> /\ o.slots = <<>>
    /\ o.cmd = "cd" => o.fn = "list" /\ o.arg \in Paths \ {"/", "."}
    /\ o.cmd = "ls" => o.fn = "list"
    /\ o.cmd = "cat" => o.fn \in {"read", "file"} /\ o.arg \in Files

\* Before the second mount the volume is as the first one left it.
BootInv ==
    op.fn = "mount" =>
       /\ disk = Image /\ trail = <<>> /\ cacheDrive = 0 /\ cached_fat_sector = NO_SECTOR
       /\ lost \/ op.drive # 0

VolInv(dirs) ==
    /\ BootInv
    /\ ~lost => /\ GeoInv /\ TrailOk(trail, dirs)
                /\ current_dir_cluster = At(trail, Len(trail))
                /\ ShellInv(op, current_dir_cluster)

\* A call that is none of the shell's scans.
Quiet(o) ==
    /\ o.cmd \notin {"cd", "ls", "cat"} /\ o.fn # "mount"
    /\ o.cmd = "prompt" \/ o.fn \notin {"list", "read"}

LEMMA TrailIn ==
    ASSUME NEW dirs, DirTree(dirs), NEW tr, TrailOk(tr, dirs), NEW j \in 0 .. Len(tr)
    PROVE  At(tr, j) \in dirs /\ Len(tr) \in Nat
  <1>1. tr \in Seq(dirs) /\ Bpb.root \in dirs
    BY RootIn DEF TrailOk
  <1> QED
    BY <1>1 DEF At

\* The call that build_path makes next.
IsPathStep(o, cur, path, b) ==
    o = PathStep(cur, path) \/ o = [PathStep(cur, path) EXCEPT !.faulty = b]
PathCall(o, cur, path) ==
    /\ o.cmd = "prompt" /\ o.drive = 0 /\ o.path = path
    /\ o.out = <<>> /\ o.slots = <<>> /\ o.s = 0 /\ o.present = 0
    /\ o.done = FALSE /\ o.error = FALSE
    /\ o.fn \in {"shown", "read"}
    /\ o.fn = "shown" <=> cur = root_dir_first_cluster \/ Len(path) >= MaxDepth
    /\ o.fn = "read" => o.arg = "self" /\ o.cl = cur /\ o.cur = cur /\ o.max = ReadMax

LEMMA PathStepFields ==
    ASSUME NEW cur, NEW path, NEW b, NEW o, IsPathStep(o, cur, path, b)
    PROVE  PathCall(o, cur, path)
  <1> USE DEF PathCall
  <1> DEFINE A == [Call("prompt", "shown", NoName, 0, cur, 0) EXCEPT !.path = path]
             B == [Call("prompt", "read", "self", 0, cur, ReadMax)
                     EXCEPT !.cur = cur, !.path = path]
             Common(r) ==
               /\ r.cmd = "prompt" /\ r.drive = 0 /\ r.path = path
               /\ r.out = <<>> /\ r.slots = <<>> /\ r.s = 0 /\ r.present = 0
               /\ r.done = FALSE /\ r.error = FALSE
             stop == cur = root_dir_first_cluster \/ Len(path) >= MaxDepth
  <1>1. ASSUME o = A \/ o = [A EXCEPT !.faulty = b]
        PROVE  Common(o) /\ o.fn = "shown"
    <2>1. CASE o = A
      BY <2>1 DEF Call
    <2>2. CASE o = [A EXCEPT !.faulty = b]
      BY <2>2 DEF Call
    <2> QED
      BY <1>1, <2>1, <2>2
  <1>2. ASSUME o = B \/ o = [B EXCEPT !.faulty = b]
        PROVE  /\ Common(o) /\ o.fn = "read" /\ o.arg = "self" /\ o.cl = cur /\ o.cur = cur
               /\ o.max = ReadMax
    <2>1. CASE o = B
      BY <2>1 DEF Call
    <2>2. CASE o = [B EXCEPT !.faulty = b]
      BY <2>2 DEF Call
    <2> QED
      BY <1>2, <2>1, <2>2
  <1>3. PathStep(cur, path) = IF stop THEN A ELSE B
    BY DEF PathStep
  <1>4. CASE stop
    <2>1. PathStep(cur, path) = A
      BY <1>3, <1>4
    <2> HIDE DEF A
    <2>2. o = A \/ o = [A EXCEPT !.faulty = b]
      BY <2>1 DEF IsPathStep
    <2> QED
      BY <1>1, <1>4, <2>2
  <1>5. CASE ~stop
    <2>1. PathStep(cur, path) = B
      BY <1>3, <1>5
    <2> HIDE DEF B
    <2>2. o = B \/ o = [B EXCEPT !.faulty = b]
      BY <2>1 DEF IsPathStep
    <2> QED
      BY <1>2, <1>5, <2>2
  <1> QED
    BY <1>4, <1>5

LEMMA QuietCalls ==
    ASSUME NEW o, NEW cur, NEW path, NEW b,
           o = Idle \/ IsPathStep(o, cur, path, b)
    PROVE  Quiet(o)
  <1>1. CASE o = Idle
    BY <1>1 DEF Quiet, Idle, Call
  <1>2. CASE IsPathStep(o, cur, path, b)
    <2>1. o.cmd = "prompt" /\ o.fn \in {"shown", "read"}
      <3>1. PathCall(o, cur, path)
        BY <1>2, PathStepFields, Zenon
      <3> QED
        BY <3>1 DEF PathCall
    <2> QED
      BY <2>1 DEF Quiet
  <1> QED
    BY <1>1, <1>2

\* A step that begins a call and leaves the rest.
LEMMA QuietStep ==
    ASSUME NEW dirs, VolInv(dirs), Quiet(op'),
           UNCHANGED <<disk, geometry, current_dir_cluster, cache, trail, lost>>
    PROVE  VolInv(dirs)'
  <1>1. BootInv'
    BY DEF BootInv, Quiet
  <1>2. ShellInv(op', current_dir_cluster')
    BY DEF ShellInv, ShellScan, Quiet
  <1>3. GeoInv => GeoInv'
    BY DEF GeoInv, geometry, cache
  <1> QED
    BY <1>1, <1>2, <1>3 DEF VolInv

LEMMA MountVol ==
    ASSUME NEW dirs, DirTree(dirs), Fat32Inv, VolInv(dirs), MountOk \/ MountFails
    PROVE  VolInv(dirs)'
  <1>0. op.fn = "mount" /\ op' = AfterMount /\ op.drive \in Nat
    BY DEF MountOk, MountFails, Fat32Inv, Fat32Type, CallRecords
  <1>1. /\ disk = Image /\ trail = <<>> /\ cacheDrive = 0 /\ cached_fat_sector = NO_SECTOR
        /\ lost \/ op.drive # 0
    BY <1>0 DEF VolInv, BootInv
  <1>2. /\ op'.fn = "mount" => op.drive = 0 /\ op'.drive = 1
        /\ op'.fn \notin {"list", "read"} /\ op'.cmd \notin {"cd", "ls", "cat"}
    BY <1>0 DEF AfterMount, Mount, Idle, Call
  <1>3. op.drive # 0 => MountCode(op.drive) = 2
    <2>1. op.drive # 0 => ~Readable(op.drive, 0)
      BY BootRecordTyped DEF Readable
    <2> QED
      BY <2>1 DEF MountCode
  <1>4. \A cwd : ShellInv(op', cwd)
    BY <1>2 DEF ShellInv, ShellScan
  <1>5. CASE MountFails
    <2>1. UNCHANGED <<disk, fat_start, cluster_begin_lba, root_dir_first_cluster,
                      current_dir_cluster, cache, drive_num, trail, lost>>
      BY <1>5 DEF MountFails
    <2>2. BootInv'
      BY <1>1, <1>2, <2>1 DEF BootInv, cache
    <2>3. op.drive # 0 => fat32_bpb' = fat32_bpb
      BY <1>3, <1>5 DEF MountFails
    <2>4. ~lost => GeoInv'
      BY <1>1, <2>1, <2>3 DEF VolInv, GeoInv, cache
    <2> QED
      BY <1>4, <2>1, <2>2, <2>4 DEF VolInv
  <1>6. CASE MountOk
    <2> DEFINE part == disk[op.drive][0].part
    <2>1. /\ MountCode(op.drive) = 0 /\ Adopt(part, disk[op.drive][part].bpb)
          /\ lost' = (lost /\ op.drive # 0) /\ UNCHANGED <<disk, drive_num, trail>>
      BY <1>6 DEF MountOk
    <2>2. op.drive = 0
      BY <1>3, <2>1
    <2>3. part = Vol.part /\ disk[op.drive][part].bpb = Bpb
      BY <1>1, <2>2, BootRecordTyped
    <2> HIDE DEF part
    <2>4. Adopt(Vol.part, Bpb)
      BY <2>1, <2>3
    <2>5. Bpb.root # 0
      <3>1. Bpb.root \in Nat /\ Bpb.root >= 2
        BY RootIn, DirOf
      <3> QED
        BY <3>1
    <2>6. /\ fat32_bpb' = Bpb /\ fat_start' = Bpb.reserved
          /\ cluster_begin_lba' = Vol.part + Bpb.reserved + Bpb.tables * Bpb.spf
          /\ root_dir_first_cluster' = Bpb.root /\ current_dir_cluster' = Bpb.root
          /\ cached_fat_sector' = NO_SECTOR /\ cacheDrive' = cacheDrive
      BY <2>4, <2>5 DEF Adopt
    <2>7. GeoInv'
      BY <1>1, <2>1, <2>6 DEF GeoInv
    <2>8. BootInv'
      BY <1>1, <1>2, <2>1, <2>6 DEF BootInv
    <2>9. TrailOk(trail', dirs) /\ current_dir_cluster' = At(trail', Len(trail'))
      <3>1. trail' = <<>>
        BY <1>1, <2>1
      <3>2. <<>> \in Seq(dirs) /\ Len(<<>>) = 0
        OBVIOUS
      <3> QED
        BY <2>6, <3>1, <3>2 DEF TrailOk, At
    <2> QED
      BY <1>4, <2>7, <2>8, <2>9 DEF VolInv
  <1> QED
    BY <1>5, <1>6

LEMMA LookupSame ==
    ASSUME Fat32Inv, ScanNext \/ FileNext
    PROVE  SameCall(op, op') /\ op'.out = op.out /\ op'.slots = op.slots
  <1>1. op \in CallRecords
    BY DEF Fat32Inv, Fat32Type
  <1>2. PICK next \in NextValues(op.drive, op.cl), failed \in BOOLEAN :
          op' = [op EXCEPT !.cl = next, !.s = 0, !.faulty = @ \/ failed]
    BY DEF ScanNext, FileNext
  <1>3. op'.faulty = (op.faulty \/ failed)
    BY <1>1, <1>2 DEF CallRecords
  <1>4. op'.faulty = FALSE => op.faulty = FALSE
    <2>1. op.faulty \in BOOLEAN
      BY <1>1 DEF CallRecords
    <2> QED
      BY <1>3, <2>1, Zenon
  <1> QED
    BY <1>1, <1>2, <1>4 DEF CallRecords, SameCall

LEMMA ScanSame ==
    ASSUME Fat32Inv, ScanSector \/ ScanSlot \/ ScanNext
    PROVE  SameCall(op, op')
  <1>1. op \in CallRecords /\ op.faulty \in BOOLEAN
    BY DEF Fat32Inv, Fat32Type, CallRecords
  <1>2. CASE ScanSector
    <2>1. \/ \E slots, s : op' = [op EXCEPT !.slots = slots, !.s = s]
          \/ \E f : op' = [op EXCEPT !.done = TRUE, !.error = TRUE, !.faulty = op.faulty \/ f]
      BY <1>2 DEF ScanSector
    <2>2. CASE \E slots, s : op' = [op EXCEPT !.slots = slots, !.s = s]
      BY <1>1, <2>2 DEF CallRecords, SameCall
    <2>3. CASE \E f : op' = [op EXCEPT !.done = TRUE, !.error = TRUE, !.faulty = op.faulty \/ f]
      <3>1. PICK f : op' = [op EXCEPT !.done = TRUE, !.error = TRUE, !.faulty = op.faulty \/ f]
        BY <2>3
      <3> DEFINE g == op.faulty \/ f
      <3>2. op' = [op EXCEPT !.done = TRUE, !.error = TRUE, !.faulty = g]
        BY <3>1
      <3>3. g = FALSE => op.faulty = FALSE
        BY <1>1, Zenon
      <3> HIDE DEF g
      <3> QED
        BY <1>1, <3>2, <3>3 DEF CallRecords, SameCall
    <2> QED
      BY <2>1, <2>2, <2>3
  <1>3. CASE ScanSlot
    <2> DEFINE slot == Head(op.slots)
    <2>1. /\ op.fn \in {"list", "read"} /\ op.slots # <<>>
          /\ op' = [(IF op.fn = "list" THEN ListSlot(slot) ELSE ReadSlot(slot))
                       EXCEPT !.slots = Tail(@)]
      BY <1>3 DEF ScanSlot, Scanning
    <2>2. op.out \in Seq(EntryRecords) /\ Len(op.out) <= op.max /\ slot \in DirSlots
      <3>1. op.slots \in Seq(DirSlots) /\ op.slots # <<>> /\ op.fn \in {"list", "read"}
        BY <1>1, <2>1, Zenon DEF CallRecords
      <3>2. op.out \in Seq(EntryRecords) /\ Len(op.out) <= op.max
        BY <3>1 DEF Fat32Inv, Fat32Type, BuffersHold
      <3> QED
        BY <3>1, <3>2
    <2> HIDE DEF slot
    <2>3. AfterSlot(slot, op')
      BY <1>1, <2>1, <2>2, SlotEffect, Zenon
    <2> QED
      BY <2>3 DEF AfterSlot
  <1>4. CASE ScanNext
    BY <1>4, LookupSame
  <1> QED
    BY <1>2, <1>3, <1>4

\* A lookup on any drive leaves the cached sector one of the volume's disk.
LEMMA GeoKept ==
    ASSUME NEW dirs, DirTree(dirs), GeoInv, ScanNext \/ FileNext
    PROVE  GeoInv'
  <1>1. UNCHANGED <<disk, geometry>>
    BY DEF ScanNext, FileNext
  <1>2. PICK next, failed : fat32_get_next_cluster(op.drive, op.cl, next, failed)
    BY DEF ScanNext, FileNext
  <1> DEFINE sector == partition_lba + fat_start + op.cl \div FatEntries
  <1>3. \/ UNCHANGED cache
        \/ Readable(op.drive, sector) /\ cached_fat_sector' = sector /\ cacheDrive' = op.drive
    BY <1>2 DEF fat32_get_next_cluster
  <1>4. Readable(op.drive, sector) => op.drive = 0 /\ sector \in DOMAIN Image[0]
    BY OnDrive
  <1> HIDE DEF sector
  <1>5. cacheDrive' = 0 /\ cached_fat_sector' \in DOMAIN Image[0] \cup {NO_SECTOR}
    BY <1>3, <1>4 DEF GeoInv, cache
  <1> QED
    BY <1>1, <1>5 DEF GeoInv, geometry

\* A drive that is not there yields no entries.
LEMMA NothingFound ==
    ASSUME NEW dirs, DirTree(dirs), GeoInv, Fat32Inv, op.drive # 0,
           op.out = <<>>, op.slots = <<>>, ScanSector \/ ScanSlot \/ ScanNext
    PROVE  op'.out = <<>> /\ op'.slots = <<>>
  <1>1. op \in CallRecords
    BY DEF Fat32Inv, Fat32Type
  <1>2. CASE ScanSector
    <2>1. PICK f : op' = [op EXCEPT !.done = TRUE, !.error = TRUE, !.faulty = f]
      BY <1>2, OnDrive DEF ScanSector
    <2> QED
      BY <1>1, <2>1 DEF CallRecords
  <1>3. CASE ScanNext
    BY <1>3, LookupSame
  <1>4. ~ScanSlot
    BY Zenon DEF ScanSlot
  <1> QED
    BY <1>2, <1>3, <1>4

LEMMA ScanVol ==
    ASSUME NEW dirs, DirTree(dirs), Fat32Inv, VolInv(dirs), ScanSector \/ ScanSlot \/ ScanNext
    PROVE  VolInv(dirs)'
  <1>1. UNCHANGED <<disk, geometry, current_dir_cluster, drive_num, trail, lost>>
    BY DEF ScanSector, ScanSlot, ScanNext
  <1>2. SameCall(op, op') /\ op.fn \in {"list", "read"}
    BY ScanSame DEF ScanSector, ScanSlot, ScanNext, Scanning
  <1>3. GeoInv => GeoInv'
    <2>1. CASE ScanNext
      BY <2>1, GeoKept
    <2>2. CASE ScanSector \/ ScanSlot
      <3>1. UNCHANGED cache
        BY <2>2 DEF ScanSector, ScanSlot
      <3> QED
        BY <1>1, <3>1 DEF GeoInv, geometry, cache
    <2> QED
      BY <2>1, <2>2
  <1>4. BootInv'
    BY <1>2 DEF BootInv, SameCall
  <1>5. ASSUME ~lost  PROVE ShellInv(op', current_dir_cluster)
    <2> DEFINE d == current_dir_cluster
    <2>1. /\ GeoInv /\ ShellInv(op, d) /\ d \in dirs
      <3>1. GeoInv /\ TrailOk(trail, dirs) /\ d = At(trail, Len(trail)) /\ ShellInv(op, d)
        BY <1>5 DEF VolInv
      <3>2. Len(trail) \in 0 .. Len(trail)
        BY <3>1 DEF TrailOk
      <3> QED
        BY <3>1, <3>2, TrailIn
    <2> HIDE DEF d
    <2>2. ASSUME ShellScan(op)
          PROVE  IF op.drive = 0 THEN ScanInv(op', d) ELSE op'.out = <<>> /\ op'.slots = <<>>
      <3>1. CASE op.drive = 0
        <4>1. ScanInv(op, d)
          BY <2>1, <2>2, <3>1 DEF ShellInv
        <4>2. ScanInv(op', d)
          BY <2>1, <3>1, <4>1, ScanSectorInv, ScanSlotInv, ScanNextInv
        <4> QED
          BY <3>1, <4>2
      <3>2. CASE op.drive # 0
        <4>1. op.out = <<>> /\ op.slots = <<>>
          BY <2>1, <2>2, <3>2 DEF ShellInv
        <4>2. op'.out = <<>> /\ op'.slots = <<>>
          BY <2>1, <3>2, <4>1, NothingFound
        <4> QED
          BY <3>2, <4>2
      <3> QED
        BY <3>1, <3>2
    <2>3. ShellInv(op', d)
      BY <1>2, <2>1, <2>2 DEF ShellInv, ShellScan, SameCall
    <2> QED
      BY <2>3 DEF d
  <1> QED
    BY <1>1, <1>3, <1>4, <1>5 DEF VolInv

\* ls, cat and cd begin to scan the directory.
LEMMA BeginScan ==
    ASSUME NEW dirs, DirTree(dirs), VolInv(dirs),
           UNCHANGED <<disk, geometry, current_dir_cluster, cache, drive_num, trail, lost>>,
           NEW cmd, NEW fn, NEW arg, NEW max, fn \in {"list", "read"},
           cmd = "cd" => fn = "list" /\ arg \in Paths \ {"/", "."},
           cmd = "ls" => fn = "list",
           cmd = "cat" => fn \in {"read", "file"} /\ arg \in Files,
           op' = Call(cmd, fn, arg, drive_num, current_dir_cluster, max)
    PROVE  VolInv(dirs)'
  <1> DEFINE d == current_dir_cluster
  <1>1. /\ op'.cmd = cmd /\ op'.fn = fn /\ op'.arg = arg
        /\ op'.cl = d /\ op'.s = 0 /\ op'.out = <<>> /\ op'.slots = <<>> /\ op'.present = 0
        /\ op'.done = FALSE /\ op'.error = FALSE
    BY DEF Call
  <1>2. BootInv'
    BY <1>1 DEF BootInv
  <1>3. GeoInv => GeoInv'
    BY DEF GeoInv, geometry, cache
  <1>4. ASSUME ~lost  PROVE ShellInv(op', d)
    <2>1. d \in dirs
      <3>1. TrailOk(trail, dirs) /\ d = At(trail, Len(trail))
        BY <1>4 DEF VolInv
      <3>2. Len(trail) \in 0 .. Len(trail)
        BY <3>1 DEF TrailOk
      <3> QED
        BY <3>1, <3>2, TrailIn
    <2> HIDE DEF d
    <2>2. ScanInv(op', d)
      BY <1>1, <2>1, ScanStart
    <2> QED
      BY <1>1, <2>2 DEF ShellInv, ShellScan
  <1> QED
    BY <1>2, <1>3, <1>4 DEF VolInv

\* What FileSector does to the call.
LEMMA CopyStep ==
    ASSUME Fat32Inv, FileSector
    PROVE  /\ SameCall(op, op') /\ op'.cl = op.cl /\ op'.s = op.s + 1
           /\ \/ op'.faulty = TRUE
              \/ LET lba == fat32_cluster_to_lba(op.cl) + op.s
                 IN  /\ Readable(op.drive, lba)
                     /\ op'.out = op.out \o SubSeq(disk[op.drive][lba].data, 1, CopyLen)
  <1> DEFINE lba == fat32_cluster_to_lba(op.cl) + op.s
  <1>1. op \in CallRecords /\ op.faulty \in BOOLEAN
    BY DEF Fat32Inv, Fat32Type, CallRecords
  <1>2. PICK failed \in BOOLEAN :
          /\ failed \/ Readable(op.drive, lba)
          /\ LET buf == IF failed THEN op.sector ELSE disk[op.drive][lba].data
             IN  op' = [op EXCEPT !.sector = buf, !.s = @ + 1,
                                  !.out = @ \o SubSeq(buf, 1, CopyLen),
                                  !.faulty = @ \/ failed]
    BY DEF FileSector
  <1> DEFINE buf == IF failed THEN op.sector ELSE disk[op.drive][lba].data
             out == op.out \o SubSeq(buf, 1, CopyLen)
             g == op.faulty \/ failed
  <1>3. op' = [op EXCEPT !.sector = buf, !.s = op.s + 1, !.out = out, !.faulty = g]
    BY <1>2
  <1>4. /\ g = FALSE => op.faulty = FALSE
        /\ failed => g = TRUE
    BY <1>1, Zenon
  <1>5. ~failed => /\ Readable(op.drive, lba)
                   /\ out = op.out \o SubSeq(disk[op.drive][lba].data, 1, CopyLen)
    BY <1>2
  <1> HIDE DEF g, out, buf, lba
  <1>6. /\ SameCall(op, op') /\ op'.cl = op.cl /\ op'.s = op.s + 1 /\ op'.out = out
        /\ op'.faulty = g
    BY <1>1, <1>3, <1>4 DEF CallRecords, SameCall
  <1> QED
    BY <1>4, <1>5, <1>6, Zenon DEF lba

LEMMA FileVol ==
    ASSUME NEW dirs, DirTree(dirs), Fat32Inv, VolInv(dirs), FileSector \/ FileNext
    PROVE  VolInv(dirs)'
  <1>1. UNCHANGED <<disk, geometry, current_dir_cluster, drive_num, trail, lost>>
    BY DEF FileSector, FileNext
  <1>2. SameCall(op, op') /\ op.fn = "file"
    <2>2. CASE FileNext
      BY <2>2, LookupSame DEF FileNext, FileReading
    <2>3. CASE FileSector
      BY <2>3, CopyStep DEF FileSector, FileReading
    <2> QED
      BY <2>2, <2>3
  <1>3. GeoInv => GeoInv'
    <2>1. CASE FileNext
      BY <2>1, GeoKept
    <2>2. CASE FileSector
      <3>1. UNCHANGED cache
        BY <2>2 DEF FileSector
      <3> QED
        BY <1>1, <3>1 DEF GeoInv, geometry, cache
    <2> QED
      BY <2>1, <2>2
  <1>4. BootInv'
    BY <1>2 DEF BootInv, SameCall
  <1>5. ~lost => ShellInv(op', current_dir_cluster')
    BY <1>1, <1>2 DEF VolInv, ShellInv, ShellScan, SameCall
  <1> QED
    BY <1>1, <1>3, <1>4, <1>5 DEF VolInv

LEMMA TrailPush ==
    ASSUME NEW dirs, NEW tr, TrailOk(tr, dirs), NEW c \in dirs, Holds(At(tr, Len(tr)), c)
    PROVE  /\ TrailOk(Append(tr, c), dirs)
           /\ At(Append(tr, c), Len(Append(tr, c))) = c
  <1> DEFINE new == Append(tr, c)
             n == Len(tr)
  <1>1. tr \in Seq(dirs) /\ \A i \in 1 .. n : Holds(At(tr, i - 1), tr[i])
    BY DEF TrailOk
  <1>2. /\ new \in Seq(dirs) /\ Len(new) = n + 1 /\ new[n + 1] = c /\ n \in Nat
        /\ \A i \in 1 .. n : new[i] = tr[i]
    BY <1>1
  <1>3. Holds(At(tr, n), c)
    OBVIOUS
  <1> HIDE DEF new, n
  <1>4. \A j \in 0 .. n : At(new, j) = At(tr, j)
    BY <1>2 DEF At
  <1>5. ASSUME NEW i \in 1 .. n + 1  PROVE Holds(At(new, i - 1), new[i])
    <2>1. i - 1 \in 0 .. n
      BY <1>2
    <2>2. At(new, i - 1) = At(tr, i - 1)
      BY <1>4, <2>1
    <2>3. CASE i = n + 1
      <3>1. i - 1 = n
        BY <1>2, <2>3
      <3> QED
        BY <1>2, <1>3, <2>2, <2>3, <3>1
    <2>4. CASE i \in 1 .. n
      BY <1>1, <1>2, <2>2, <2>4
    <2> QED
      BY <1>2, <2>3, <2>4
  <1>6. At(new, n + 1) = c
    BY <1>2 DEF At
  <1> QED
    BY <1>2, <1>5, <1>6 DEF TrailOk, new

LEMMA TrailPop ==
    ASSUME NEW dirs, NEW tr, TrailOk(tr, dirs), tr # <<>>
    PROVE  /\ TrailOk(Front(tr), dirs)
           /\ At(Front(tr), Len(Front(tr))) = At(tr, Len(tr) - 1)
           /\ Len(tr) \in Nat /\ Len(tr) >= 1 /\ At(tr, Len(tr)) = tr[Len(tr)]
           /\ Holds(At(tr, Len(tr) - 1), tr[Len(tr)])
  <1> DEFINE new == Front(tr)
             n == Len(tr)
  <1>1. tr \in Seq(dirs) /\ \A i \in 1 .. n : Holds(At(tr, i - 1), tr[i])
    BY DEF TrailOk
  <1>2. n \in Nat /\ n >= 1 /\ n \in 1 .. n
    BY <1>1
  <1>3. /\ new \in Seq(dirs) /\ Len(new) = n - 1
        /\ \A i \in 1 .. n - 1 : new[i] = tr[i]
    <2>1. new = SubSeq(tr, 1, n - 1)
      BY DEF Front
    <2> DEFINE m == n - 1
    <2>2. m \in Nat /\ m = n - 1 /\ m <= n
      <3> HIDE DEF n
      <3> QED
        BY <1>2
    <2> HIDE DEF new, m
    <2>3. /\ SubSeq(tr, 1, m) \in Seq(dirs) /\ Len(SubSeq(tr, 1, m)) = m
          /\ \A i \in 1 .. m : SubSeq(tr, 1, m)[i] = tr[i]
      BY <1>1, <2>2
    <2> QED
      BY <2>1, <2>2, <2>3
  <1>4. Holds(At(tr, n - 1), tr[n])
    BY <1>1, <1>2
  <1> HIDE DEF new, n
  <1>5. \A j \in 0 .. n - 1 : At(new, j) = At(tr, j)
    BY <1>3 DEF At
  <1>6. ASSUME NEW i \in 1 .. n - 1  PROVE Holds(At(new, i - 1), new[i])
    <2>1. i - 1 \in 0 .. n - 1 /\ i \in 1 .. n
      BY <1>2
    <2> QED
      BY <1>1, <1>3, <1>5, <2>1
  <1>7. At(new, n - 1) = At(tr, n - 1)
    BY <1>2, <1>5
  <1>8. At(tr, n) = tr[n]
    BY <1>2 DEF At
  <1> QED
    BY <1>2, <1>3, <1>4, <1>6, <1>7, <1>8 DEF TrailOk, new, n

LEMMA CwdAt ==
    ASSUME NEW dirs, TrailOk(trail, dirs)
    PROVE  Cwd = At(trail, Len(trail))
  <1>1. trail \in Seq(dirs)
    BY DEF TrailOk
  <1>2. CASE trail = <<>>
    BY <1>2 DEF Cwd, At
  <1>3. CASE trail # <<>>
    <2>1. Len(trail) # 0
      BY <1>1, <1>3
    <2> QED
      BY <1>3, <2>1 DEF Cwd, At, Last
  <1> QED
    BY <1>2, <1>3

\* The directory that cd finds is the one the trail is continued with.
LEMMA TargetRight ==
    ASSUME NEW dirs, DirTree(dirs), Fat32Inv, GeoInv, TrailOk(trail, dirs),
           current_dir_cluster = At(trail, Len(trail)), ShellInv(op, current_dir_cluster),
           Scanned, op.cmd = "cd", Target >= 2,
           IF op.arg = ".." THEN trail # <<>> ELSE ~Named.deleted
    PROVE  LET new == IF op.arg = ".." THEN Front(trail)
                      ELSE Append(trail, Child(Listing[Cwd], op.arg))
           IN  TrailOk(new, dirs) /\ Target = At(new, Len(new))
  <1> DEFINE d == current_dir_cluster
             n == Len(trail)
  <1>0. /\ op.fn = "list" /\ op.arg \in Paths \ {"/", "."} /\ ShellScan(op)
        /\ op.out \in Seq(EntryRecords)
    BY DEF ShellInv, ShellScan, Fat32Inv, Fat32Type
  <1>1. d \in dirs /\ n \in Nat /\ Cwd = d
    <2>1. n \in 0 .. n
      BY DEF TrailOk
    <2>2. d = At(trail, n)
      OBVIOUS
    <2> QED
      BY <2>1, <2>2, TrailIn, CwdAt
  <1>2. Matched(op, d)
    <2>1. op.drive = 0
      <3> SUFFICES ASSUME op.drive # 0  PROVE FALSE
        OBVIOUS
      <3>1. op.out = <<>>
        BY <1>0 DEF ShellInv
      <3>2. Len(op.out) < 2 /\ DOMAIN op.out = {}
        BY <3>1
      <3>3. \A wanted : FirstEntry(wanted) = NoEntry
        BY <3>2 DEF FirstEntry
      <3>4. Target = 0
        BY <3>2, <3>3 DEF Target, Named, NoEntry
      <3> QED
        BY <3>4
    <2> QED
      BY <1>0, <2>1 DEF ShellInv, ScanInv
  <1>3. CASE op.arg = ".."
    <2> DEFINE p == At(trail, n - 1)
    <2>1. /\ TrailOk(Front(trail), dirs) /\ At(Front(trail), Len(Front(trail))) = p
          /\ n >= 1 /\ d = trail[n] /\ Holds(p, d)
      BY <1>3, TrailPop
    <2>2. p \in dirs
      <3>1. n - 1 \in 0 .. n
        BY <1>1, <2>1
      <3> QED
        BY <3>1, TrailIn
    <2>3. p \in Nat /\ p >= 2
      BY <2>2, DirOf
    <2>4. ~op.error /\ Len(op.out) >= 2
      <3>1. op.error \/ Len(op.out) < 2 => Target = 0
        BY <1>3 DEF Target
      <3>2. Len(op.out) \in Nat
        BY <1>0
      <3> QED
        BY <3>1, <3>2
    <2>5. ChildOf(d, p)
      BY <2>1 DEF Holds
    <2> HIDE DEF p, d
    <2>6. op.out[2].first = IF p = Bpb.root THEN 0 ELSE p
      BY <1>0, <1>1, <1>2, <2>4, <2>5, SecondEntry
    <2>7. Parent(op.out[2]) = p
      BY <2>3, <2>6 DEF Parent, GeoInv
    <2>8. p # d
      BY <2>5 DEF ChildOf
    <2>9. Target = p
      <3>1. ~(op.error \/ Len(op.out) < 2)
        BY <1>0, <2>4
      <3> QED
        BY <1>3, <2>7, <2>8, <3>1 DEF Target, d
    <2> QED
      BY <1>3, <2>1, <2>9
  <1>4. CASE op.arg # ".."
    <2> DEFINE e == FirstEntry(DirsNamed(op.arg))
    <2>1. Target = e.first /\ ~e.deleted
      BY <1>4 DEF Target, Named, DirsNamed
    <2>2. e # NoEntry
      BY <2>1 DEF NoEntry
    <2>3. /\ e.first = Child(Listing[d], op.arg)
          /\ \E i \in DOMAIN Slots[d] : Slots[d][i].kind = "dir" /\ Slots[d][i].first = e.first
      <3> HIDE DEF d
      <3> QED
        BY <1>0, <1>1, <1>2, <2>1, <2>2, ChildFound
    <2> DEFINE c == Child(Listing[d], op.arg)
    <2>4. c >= 2 /\ op.arg \in Paths \ {"/", ".", ".."}
      BY <1>0, <1>4, <2>1, <2>3
    <2>5. c \in dirs /\ ChildOf(c, d)
      <3> HIDE DEF d
      <3> QED
        BY <1>1, <2>4, DirOf
    <2> HIDE DEF e, c
    <2>6. Holds(d, c)
      BY <2>3, <2>5 DEF Holds, c
    <2>7. TrailOk(Append(trail, c), dirs) /\ At(Append(trail, c), Len(Append(trail, c))) = c
      BY <2>5, <2>6, TrailPush
    <2> QED
      BY <1>1, <1>4, <2>1, <2>3, <2>7 DEF c
  <1> QED
    BY <1>3, <1>4

LEMMA CdDoneVol ==
    ASSUME NEW dirs, DirTree(dirs), Fat32Inv, VolInv(dirs), CdDone
    PROVE  VolInv(dirs)'
  <1>1. /\ Scanned /\ op.cmd = "cd" /\ Target >= 2 /\ current_dir_cluster' = Target
        /\ op' = PathStep(Target, <<>>) /\ UNCHANGED <<disk, geometry, cache>>
    BY DEF CdDone, AfterCommand
  <1>2. Quiet(op')
    <2>1. IsPathStep(op', Target, <<>>, TRUE)
      BY <1>1 DEF IsPathStep
    <2> QED
      BY <2>1, QuietCalls
  <1>3. BootInv' /\ ShellInv(op', current_dir_cluster')
    BY <1>2 DEF BootInv, Quiet, ShellInv, ShellScan
  <1>4. CASE lost \/ (IF op.arg = ".." THEN trail = <<>> ELSE Named.deleted)
    <2>1. lost' = TRUE
      BY <1>4 DEF CdDone
    <2> QED
      BY <1>3, <2>1 DEF VolInv
  <1>5. CASE ~(lost \/ (IF op.arg = ".." THEN trail = <<>> ELSE Named.deleted))
    <2>1. /\ trail' = IF op.arg = ".." THEN Front(trail)
                      ELSE Append(trail, Child(Listing[Cwd], op.arg))
          /\ lost' = lost
      BY <1>5 DEF CdDone
    <2>2. /\ GeoInv /\ TrailOk(trail, dirs) /\ current_dir_cluster = At(trail, Len(trail))
          /\ ShellInv(op, current_dir_cluster)
      BY <1>5 DEF VolInv
    <2>3. TrailOk(trail', dirs) /\ Target = At(trail', Len(trail'))
      BY <1>1, <1>5, <2>1, <2>2, TargetRight
    <2>4. GeoInv'
      BY <1>1, <2>2 DEF GeoInv, geometry, cache
    <2> QED
      BY <1>1, <1>3, <2>3, <2>4 DEF VolInv
  <1> QED
    BY <1>4, <1>5

LEMMA CdDirectVol ==
    ASSUME NEW dirs, DirTree(dirs), Fat32Inv, VolInv(dirs), NEW p, CdDirect(p)
    PROVE  VolInv(dirs)'
  <1>1. /\ current_dir_cluster' = IF p = "/" THEN root_dir_first_cluster
                                  ELSE current_dir_cluster
        /\ trail' = IF p = "/" THEN <<>> ELSE trail
        /\ op' = PathStep(current_dir_cluster', <<>>)
        /\ UNCHANGED <<disk, geometry, cache, lost>>
    BY DEF CdDirect, AfterCommand
  <1>2. Quiet(op')
    <2>1. IsPathStep(op', current_dir_cluster', <<>>, TRUE)
      BY <1>1 DEF IsPathStep
    <2> QED
      BY <2>1, QuietCalls
  <1>3. BootInv' /\ ShellInv(op', current_dir_cluster')
    BY <1>2 DEF BootInv, Quiet, ShellInv, ShellScan
  <1>4. GeoInv => GeoInv'
    BY <1>1 DEF GeoInv, geometry, cache
  <1>5. ASSUME ~lost
        PROVE  TrailOk(trail', dirs) /\ current_dir_cluster' = At(trail', Len(trail'))
    <2>1. CASE p = "/"
      <3>1. trail' = <<>> /\ current_dir_cluster' = Bpb.root
        BY <1>1, <1>5, <2>1 DEF VolInv, GeoInv
      <3>2. <<>> \in Seq(dirs) /\ Len(<<>>) = 0
        OBVIOUS
      <3> QED
        BY <3>1, <3>2 DEF TrailOk, At
    <2>2. CASE p # "/"
      BY <1>1, <1>5, <2>2 DEF VolInv
    <2> QED
      BY <2>1, <2>2
  <1> QED
    BY <1>1, <1>3, <1>4, <1>5 DEF VolInv

\* The steps that end a call or go on to the prompt.
LEMMA QuietActions ==
    ASSUME Fat32Inv,
           \/ \E n \in DriveNums : DiskCommand(n)
           \/ PathSelf \/ PathParent \/ PathNoMemory \/ PathShown
           \/ LsDone \/ CatNothing \/ CatDone \/ CdFails
    PROVE  /\ Quiet(op')
           /\ UNCHANGED <<disk, geometry, current_dir_cluster, cache, trail, lost>>
  <1>1. UNCHANGED <<disk, geometry, current_dir_cluster, cache, trail, lost>>
    BY DEF DiskCommand, PathSelf, PathParent, PathNoMemory, PathShown, LsDone, CatNothing,
           CatDone, CdFails
  <1> SUFFICES Quiet(op')
    BY <1>1
  <1>2. CASE \E cur, path, b : IsPathStep(op', cur, path, b)
    BY <1>2, QuietCalls
  <1>3. CASE \/ \E n \in DriveNums : DiskCommand(n)
             \/ LsDone \/ CatNothing \/ CatDone \/ CdFails
    <2>1. IsPathStep(op', current_dir_cluster, <<>>, TRUE)
      BY <1>3 DEF IsPathStep, AfterCommand, DiskCommand, LsDone, CatNothing, CatDone, CdFails
    <2> QED
      BY <1>2, <2>1
  <1>4. CASE PathParent
    <2>1. \E path : op' = [PathStep(op.parent, path) EXCEPT !.faulty = op.faulty]
      BY <1>4 DEF PathParent
    <2>2. \E path : IsPathStep(op', op.parent, path, op.faulty)
      BY <2>1 DEF IsPathStep
    <2> QED
      BY <1>2, <2>2
  <1>5. CASE PathSelf
    <2>1. PICK up : op' = [Call("prompt", "read", "parent", 0, up, ReadMax)
                             EXCEPT !.cur = op.cur, !.parent = up, !.path = op.path,
                                    !.faulty = op.faulty]
      BY <1>5, Zenon DEF PathSelf
    <2>2. op'.cmd = "prompt" /\ op'.fn = "read"
      BY <2>1 DEF Call
    <2> QED
      BY <2>2 DEF Quiet
  <1>6. CASE PathNoMemory
    <2>1. op' = [Call("prompt", "shown", NoName, 0, op.cur, 0)
                   EXCEPT !.path = op.path, !.faulty = TRUE]
      BY <1>6 DEF PathNoMemory
    <2>2. op'.cmd = "prompt" /\ op'.fn = "shown"
      BY <2>1 DEF Call
    <2> QED
      BY <2>2 DEF Quiet
  <1>7. CASE PathShown
    <2>1. op' = Idle
      BY <1>7 DEF PathShown
    <2> QED
      BY <2>1, QuietCalls
  <1> QED
    BY <1>3, <1>4, <1>5, <1>6, <1>7

\* The other steps of the shell's commands.
LEMMA CommandVol ==
    ASSUME NEW dirs, DirTree(dirs), Fat32Inv, VolInv(dirs),
           Ls \/ (\E f \in Files : Cat(f)) \/ (\E p \in Paths : CdList(p)) \/ CatOpen
    PROVE  VolInv(dirs)'
  <1>1. UNCHANGED <<disk, geometry, current_dir_cluster, cache, drive_num, trail, lost>>
    BY DEF Ls, Cat, CdList, CatOpen
  <1>2. CASE Ls
    <2>1. op' = Call("ls", "list", NoName, drive_num, current_dir_cluster, ListMax)
      BY <1>2 DEF Ls
    <2> QED
      BY <1>1, <2>1, BeginScan
  <1>3. ASSUME NEW f \in Files, Cat(f)  PROVE VolInv(dirs)'
    <2>1. op' = Call("cat", "read", f, drive_num, current_dir_cluster, ReadMax)
      BY <1>3 DEF Cat
    <2> QED
      BY <1>1, <2>1, BeginScan
  <1>4. ASSUME NEW p \in Paths, CdList(p)  PROVE VolInv(dirs)'
    <2>1. PICK max : op' = Call("cd", "list", p, drive_num, current_dir_cluster, max)
      BY <1>4 DEF CdList
    <2>2. p \in Paths \ {"/", "."}
      BY <1>4 DEF CdList
    <2> QED
      BY <1>1, <2>1, <2>2, BeginScan
  <1>5. CASE CatOpen
    <2>1. PICK e : op' = [Call("cat", "file", op.arg, op.drive, e.first, 0)
                            EXCEPT !.want = e.size, !.faulty = op.faulty, !.cur = e.first]
      BY <1>5 DEF CatOpen
    <2>2. op'.cmd = "cat" /\ op'.fn = "file" /\ op'.arg = op.arg
      BY <2>1 DEF Call
    <2>3. BootInv' /\ (GeoInv => GeoInv')
      BY <1>1, <2>2 DEF BootInv, GeoInv, geometry, cache
    <2>4. ~lost => ShellInv(op', current_dir_cluster')
      <3>1. ~lost => op.arg \in Files
        BY <1>5 DEF CatOpen, VolInv, ShellInv
      <3> QED
        BY <2>2, <3>1 DEF ShellInv, ShellScan
    <2> QED
      BY <1>1, <2>3, <2>4 DEF VolInv
  <1> QED
    BY <1>2, <1>3, <1>4, <1>5

LEMMA MkfsVol ==
    ASSUME NEW dirs, VolInv(dirs), Mkfs \/ MkfsFails
    PROVE  VolInv(dirs)'
  <1>1. Quiet(op')
    <2>1. IsPathStep(op', current_dir_cluster, <<>>, TRUE)
      BY DEF IsPathStep, AfterCommand, Mkfs, MkfsFails
    <2> QED
      BY <2>1, QuietCalls
  <1>2. CASE lost' = TRUE
    BY <1>1, <1>2 DEF VolInv, BootInv, Quiet
  <1>3. CASE UNCHANGED <<disk, geometry, current_dir_cluster, cache, trail, lost>>
    BY <1>1, <1>3, QuietStep
  <1> QED
    BY <1>2, <1>3 DEF Mkfs, MkfsFails

LEMMA VolStep ==
    ASSUME NEW dirs, DirTree(dirs), Fat32Inv, VolInv(dirs), [Next]_vars
    PROVE  VolInv(dirs)'
  <1>1. CASE UNCHANGED vars
    BY <1>1 DEF vars, geometry, cache, VolInv, BootInv, GeoInv
  <1>2. CASE \/ \E n \in DriveNums : DiskCommand(n)
             \/ PathSelf \/ PathParent \/ PathNoMemory \/ PathShown
             \/ LsDone \/ CatNothing \/ CatDone \/ CdFails
    BY <1>2, QuietActions, QuietStep
  <1>3. CASE Ls \/ (\E f \in Files : Cat(f)) \/ (\E p \in Paths : CdList(p)) \/ CatOpen
    BY <1>3, CommandVol
  <1>4. CASE (\E p \in Paths : CdDirect(p)) \/ CdDone
    BY <1>4, CdDirectVol, CdDoneVol
  <1>5. CASE Mkfs \/ MkfsFails
    BY <1>5, MkfsVol
  <1>6. CASE MountOk \/ MountFails
    BY <1>6, MountVol
  <1>7. CASE ScanSector \/ ScanSlot \/ ScanNext
    BY <1>7, ScanVol
  <1>8. CASE FileSector \/ FileNext
    BY <1>8, FileVol
  <1> QED
    BY <1>1, <1>2, <1>3, <1>4, <1>5, <1>6, <1>7, <1>8, Zenon DEF Next, Command, Work

\* The addresses, the trail, the current directory and the scans of it, for
\* every volume whose directories the driver reads right.  They may hold
\* deleted slots: the scans take each of them for an entry.
THEOREM VolumeAlways ==
    ASSUME NEW dirs, DirTree(dirs)
    PROVE  Spec => []VolInv(dirs)
  <1>1. Init => VolInv(dirs)
    BY DEF Init, VolInv, BootInv
  <1>2. Fat32Inv /\ VolInv(dirs) /\ [Next]_vars => VolInv(dirs)'
    BY VolStep
  <1> QED
    BY <1>1, <1>2, Fat32Always, PTL DEF Spec

\* On such a volume any sequence of cd commands, also with failures, other
\* commands and switches of the drive between them, leads to the directory it
\* names on the volume, until one of them enters a deleted directory that is
\* listed before any other of this name.
THEOREM CwdFollowsTrail ==
    ASSUME NEW dirs, DirTree(dirs)
    PROVE  Spec => []CwdOnTrail
  <1>1. VolInv(dirs) => CwdOnTrail
    BY CwdAt DEF VolInv, CwdOnTrail
  <1> QED
    BY <1>1, VolumeAlways, PTL

\* What ls has when fat32_list_dir returns.
LEMMA ListingSeen ==
    ASSUME NEW dirs, DirTree(dirs), NEW d \in dirs, Fat32Inv, ScanInv(op, d), Scanned,
           op.fn = "list", ~op.faulty
    PROVE  /\ ~op.error
           /\ Len(op.out) = Min({Len(Listing[d]), op.max})
           /\ \A i \in DOMAIN op.out :
                 /\ Len(Listing[d][i].name) = 1 => op.out[i].name = Listing[d][i].name
                 /\ [op.out[i] EXCEPT !.name = <<>>] = [Listing[d][i] EXCEPT !.name = <<>>]
  <1> DEFINE S == SlotsIn(d, ListKinds)
             list == Listing[d]
  <1>1. S = EntrySlots(op, d)
    BY DEF EntrySlots, KindsOf
  <1>2. ~op.error
    BY DEF ScanInv
  <1>3. Complete(op, d)
    BY <1>2, ScanResult
  <1>4. Len(op.out) = Min({Len(list), op.max})
    BY <1>1, <1>3, ListingAt DEF Complete
  <1>5. op.out \in Seq(EntryRecords)
    BY DEF Fat32Inv, Fat32Type
  <1>6. ASSUME NEW k \in DOMAIN op.out
        PROVE  /\ Len(list[k].name) = 1 => op.out[k].name = list[k].name
               /\ [op.out[k] EXCEPT !.name = <<>>] = [list[k] EXCEPT !.name = <<>>]
    <2>1. k \in 1 .. Len(op.out)
      BY <1>5
    <2>2. PICK i \in S : Rank(S, i) = k /\ EntryIs("list", op.out[k], d, i)
      BY <1>1, <2>1 DEF ScanInv, Matched
    <2>3. list[k] = Entry(Slots[d][i], LongName(Slots[d], i))
      BY <2>2, ListingAt
    <2>4. PICK e \in EntryRecords : e = op.out[k]
      BY <1>5, <2>1
    <2>5. PICK name : name = LongName(Slots[d], i)
      OBVIOUS
    <2>6. /\ e.kind = Slots[d][i].kind /\ e.first = Slots[d][i].first
          /\ e.size = Slots[d][i].size /\ e.deleted = Slots[d][i].deleted
          /\ NameSeen(e.name, name)
      BY <2>2, <2>4, <2>5 DEF EntryIs
    <2>7. list[k] = [name |-> name, kind |-> e.kind, first |-> e.first, size |-> e.size,
                     deleted |-> e.deleted]
      BY <2>3, <2>5, <2>6 DEF Entry
    <2>8. Len(list[k].name) = 1 => e.name = list[k].name
      BY <2>6, <2>7 DEF NameSeen
    <2>9. [e EXCEPT !.name = <<>>] = [list[k] EXCEPT !.name = <<>>]
      BY <2>7 DEF EntryRecords
    <2> QED
      BY <2>4, <2>8, <2>9
  <1> QED
    BY <1>2, <1>4, <1>6

\* On such a volume ls lists one entry for each slot of a file or directory,
\* in their order and up to the size of the array, with its own data and its
\* own name: the label leaves no trace, a deleted slot is an entry like others
\* and has what is left of its long name.
THEOREM LsListsDirectory ==
    ASSUME NEW dirs, DirTree(dirs)
    PROVE  Spec => []ListingRight
  <1>1. ASSUME Fat32Inv, VolInv(dirs)  PROVE ListingRight
    <2> SUFFICES ASSUME Listed
                 PROVE  LET true == Listing[current_dir_cluster]
                        IN  /\ ~op.error
                            /\ Len(op.out) = Min({Len(true), op.max})
                            /\ \A i \in DOMAIN op.out :
                                  /\ Len(true[i].name) = 1 => op.out[i].name = true[i].name
                                  /\ [op.out[i] EXCEPT !.name = <<>>] =
                                        [true[i] EXCEPT !.name = <<>>]
      BY DEF ListingRight
    <2> DEFINE d == current_dir_cluster
    <2>1. Scanned /\ op.cmd = "ls" /\ op.drive = 0 /\ ~lost /\ ~op.faulty
      BY DEF Listed
    <2>2. TrailOk(trail, dirs) /\ d = At(trail, Len(trail)) /\ ShellInv(op, d)
      BY <1>1, <2>1 DEF VolInv
    <2>3. d \in dirs
      <3>1. Len(trail) \in 0 .. Len(trail)
        BY <2>2 DEF TrailOk
      <3> QED
        BY <2>2, <3>1, TrailIn
    <2>4. op.fn = "list" /\ ScanInv(op, d)
      BY <2>1, <2>2 DEF ShellInv, ShellScan, Scanned
    <2> HIDE DEF d
    <2>5. /\ ~op.error
          /\ Len(op.out) = Min({Len(Listing[d]), op.max})
          /\ \A i \in DOMAIN op.out :
                /\ Len(Listing[d][i].name) = 1 => op.out[i].name = Listing[d][i].name
                /\ [op.out[i] EXCEPT !.name = <<>>] = [Listing[d][i] EXCEPT !.name = <<>>]
      BY <1>1, <2>1, <2>3, <2>4, ListingSeen, Zenon
    <2> QED
      BY <2>5, Zenon DEF d
  <1> QED
    BY <1>1, Fat32Always, VolumeAlways, PTL

-----------------------------------------------------------------------------
(* The prompt. *)

\* The name under which directory number i of the trail is held.
NameOfDir(d, c) ==
    Slots[d][Min({k \in DOMAIN Slots[d] : Slots[d][k].kind = "dir" /\ Slots[d][k].first = c})].name
NameAt(tr, i) == NameOfDir(At(tr, i - 1), tr[i])

\* The names found so far are the last ones of the trail.
NamesShown(tr, path) ==
    /\ Len(path) \in Nat /\ Len(path) <= Len(tr) /\ Len(path) <= MaxDepth
    /\ \A i \in 1 .. Len(path) : path[i] = NameAt(tr, Len(tr) + 1 - i)

\* build_path is at the directory that the names lead up to, or at its parent.
PathInv(tr, o) ==
    /\ NamesShown(tr, o.path) /\ o.fn \in {"read", "shown"}
    /\ o.fn = "shown" => Len(o.path) = Min({Len(tr), MaxDepth})
    /\ o.fn = "read" =>
          /\ o.drive = 0 /\ o.max = ReadMax /\ o.arg \in {"self", "parent"}
          /\ Len(o.path) < Len(tr) /\ Len(o.path) < MaxDepth
          /\ o.cur = At(tr, Len(tr) - Len(o.path))
          /\ o.arg = "self" => ScanInv(o, o.cur)
          /\ o.arg = "parent" => /\ o.parent = At(tr, Len(tr) - Len(o.path) - 1)
                                 /\ ScanInv(o, o.parent)

PromptInv ==
    /\ op.fn = "shown" => op.cmd = "prompt"
    /\ ~lost /\ op.cmd = "prompt" /\ op.faulty = FALSE => PathInv(trail, op)

\* The entries that build_path looks for.
DotDots == {e \in Entries : e.name = <<"..">>}
DirsAt(cl) == {x \in Entries : x.kind = "dir" /\ x.first = cl}

LEMMA EntryThere ==
    ASSUME NEW T, op.out \in Seq(T), NEW wanted, ~op.error, NoEntry \notin wanted,
           NEW k \in 1 .. Len(op.out), op.out[k] \in wanted
    PROVE  FirstEntry(wanted) # NoEntry
  <1> DEFINE H == {i \in DOMAIN op.out : op.out[i] \in wanted}
  <1>1. k \in H /\ H \subseteq Nat
    OBVIOUS
  <1>2. Min(H) \in H
    <2> HIDE DEF H
    <2> QED
      BY <1>1, MinNat
  <1>3. FirstEntry(wanted) = op.out[Min(H)]
    BY <1>1 DEF FirstEntry
  <1> QED
    BY <1>2, <1>3

LEMMA ParentFound ==
    ASSUME NEW dirs, DirTree(dirs), GeoInv, NEW c \in dirs, NEW p \in dirs, ChildOf(c, p),
           op.fn = "read", Matched(op, c), op.out \in Seq(EntryRecords), ~op.error,
           Len(op.out) >= 2
    PROVE  Parent(FirstEntry(DotDots)) = p
  <1>1. /\ op.out[2].first = IF p = Bpb.root THEN 0 ELSE p
        /\ op.out[1].name = <<".">> /\ op.out[2].name = <<"..">>
    BY SecondEntry
  <1>2. \A j \in 1 .. Len(op.out) : op.out[j] \in DotDots <=> op.out[j].name = <<"..">>
    BY DEF DotDots, Entries, ToSet
  <1>3. 1 \in 1 .. Len(op.out) /\ 2 \in 1 .. Len(op.out)
    OBVIOUS
  <1>4. op.out[1] \notin DotDots /\ op.out[2] \in DotDots
    <2>1. <<".">> # <<"..">>
      OBVIOUS
    <2> QED
      BY <1>1, <1>2, <1>3, <2>1
  <1>5. NoEntry \notin DotDots
    BY DEF NoEntry, DotDots
  <1>6. FirstEntry(DotDots) # NoEntry
    BY <1>3, <1>4, <1>5, EntryThere
  <1>7. PICK k \in 1 .. Len(op.out) :
          /\ FirstEntry(DotDots) = op.out[k] /\ op.out[k] \in DotDots
          /\ \A j \in 1 .. Len(op.out) : op.out[j] \in DotDots => k <= j
    BY <1>6, FirstEntryAt
  <1>8. k = 2
    <2>1. k # 1 /\ k <= 2
      BY <1>3, <1>4, <1>7
    <2> QED
      BY <2>1
  <1>9. p \in Nat /\ p >= 2
    BY DirOf
  <1> QED
    BY <1>1, <1>7, <1>8, <1>9 DEF Parent, GeoInv

LEMMA NameFound ==
    ASSUME NEW dirs, DirTree(dirs), NEW d \in dirs, op.fn = "read", Matched(op, d),
           op.out \in Seq(EntryRecords), ~op.error,
           Len(op.out) = Cardinality(EntrySlots(op, d)),
           NEW c, \E k \in DOMAIN Slots[d] : Slots[d][k].kind = "dir" /\ Slots[d][k].first = c
    PROVE  FirstEntry(DirsAt(c)) # NoEntry /\ FirstEntry(DirsAt(c)).name[1] = NameOfDir(d, c)
  <1> DEFINE S == EntrySlots(op, d)
             H == {k \in DOMAIN Slots[d] : Slots[d][k].kind = "dir" /\ Slots[d][k].first = c}
  <1>1. /\ Len(Slots[d]) \in Nat /\ Within(S, Len(Slots[d]))
        /\ \A i : i \in S <=> i \in 1 .. Len(Slots[d]) /\ Slots[d][i].kind \in ReadKinds
    BY SlotsWithin DEF EntrySlots, KindsOf
  <1>2. DOMAIN Slots[d] = 1 .. Len(Slots[d])
    <2>1. Slots[d] \in Seq(DirSlots)
      BY SlotsFacts
    <2> QED
      BY <2>1
  <1>3. H \subseteq Nat /\ H # {}
    BY <1>1, <1>2
  <1>4. \A i : i \in H <=> i \in S /\ Slots[d][i].kind = "dir" /\ Slots[d][i].first = c
    BY <1>1, <1>2 DEF ReadKinds
  <1>5. NameOfDir(d, c) = Slots[d][Min(H)].name
    BY DEF NameOfDir
  <1> HIDE DEF H
  <1>6. PICK m : m = Min(H) /\ m \in H /\ \A y \in H : m <= y
    BY <1>3, MinNat
  <1>7. m \in S /\ m \in Nat /\ Slots[d][m].kind = "dir" /\ Slots[d][m].first = c
    BY <1>3, <1>4, <1>6
  <1>8. Rank(S, m) \in 1 .. Len(op.out)
    BY <1>1, <1>7, InOrderAt
  <1>9. EntryIs("read", op.out[Rank(S, m)], d, m)
    BY <1>7, <1>8, EntryAt
  <1>10. PICK r : r = Rank(S, m)
    OBVIOUS
  <1>11. /\ r \in 1 .. Len(op.out) /\ op.out[r].kind = "dir" /\ op.out[r].first = c
         /\ op.out[r].name = <<Slots[d][m].name>>
    BY <1>7, <1>8, <1>9, <1>10 DEF EntryIs
  <1>12. \A j \in 1 .. Len(op.out) : op.out[j] \in DirsAt(c) <=>
            op.out[j].kind = "dir" /\ op.out[j].first = c
    BY DEF DirsAt, Entries, ToSet
  <1>13. NoEntry \notin DirsAt(c)
    BY DEF NoEntry, DirsAt
  <1>14. FirstEntry(DirsAt(c)) # NoEntry
    BY <1>11, <1>12, <1>13, EntryThere
  <1>15. PICK k \in 1 .. Len(op.out) :
           /\ FirstEntry(DirsAt(c)) = op.out[k] /\ op.out[k] \in DirsAt(c)
           /\ \A j \in 1 .. Len(op.out) : op.out[j] \in DirsAt(c) => k <= j
    BY <1>14, FirstEntryAt
  <1>16. k <= r
    BY <1>11, <1>12, <1>15
  <1>17. r <= k
    <2>1. PICK i \in S : Rank(S, i) = k /\ EntryIs(op.fn, op.out[k], d, i)
      BY DEF Matched
    <2>2. i \in H
      BY <1>4, <1>12, <1>15, <2>1 DEF EntryIs
    <2>3. m <= i /\ i \in Nat
      BY <1>3, <1>6, <2>2
    <2> HIDE DEF S
    <2>4. Rank(S, m) <= Rank(S, i)
      BY <1>1, <1>7, <2>3, RankGrows
    <2> QED
      BY <1>10, <2>1, <2>4
  <1>18. k = r
    BY <1>11, <1>16, <1>17
  <1> QED
    BY <1>5, <1>6, <1>11, <1>14, <1>15, <1>18

\* build_path stops at the root and at MaxDepth names, and nowhere else.
LEMMA PathStepHolds ==
    ASSUME NEW dirs, DirTree(dirs), root_dir_first_cluster = Bpb.root,
           NEW tr, TrailOk(tr, dirs), NEW path, NamesShown(tr, path),
           NEW cur, cur = At(tr, Len(tr) - Len(path)),
           NEW o, NEW b, IsPathStep(o, cur, path, b)
    PROVE  PathInv(tr, o)
  <1> DEFINE n == Len(tr)
             k == Len(path)
  <1>0. PathCall(o, cur, path)
    BY PathStepFields, Zenon
  <1>1. /\ n \in Nat /\ k \in Nat /\ k <= n /\ k <= MaxDepth /\ MaxDepth \in Nat
        /\ n - k \in 0 .. n
    <2>1. tr \in Seq(dirs)
      BY DEF TrailOk
    <2>2. n \in Nat
      BY <2>1
    <2> QED
      BY <2>2, Sizes DEF NamesShown
  <1>2. cur \in dirs
    BY <1>1, TrailIn
  <1>3. cur = Bpb.root <=> k = n
    <2>1. CASE k = n
      BY <1>1, <2>1 DEF At
    <2>2. CASE k # n
      <3>1. n - k \in 1 .. n /\ n - k # 0
        BY <1>1, <2>2
      <3>2. cur = tr[n - k]
        BY <3>1 DEF At
      <3>3. Holds(At(tr, n - k - 1), tr[n - k])
        BY <3>1 DEF TrailOk
      <3> QED
        BY <2>2, <3>2, <3>3 DEF Holds, ChildOf
    <2> QED
      BY <2>1, <2>2
  <1>4. o.fn = "shown" <=> k = n \/ k >= MaxDepth
    BY <1>0, <1>3 DEF PathCall
  <1>5. o.path = path /\ o.fn \in {"shown", "read"} /\ o.drive = 0
    BY <1>0 DEF PathCall
  <1> HIDE DEF n, k
  <1>6. o.fn = "shown" => k = Min({n, MaxDepth})
    <2>1. Min({n, MaxDepth}) = IF n <= MaxDepth THEN n ELSE MaxDepth
      BY <1>1, MinPair
    <2> QED
      BY <1>1, <1>4, <2>1
  <1>7. ASSUME o.fn = "read"
        PROVE  /\ o.max = ReadMax /\ o.arg = "self" /\ k < n /\ k < MaxDepth /\ o.cur = cur
               /\ ScanInv(o, o.cur)
    <2>1. o.max = ReadMax /\ o.arg = "self" /\ o.cur = cur /\ o.cl = cur
      BY <1>0, <1>7 DEF PathCall
    <2>2. k < n /\ k < MaxDepth
      BY <1>1, <1>4, <1>7
    <2>3. /\ o.s = 0 /\ o.out = <<>> /\ o.slots = <<>> /\ o.present = 0
          /\ o.done = FALSE /\ o.error = FALSE
      BY <1>0 DEF PathCall
    <2>4. ScanInv(o, cur)
      BY <1>2, <2>1, <2>3, ScanStart
    <2> QED
      BY <2>1, <2>2, <2>4
  <1>8. o.arg = "self" => o.arg # "parent"
    OBVIOUS
  <1> QED
    BY <1>5, <1>6, <1>7, <1>8 DEF PathInv, n, k

\* A command has ended and the prompt is to be shown.
LEMMA PromptStart ==
    ASSUME NEW dirs, DirTree(dirs), VolInv(dirs)', UNCHANGED geometry,
           op' = PathStep(current_dir_cluster', <<>>)
    PROVE  PromptInv'
  <1> DEFINE cur == current_dir_cluster'
  <1>1. IsPathStep(op', cur, <<>>, TRUE)
    BY DEF IsPathStep
  <1>2. op'.cmd = "prompt"
    <2>1. PathCall(op', cur, <<>>)
      BY <1>1, PathStepFields, Zenon
    <2> QED
      BY <2>1 DEF PathCall
  <1>3. ASSUME ~lost'  PROVE PathInv(trail', op')
    <2>1. /\ TrailOk(trail', dirs) /\ cur = At(trail', Len(trail'))
          /\ root_dir_first_cluster = Bpb.root
      BY <1>3 DEF VolInv, GeoInv, geometry
    <2>2. Len(trail') \in Nat
      BY <2>1 DEF TrailOk
    <2>3. NamesShown(trail', <<>>)
      BY <2>2, Sizes DEF NamesShown
    <2>4. cur = At(trail', Len(trail') - Len(<<>>))
      <3>1. Len(<<>>) = 0 /\ Len(trail') - 0 = Len(trail')
        BY <2>2
      <3> QED
        BY <2>1, <3>1
    <2> HIDE DEF cur
    <2> QED
      BY <1>1, <2>1, <2>3, <2>4, PathStepHolds
  <1> QED
    BY <1>2, <1>3 DEF PromptInv

LEMMA PromptScan ==
    ASSUME NEW dirs, DirTree(dirs), Fat32Inv, VolInv(dirs), PromptInv,
           ScanSector \/ ScanSlot \/ ScanNext
    PROVE  PromptInv'
  <1>1. trail' = trail /\ lost' = lost /\ op.fn \in {"list", "read"}
    BY DEF ScanSector, ScanSlot, ScanNext, Scanning
  <1>2. SameCall(op, op')
    BY ScanSame
  <1>3. ASSUME ~lost, op.cmd = "prompt", op'.faulty = FALSE
        PROVE  PathInv(trail, op')
    <2>1. PathInv(trail, op) /\ GeoInv /\ TrailOk(trail, dirs)
      BY <1>2, <1>3 DEF PromptInv, SameCall, VolInv
    <2>2. /\ op.fn = "read" /\ op.drive = 0 /\ op.arg \in {"self", "parent"}
          /\ NamesShown(trail, op.path) /\ Len(op.path) < Len(trail)
          /\ op.cur = At(trail, Len(trail) - Len(op.path))
      BY <1>1, <2>1 DEF PathInv
    <2>3. /\ Len(trail) \in Nat /\ Len(op.path) \in Nat
          /\ Len(trail) - Len(op.path) \in 0 .. Len(trail)
          /\ Len(trail) - Len(op.path) - 1 \in 0 .. Len(trail)
      BY <2>1, <2>2 DEF TrailOk, NamesShown
    <2>4. ASSUME NEW d \in dirs, ScanInv(op, d)  PROVE ScanInv(op', d)
      BY <2>1, <2>2, <2>4, ScanSectorInv, ScanSlotInv, ScanNextInv
    <2>5. op.arg = "self" => ScanInv(op', op.cur)
      <3>1. op.cur \in dirs
        BY <2>1, <2>2, <2>3, TrailIn
      <3> QED
        BY <2>1, <2>2, <2>4, <3>1 DEF PathInv
    <2>6. op.arg = "parent" => ScanInv(op', op.parent)
      <3> SUFFICES ASSUME op.arg = "parent"  PROVE ScanInv(op', op.parent)
        OBVIOUS
      <3>1. op.parent = At(trail, Len(trail) - Len(op.path) - 1) /\ ScanInv(op, op.parent)
        BY <2>1, <2>2 DEF PathInv
      <3>2. op.parent \in dirs
        BY <2>1, <2>3, <3>1, TrailIn
      <3> QED
        BY <2>4, <3>1, <3>2
    <2> QED
      BY <1>2, <2>1, <2>5, <2>6 DEF PathInv, SameCall
  <1> QED
    BY <1>1, <1>2, <1>3 DEF PromptInv, SameCall

\* What build_path has read when a directory is done: all of its entries.
LEMMA PromptRead ==
    ASSUME NEW dirs, DirTree(dirs), ReadableDirs(dirs), Fat32Inv, VolInv(dirs), PromptInv,
           Scanned, op.cmd = "prompt", ~lost, op.faulty = FALSE
    PROVE  /\ PathInv(trail, op) /\ GeoInv /\ TrailOk(trail, dirs) /\ op.fn = "read"
           /\ op.arg \in {"self", "parent"} /\ op.out \in Seq(EntryRecords)
           /\ \E j \in 1 .. Len(trail) :
                 /\ j = Len(trail) - Len(op.path) /\ op.cur = trail[j]
                 /\ trail[j] \in dirs /\ At(trail, j - 1) \in dirs /\ Holds(At(trail, j - 1), trail[j])
                 /\ op.arg = "parent" => op.parent = At(trail, j - 1)
                 /\ LET d == IF op.arg = "self" THEN op.cur ELSE op.parent
                    IN  /\ Matched(op, d) /\ ~op.error
                        /\ Len(op.out) = Cardinality(EntrySlots(op, d))
  <1>1. PathInv(trail, op) /\ GeoInv /\ TrailOk(trail, dirs)
    BY DEF PromptInv, VolInv
  <1>2. /\ op.fn = "read" /\ op.arg \in {"self", "parent"} /\ op.max = ReadMax
        /\ NamesShown(trail, op.path) /\ Len(op.path) < Len(trail)
        /\ op.cur = At(trail, Len(trail) - Len(op.path))
        /\ op.arg = "self" => ScanInv(op, op.cur)
        /\ op.arg = "parent" => /\ op.parent = At(trail, Len(trail) - Len(op.path) - 1)
                                /\ ScanInv(op, op.parent)
    BY <1>1 DEF PathInv, Scanned
  <1>3. PICK j \in 1 .. Len(trail) : j = Len(trail) - Len(op.path)
    <2>1. Len(trail) \in Nat /\ Len(op.path) \in Nat
      BY <1>1, <1>2 DEF TrailOk, NamesShown
    <2> QED
      BY <1>2, <2>1
  <1>4. /\ op.cur = trail[j] /\ trail[j] = At(trail, j) /\ j \in 0 .. Len(trail)
        /\ j - 1 \in 0 .. Len(trail) /\ (op.arg = "parent" => op.parent = At(trail, j - 1))
    <2>1. Len(trail) \in Nat
      BY <1>1 DEF TrailOk
    <2> QED
      BY <1>2, <1>3, <2>1 DEF At
  <1>5. trail[j] \in dirs /\ At(trail, j - 1) \in dirs /\ Holds(At(trail, j - 1), trail[j])
    BY <1>1, <1>4, TrailIn DEF TrailOk
  <1> DEFINE d == IF op.arg = "self" THEN op.cur ELSE op.parent
  <1>6. d \in dirs /\ ScanInv(op, d)
    BY <1>2, <1>4, <1>5
  <1>7. op.out \in Seq(EntryRecords)
    BY <1>2 DEF Fat32Inv, Fat32Type
  <1> HIDE DEF d
  <1>8. ~op.error /\ Matched(op, d)
    BY <1>6 DEF ScanInv
  <1>9. Complete(op, d)
    BY <1>6, <1>8, ScanResult
  <1>10. Len(op.out) = Cardinality(EntrySlots(op, d))
    <2> DEFINE S == EntrySlots(op, d)
    <2>1. S = {i \in DOMAIN Slots[d] : Slots[d][i].kind \in {"dir", "file", "label"}}
      BY <1>2 DEF EntrySlots, KindsOf, SlotsIn, ReadKinds
    <2>2. Cardinality(S) <= ReadMax
      BY <1>6, <2>1 DEF ReadableDirs
    <2>3. Cardinality(S) \in Nat /\ ReadMax \in Nat
      BY <1>6, SlotsWithin, RankFinite, Sizes DEF EntrySlots
    <2>4. Len(op.out) = Min({Cardinality(S), ReadMax})
      BY <1>2, <1>9 DEF Complete
    <2> HIDE DEF S
    <2>5. Len(op.out) = Cardinality(S)
      BY <2>2, <2>3, <2>4, MinPair
    <2> QED
      BY <2>5 DEF S
  <1> QED
    BY <1>1, <1>2, <1>3, <1>4, <1>5, <1>7, <1>8, <1>10 DEF d

LEMMA PromptSelf ==
    ASSUME NEW dirs, DirTree(dirs), ReadableDirs(dirs), Fat32Inv, VolInv(dirs), PromptInv,
           PathSelf
    PROVE  PromptInv'
  <1> DEFINE up == Parent(FirstEntry(DotDots))
  <1>1. /\ Scanned /\ op.cmd = "prompt" /\ op.arg = "self" /\ trail' = trail /\ lost' = lost
        /\ op' = [Call("prompt", "read", "parent", 0, up, ReadMax)
                    EXCEPT !.cur = op.cur, !.parent = up, !.path = op.path,
                           !.faulty = op.faulty]
    BY DEF PathSelf, DotDots
  <1> HIDE DEF up
  <1>2. /\ op'.cmd = "prompt" /\ op'.fn = "read" /\ op'.arg = "parent" /\ op'.drive = 0
        /\ op'.max = ReadMax /\ op'.cur = op.cur /\ op'.parent = up /\ op'.path = op.path
        /\ op'.faulty = op.faulty
        /\ op'.cl = up /\ op'.s = 0 /\ op'.out = <<>> /\ op'.slots = <<>> /\ op'.present = 0
        /\ op'.done = FALSE /\ op'.error = FALSE
    BY <1>1 DEF Call
  <1>3. ASSUME ~lost, op.faulty = FALSE  PROVE PathInv(trail, op')
    <2>1. PathInv(trail, op) /\ GeoInv /\ op.fn = "read" /\ op.out \in Seq(EntryRecords)
      BY <1>1, <1>3, PromptRead
    <2>2. PICK j \in 1 .. Len(trail) :
            /\ j = Len(trail) - Len(op.path) /\ op.cur = trail[j]
            /\ trail[j] \in dirs /\ At(trail, j - 1) \in dirs
            /\ Holds(At(trail, j - 1), trail[j])
            /\ LET d == IF op.arg = "self" THEN op.cur ELSE op.parent
               IN  /\ Matched(op, d) /\ ~op.error
                   /\ Len(op.out) = Cardinality(EntrySlots(op, d))
      BY <1>1, <1>3, PromptRead
    <2>3. PICK c \in dirs, p \in dirs :
            c = op.cur /\ p = At(trail, Len(trail) - Len(op.path) - 1) /\ ChildOf(c, p)
      BY <2>2 DEF Holds
    <2>4. Matched(op, c) /\ ~op.error /\ Len(op.out) = Cardinality(EntrySlots(op, c))
      BY <1>1, <2>2, <2>3
    <2>5. Len(op.out) >= 2
      BY <2>3, <2>4, FirstTwo
    <2>6. up = p
      BY <2>1, <2>3, <2>4, <2>5, ParentFound DEF up
    <2>7. ScanInv(op', p)
      BY <1>2, <2>6, ScanStart
    <2> QED
      BY <1>2, <2>1, <2>3, <2>6, <2>7 DEF PathInv
  <1> QED
    BY <1>1, <1>2, <1>3 DEF PromptInv

LEMMA PromptParent ==
    ASSUME NEW dirs, DirTree(dirs), ReadableDirs(dirs), Fat32Inv, VolInv(dirs), PromptInv,
           PathParent
    PROVE  PromptInv'
  <1> DEFINE e == FirstEntry(DirsAt(op.cur))
             name == IF e = NoEntry THEN NoName ELSE e.name[1]
             new == Append(op.path, name)
  <1>1. /\ Scanned /\ op.cmd = "prompt" /\ op.arg = "parent" /\ trail' = trail /\ lost' = lost
        /\ op' = [PathStep(op.parent, new) EXCEPT !.faulty = op.faulty]
    BY DEF PathParent, DirsAt
  <1> HIDE DEF e, name, new
  <1>2. IsPathStep(op', op.parent, new, op.faulty)
    BY <1>1 DEF IsPathStep
  <1>3. op'.cmd = "prompt"
    <2>1. PathCall(op', op.parent, new)
      BY <1>2, PathStepFields, Zenon
    <2> QED
      BY <2>1 DEF PathCall
  <1>4. op'.faulty = op.faulty
    <2>1. op.parent \in Nat /\ op.path \in Seq(PathNames) /\ name \in PathNames
      <3>1. op \in CallRecords /\ op.out \in Seq(EntryRecords)
        BY <1>1 DEF Fat32Inv, Fat32Type, Scanned
      <3>2. e.name[1] \in PathNames
        BY <3>1, FirstEntryTyped DEF e
      <3> QED
        BY <3>1, <3>2 DEF CallRecords, PathNames, Strings, name
    <2>2. new \in Seq(PathNames)
      BY <2>1 DEF new
    <2>3. PICK r : r = PathStep(op.parent, new)
      OBVIOUS
    <2>4. r \in CallRecords
      BY <2>1, <2>2, <2>3, PathStepFresh DEF FreshCall
    <2>5. op' = [r EXCEPT !.faulty = op.faulty]
      BY <1>1, <2>3
    <2> QED
      BY <2>4, <2>5 DEF CallRecords
  <1>5. ASSUME ~lost, op.faulty = FALSE  PROVE PathInv(trail, op')
    <2>1. /\ PathInv(trail, op) /\ GeoInv /\ TrailOk(trail, dirs) /\ op.fn = "read"
          /\ op.out \in Seq(EntryRecords)
      BY <1>1, <1>5, PromptRead
    <2>2. PICK j \in 1 .. Len(trail) :
            /\ j = Len(trail) - Len(op.path) /\ op.cur = trail[j]
            /\ At(trail, j - 1) \in dirs /\ Holds(At(trail, j - 1), trail[j])
            /\ op.arg = "parent" => op.parent = At(trail, j - 1)
            /\ LET d == IF op.arg = "self" THEN op.cur ELSE op.parent
               IN  /\ Matched(op, d) /\ ~op.error
                   /\ Len(op.out) = Cardinality(EntrySlots(op, d))
      BY <1>1, <1>5, PromptRead
    <2>3. PICK d \in dirs : d = op.parent
      BY <1>1, <2>2
    <2>4. /\ Matched(op, d) /\ ~op.error /\ Len(op.out) = Cardinality(EntrySlots(op, d))
          /\ d = At(trail, j - 1)
          /\ \E k \in DOMAIN Slots[d] : Slots[d][k].kind = "dir" /\ Slots[d][k].first = op.cur
      BY <1>1, <2>2, <2>3 DEF Holds
    <2>5. e # NoEntry /\ e.name[1] = NameOfDir(d, op.cur)
      BY <2>1, <2>4, NameFound DEF e
    <2>6. name = NameAt(trail, j)
      BY <2>2, <2>4, <2>5 DEF name, NameAt
    <2>7. /\ NamesShown(trail, op.path) /\ Len(op.path) < MaxDepth /\ Len(op.path) < Len(trail)
          /\ op.path \in Seq(PathNames) /\ Len(trail) \in Nat /\ MaxDepth \in Nat
      BY <2>1, Sizes DEF PathInv, TrailOk, Fat32Inv, Fat32Type, CallRecords
    <2>8. /\ Len(new) = Len(op.path) + 1 /\ new[Len(op.path) + 1] = name
          /\ \A i \in 1 .. Len(op.path) : new[i] = op.path[i]
      BY <2>7 DEF new
    <2>9. NamesShown(trail, new) /\ j - 1 = Len(trail) - Len(new)
      <3>1. PICK k \in Nat : k = Len(op.path)
        BY <2>7
      <3>2. k < MaxDepth /\ k < Len(trail) /\ Len(new) = k + 1
        BY <2>7, <2>8, <3>1
      <3>3. Len(trail) + 1 - (k + 1) = j /\ j - 1 = Len(trail) - (k + 1)
        BY <2>2, <2>7, <3>1
      <3>4. ASSUME NEW i \in 1 .. k + 1  PROVE new[i] = NameAt(trail, Len(trail) + 1 - i)
        <4>1. CASE i \in 1 .. k
          BY <2>7, <2>8, <3>1, <4>1 DEF NamesShown
        <4>2. CASE i = k + 1
          BY <2>6, <2>8, <3>1, <3>3, <4>2
        <4> QED
          BY <4>1, <4>2
      <3>5. k + 1 <= Len(trail) /\ k + 1 <= MaxDepth /\ k + 1 \in Nat
        BY <2>7, <3>2
      <3> QED
        BY <3>2, <3>3, <3>4, <3>5 DEF NamesShown
    <2>10. op.parent = At(trail, Len(trail) - Len(new)) /\ root_dir_first_cluster = Bpb.root
      BY <2>1, <2>3, <2>4, <2>9 DEF GeoInv
    <2> QED
      BY <1>2, <2>1, <2>9, <2>10, PathStepHolds
  <1> QED
    BY <1>1, <1>3, <1>4, <1>5 DEF PromptInv

\* A call that is not one for the prompt.
LEMMA NoPrompt ==
    ASSUME op'.cmd # "prompt", op'.fn # "shown"
    PROVE  PromptInv'
  BY DEF PromptInv

LEMMA PromptOther ==
    ASSUME NEW dirs, Fat32Inv, PromptInv,
           \/ Ls \/ (\E f \in Files : Cat(f)) \/ (\E p \in Paths : CdList(p)) \/ CatOpen
           \/ PathShown \/ PathNoMemory \/ MountOk \/ MountFails \/ FileSector \/ FileNext
    PROVE  PromptInv'
  <1>1. CASE Ls
    <2>1. op'.cmd = "ls" /\ op'.fn = "list"
      BY <1>1 DEF Ls, Call
    <2> QED
      BY <2>1, NoPrompt
  <1>2. CASE \E f \in Files : Cat(f)
    <2>1. op'.cmd = "cat" /\ op'.fn = "read"
      BY <1>2 DEF Cat, Call
    <2> QED
      BY <2>1, NoPrompt
  <1>3. CASE \E p \in Paths : CdList(p)
    <2>1. op'.cmd = "cd" /\ op'.fn = "list"
      BY <1>3 DEF CdList, Call
    <2> QED
      BY <2>1, NoPrompt
  <1>4. CASE CatOpen
    <2>1. PICK e : op' = [Call("cat", "file", op.arg, op.drive, e.first, 0)
                            EXCEPT !.want = e.size, !.faulty = op.faulty, !.cur = e.first]
      BY <1>4 DEF CatOpen
    <2>2. op'.cmd = "cat" /\ op'.fn = "file"
      BY <2>1 DEF Call
    <2> QED
      BY <2>2, NoPrompt
  <1>5. CASE PathShown
    <2>1. op'.cmd = "none" /\ op'.fn = "idle"
      BY <1>5 DEF PathShown, Idle, Call
    <2> QED
      BY <2>1, NoPrompt
  <1>6. CASE MountOk \/ MountFails
    <2>1. op'.cmd \in {"boot", "none"} /\ op'.fn \in {"mount", "idle"}
      <3>1. op' = AfterMount
        BY <1>6 DEF MountOk, MountFails
      <3> QED
        BY <3>1 DEF AfterMount, Mount, Idle, Call
    <2> QED
      BY <2>1, NoPrompt
  <1>7. CASE PathNoMemory
    <2>1. op' = [Call("prompt", "shown", NoName, 0, op.cur, 0)
                   EXCEPT !.path = op.path, !.faulty = TRUE]
      BY <1>7 DEF PathNoMemory
    <2>2. op'.cmd = "prompt" /\ op'.faulty = TRUE
      BY <2>1 DEF Call
    <2> QED
      BY <2>2 DEF PromptInv
  <1>8. CASE FileSector \/ FileNext
    <2>1. SameCall(op, op') /\ op.fn = "file" /\ lost' = lost
      BY <1>8, LookupSame, CopyStep DEF FileSector, FileNext, FileReading
    <2> QED
      BY <2>1 DEF PromptInv, PathInv, SameCall
  <1> QED
    BY <1>1, <1>2, <1>3, <1>4, <1>5, <1>6, <1>7, <1>8

LEMMA PromptStep ==
    ASSUME NEW dirs, DirTree(dirs), ReadableDirs(dirs), Fat32Inv, VolInv(dirs),
           VolInv(dirs)', PromptInv, [Next]_vars
    PROVE  PromptInv'
  <1>1. CASE UNCHANGED vars
    BY <1>1 DEF vars, PromptInv
  <1>2. CASE \/ \E n \in DriveNums : DiskCommand(n)
             \/ LsDone \/ CatNothing \/ CatDone \/ CdFails \/ CdDone
             \/ \E p \in Paths : CdDirect(p)
             \/ Mkfs \/ MkfsFails
    <2>1. UNCHANGED geometry /\ op' = PathStep(current_dir_cluster', <<>>)
      BY <1>2 DEF DiskCommand, LsDone, CatNothing, CatDone, CdFails, CdDone, CdDirect, Mkfs,
                  MkfsFails, AfterCommand
    <2> QED
      BY <2>1, PromptStart
  <1>3. CASE \/ Ls \/ (\E f \in Files : Cat(f)) \/ (\E p \in Paths : CdList(p)) \/ CatOpen
             \/ PathShown \/ PathNoMemory \/ MountOk \/ MountFails \/ FileSector \/ FileNext
    BY <1>3, PromptOther
  <1>4. CASE ScanSector \/ ScanSlot \/ ScanNext
    BY <1>4, PromptScan
  <1>5. CASE PathSelf \/ PathParent
    BY <1>5, PromptSelf, PromptParent
  <1> QED
    BY <1>1, <1>2, <1>3, <1>4, <1>5, Zenon DEF Next, Command, Work

\* On such a volume, if no directory has more entries than build_path reads,
\* the prompt shows the path from the root to the current directory, each
\* directory under the name in the first slot that leads to it.
THEOREM PromptShowsTrail ==
    ASSUME NEW dirs, DirTree(dirs), ReadableDirs(dirs)
    PROVE  Spec => []PromptIsTrail
  <1>1. Init => PromptInv
    BY DEF Init, PromptInv, Mount, Call
  <1>2. Fat32Inv /\ VolInv(dirs) /\ VolInv(dirs)' /\ PromptInv /\ [Next]_vars => PromptInv'
    BY PromptStep
  <1>3. ASSUME Fat32Inv, VolInv(dirs), PromptInv  PROVE PromptIsTrail
    <2> SUFFICES ASSUME op.fn = "shown", ~lost, ~op.faulty
                 PROVE  /\ Len(op.path) = Min({Len(trail), MaxDepth})
                        /\ \A i \in DOMAIN op.path : op.path[i] = TrailName(Len(trail) + 1 - i)
      BY DEF PromptIsTrail
    <2>1. op.faulty \in BOOLEAN /\ op.path \in Seq(PathNames)
      BY <1>3 DEF Fat32Inv, Fat32Type, CallRecords
    <2>2. op.faulty = FALSE
      BY <2>1
    <2>3. PathInv(trail, op)
      BY <1>3, <2>2 DEF PromptInv
    <2>4. /\ Len(op.path) = Min({Len(trail), MaxDepth})
          /\ Len(op.path) \in Nat /\ Len(op.path) <= Len(trail)
          /\ \A i \in 1 .. Len(op.path) : op.path[i] = NameAt(trail, Len(trail) + 1 - i)
      BY <2>3 DEF PathInv, NamesShown
    <2>5. Len(trail) \in Nat
      <3>1. trail \in Seq(dirs)
        BY <1>3 DEF VolInv, TrailOk
      <3> QED  BY <3>1
    <2>6. ASSUME NEW j \in 1 .. Len(trail)  PROVE TrailName(j) = NameAt(trail, j)
      <3>1. At(trail, j - 1) = IF j = 1 THEN Bpb.root ELSE trail[j - 1]
        <4>1. j - 1 = 0 <=> j = 1
          BY <2>5
        <4> QED
          BY <4>1 DEF At
      <3> QED
        BY <3>1, Zenon DEF TrailName, NameAt, NameOfDir
    <2>7. DOMAIN op.path = 1 .. Len(op.path)
      BY <2>1
    <2>8. ASSUME NEW i \in 1 .. Len(op.path)
          PROVE  op.path[i] = TrailName(Len(trail) + 1 - i)
      <3>1. PICK j : j = Len(trail) + 1 - i
        OBVIOUS
      <3>2. j \in 1 .. Len(trail)
        BY <2>4, <2>5, <3>1
      <3>3. op.path[i] = NameAt(trail, j)
        BY <2>4, <3>1, Zenon
      <3> QED
        BY <2>6, <3>1, <3>2, <3>3, Zenon
    <2> QED
      BY <2>4, <2>7, <2>8
  <1> QED
    BY <1>1, <1>2, <1>3, Fat32Always, VolumeAlways, PTL DEF Spec

-----------------------------------------------------------------------------
(* cat. *)

\* Sequences of length D, and those laid end to end.
AllLong(ss, D) == \A i \in 1 .. Len(ss) : Len(ss[i]) = D
Laid(f, ss, D) == \A k \in 1 .. Len(ss) : \A j \in 1 .. D : f[(k - 1) * D + j] = ss[k][j]

LEMMA FlatEqual ==
    ASSUME NEW T, NEW D \in Nat, NEW ss \in Seq(Seq(T)), AllLong(ss, D)
    PROVE  Laid(FlattenSeq(ss), ss, D)
  <1>0. /\ Len(ss) \in Nat
        /\ \A k \in 1 .. Len(ss) : ss[k] \in Seq(T) /\ Len(ss[k]) = D
    BY DEF AllLong
  <1>1. /\ FlatTo(ss, 0) = <<>>
        /\ \A k \in 1 .. Len(ss) : FlatTo(ss, k) = FlatTo(ss, k - 1) \o ss[k]
        /\ \A k \in 0 .. Len(ss) : FlatTo(ss, k) \in Seq(T)
        /\ FlattenSeq(ss) = FlatTo(ss, Len(ss))
    BY FlatFacts
  <1>2. \A k \in 0 .. Len(ss) : Len(FlatTo(ss, k)) = k * D
    <2> DEFINE S == {k \in Nat : Len(FlatTo(ss, k)) = k * D}
    <2>1. 0 \in S
      BY <1>1
    <2>2. ASSUME NEW k \in 1 .. Len(ss), k - 1 \in S  PROVE k \in S
      <3>1. k - 1 \in 0 .. Len(ss) /\ k \in Nat
        BY <1>0
      <3>2. FlatTo(ss, k - 1) \in Seq(T) /\ ss[k] \in Seq(T) /\ Len(ss[k]) = D
        BY <1>0, <1>1, <3>1
      <3>3. Len(FlatTo(ss, k)) = Len(FlatTo(ss, k - 1)) + D
        <4>1. PICK old \in Seq(T), more \in Seq(T) : old = FlatTo(ss, k - 1) /\ more = ss[k]
          BY <3>2
        <4>2. Len(old \o more) = Len(old) + Len(more)
          BY ConcatProperties
        <4>3. FlatTo(ss, k) = old \o more
          BY <1>1, <4>1
        <4> QED
          BY <3>2, <4>1, <4>2, <4>3
      <3>4. Len(FlatTo(ss, k - 1)) = (k - 1) * D
        BY <2>2
      <3>5. (k - 1) * D + D = k * D
        BY <3>1
      <3> QED
        BY <3>1, <3>3, <3>4, <3>5
    <2> HIDE DEF S
    <2>3. \A k \in 0 .. Len(ss) : k \in S
      BY <1>0, <2>1, <2>2, UpTo, Zenon
    <2> QED
      BY <2>3 DEF S
  <1> SUFFICES ASSUME NEW k \in 1 .. Len(ss), NEW j \in 1 .. D
               PROVE  FlattenSeq(ss)[(k - 1) * D + j] = ss[k][j]
    BY DEF Laid
  <1>3. k - 1 \in 0 .. Len(ss) /\ k \in 0 .. Len(ss) /\ Len(ss) \in k .. Len(ss)
    BY <1>0
  <1>4. PICK a \in Nat : a = (k - 1) * D /\ a + D = k * D
    BY <1>3
  <1>5. FlatTo(ss, k - 1) \in Seq(T) /\ Len(FlatTo(ss, k - 1)) = a
    BY <1>1, <1>2, <1>3, <1>4
  <1>6. Len(FlatTo(ss, k)) = a + D
    BY <1>2, <1>3, <1>4
  <1>7. FlatTo(ss, k)[a + j] = ss[k][j]
    <2>1. FlatTo(ss, k) = FlatTo(ss, k - 1) \o ss[k] /\ ss[k] \in Seq(T) /\ Len(ss[k]) = D
      BY <1>0, <1>1
    <2>2. PICK old \in Seq(T), more \in Seq(T) : old = FlatTo(ss, k - 1) /\ more = ss[k]
      BY <1>5, <2>1
    <2>3. Len(old) = a /\ Len(more) = D
      BY <1>5, <2>1, <2>2
    <2>4. (old \o more)[Len(old) + j] = more[j]
      <3>1. j \in 1 .. Len(more)
        BY <2>3
      <3> QED
        BY <3>1, ConcatSecond
    <2> QED
      BY <2>1, <2>2, <2>3, <2>4
  <1>8. a + j \in 1 .. Len(FlatTo(ss, k))
    BY <1>6
  <1>9. FlatTo(ss, Len(ss))[a + j] = FlatTo(ss, k)[a + j]
    BY <1>3, <1>8, FlatPrefix
  <1> QED
    BY <1>1, <1>4, <1>7, <1>9

\* The bytes of the first cluster of a file.
LEMMA FileBytes ==
    ASSUME NEW dirs, DirTree(dirs), NEW c, FileWhole(c),
           NEW k \in 1 .. Bpb.spc, NEW j \in 1 .. DataUnits
    PROVE  Contents[c][(k - 1) * DataUnits + j] = Image[0][LbaOf(Vol, c) + k - 1].data[j]
  <1> DEFINE chain == Chain[c]
             part(cl) == [q \in 1 .. Vol.bpb.spc |-> Vol.sector[LbaOf(Vol, cl) + q - 1]]
             ss == [i \in DOMAIN chain |-> part(chain[i])]
             sec == FlattenSeq(ss)
             dd == [i \in DOMAIN sec |-> sec[i].data]
  <1>0. /\ Bpb.spc \in Nat \ {0} /\ DataUnits \in Nat /\ Vol.bpb = Bpb /\ Vol.sector = Image[0]
    BY BootRecordTyped, Sizes DEF Bpb, Vol, Volume
  <1>1. /\ c \in Clusters /\ chain \in Seq({x \in Clusters : Whole(x)})
        /\ Len(chain) \in Nat /\ Len(chain) >= 1 /\ chain[1] = c
    BY DEF FileWhole
  <1>2. ASSUME NEW cl, Whole(cl)
        PROVE  part(cl) \in Seq(Sectors) /\ Len(part(cl)) = Bpb.spc
    <2>1. \A q \in 1 .. Bpb.spc : Image[0][LbaOf(Vol, cl) + q - 1] \in Sectors
      BY <1>2, ClusterSectors
    <2> QED
      BY <1>0, <2>1
  <1>3. /\ ss \in Seq(Seq(Sectors)) /\ Len(ss) = Len(chain) /\ ss[1] = part(c)
        /\ ss[1] \in Seq(Sectors) /\ Len(ss[1]) = Bpb.spc
    <2>1. \A i \in 1 .. Len(chain) : Whole(chain[i])
      BY <1>1
    <2>2. \A i \in 1 .. Len(chain) : part(chain[i]) \in Seq(Sectors)
      BY <1>2, <2>1
    <2>3. DOMAIN chain = 1 .. Len(chain) /\ 1 \in 1 .. Len(chain)
      BY <1>1
    <2>4. Len(part(c)) = Bpb.spc
      BY <1>1, <1>2, <2>1, <2>3
    <2> HIDE DEF part, chain
    <2>5. ss \in Seq(Seq(Sectors)) /\ Len(ss) = Len(chain) /\ ss[1] = part(c)
      BY <1>1, <2>2, <2>3
    <2> QED
      BY <1>1, <2>2, <2>3, <2>4, <2>5
  <1>4. part(c)[k] = Image[0][LbaOf(Vol, c) + k - 1]
    BY <1>0
  <1> HIDE DEF ss, part, chain
  <1>5. /\ sec \in Seq(Sectors) /\ Len(sec) \in Nat /\ k \in 1 .. Len(sec)
        /\ sec[k] = Image[0][LbaOf(Vol, c) + k - 1]
    <2>0. 1 \in 1 .. Len(ss) /\ 1 \in 0 .. Len(ss) /\ Len(ss) \in 1 .. Len(ss)
          /\ Len(ss) \in 0 .. Len(ss)
      BY <1>1, <1>3
    <2>1. /\ FlatTo(ss, 1) = FlatTo(ss, 1 - 1) \o ss[1] /\ FlatTo(ss, 0) = <<>>
          /\ FlatTo(ss, Len(ss)) \in Seq(Sectors) /\ sec = FlatTo(ss, Len(ss))
      BY <1>3, <2>0, FlatFacts
    <2>2. FlatTo(ss, 1) = ss[1]
      <3>1. 1 - 1 = 0
        OBVIOUS
      <3>2. FlatTo(ss, 1) = <<>> \o ss[1]
        BY <2>1, <3>1
      <3>3. <<>> \o ss[1] = ss[1]
        BY <1>3, ConcatEmptySeq
      <3> QED
        BY <3>2, <3>3
    <2>3. /\ Len(FlatTo(ss, 1)) <= Len(FlatTo(ss, Len(ss)))
          /\ \A q \in 1 .. Len(FlatTo(ss, 1)) : FlatTo(ss, Len(ss))[q] = FlatTo(ss, 1)[q]
      BY <1>3, <2>0, FlatPrefix
    <2> HIDE DEF sec
    <2>4. Len(sec) \in Nat /\ Bpb.spc <= Len(sec)
      BY <1>3, <2>1, <2>2, <2>3
    <2> QED
      BY <1>0, <1>3, <1>4, <2>1, <2>2, <2>3, <2>4
  <1> HIDE DEF sec
  <1>6. /\ dd \in Seq(Seq(Nat)) /\ Len(dd) = Len(sec)
        /\ \A i \in 1 .. Len(dd) : Len(dd[i]) = DataUnits
        /\ dd[k] = Image[0][LbaOf(Vol, c) + k - 1].data
    <2>1. \A i \in 1 .. Len(sec) : sec[i].data \in [1 .. DataUnits -> Nat]
      <3> SUFFICES ASSUME NEW i \in 1 .. Len(sec)
                   PROVE  sec[i].data \in [1 .. DataUnits -> Nat]
        OBVIOUS
      <3>1. sec[i] \in Sectors
        BY <1>5
      <3> QED
        BY <3>1 DEF Sectors, DataSectors
    <2>2. \A i \in 1 .. Len(sec) : sec[i].data \in Seq(Nat) /\ Len(sec[i].data) = DataUnits
      BY <1>0, <2>1
    <2>3. DOMAIN sec = 1 .. Len(sec)
      BY <1>5
    <2> QED
      BY <1>5, <2>2, <2>3
  <1>7. Contents[c] = FlattenSeq(dd)
    <2>1. sec = SectorsOf(Vol, Chain[c])
      BY DEF sec, ss, part, chain, SectorsOf
    <2> QED
      BY <1>1, <2>1 DEF Contents
  <1> HIDE DEF dd
  <1>8. FlattenSeq(dd)[(k - 1) * DataUnits + j] = dd[k][j]
    <2>1. k \in 1 .. Len(dd)
      BY <1>5, <1>6
    <2>2. AllLong(dd, DataUnits)
      BY <1>6 DEF AllLong
    <2>3. Laid(FlattenSeq(dd), dd, DataUnits)
      BY <1>0, <1>6, <2>2, FlatEqual, Zenon
    <2> QED
      BY <2>1, <2>3, Zenon DEF Laid
  <1> QED
    BY <1>6, <1>7, <1>8

\* The sectors of the first cluster are copied one after the other ...
InFirst(o) ==
    /\ o.cl = o.cur /\ o.s \in 0 .. Bpb.spc
    /\ Len(o.out) = Min({o.want, o.s * DataUnits})

\* ... and what comes after them is put behind them.
FirstBytes(o) == \A i \in 1 .. Len(o.out) :
                    i <= Bpb.spc * DataUnits => o.out[i] = Contents[o.cur][i]

\* cat reads a file of the volume.  It meets the end of the chain only when
\* the file has no more than the bytes that the first cluster holds.
FileInv(o, onward) ==
    /\ FileWhole(o.cur) /\ FirstBytes(o)
    /\ o.s # 0 => o.cl < EOC
    /\ InFirst(o) \/ Len(o.out) >= Min({o.want, Bpb.spc * DataUnits})
    /\ IF o.want > Bpb.spc * DataUnits THEN o.cl \in onward
       ELSE o.cl < EOC \/ Len(o.out) = o.want

CatInv(onward) ==
    ~lost /\ op.fn = "file" /\ op.drive = 0 /\ op.faulty = FALSE => FileInv(op, onward)

\* The files that cat looks for.
FilesNamed(name) == {e \in Entries : e.kind # "dir" /\ e.name = <<name>>}

\* cat opens a file of the current directory.
LEMMA FileFound ==
    ASSUME NEW dirs, DirTree(dirs), NEW onward, FilesSound(dirs, onward), NEW d \in dirs,
           op.fn = "read", op.out \in Seq(EntryRecords), Matched(op, d), op.arg \in Files,
           NEW e, e = FirstEntry(FilesNamed(op.arg)), e # NoEntry, e.first >= 2
    PROVE  /\ FileWhole(e.first) /\ e.size \in Nat
           /\ e.size > Bpb.spc * DataUnits => e.first \in onward
  <1> DEFINE S == EntrySlots(op, d)
  <1>1. PICK k \in 1 .. Len(op.out) : e = op.out[k] /\ op.out[k] \in FilesNamed(op.arg)
    BY FirstEntryAt
  <1>2. e.kind # "dir" /\ e.name = <<op.arg>>
    BY <1>1 DEF FilesNamed
  <1>3. PICK i \in S : EntryIs(op.fn, op.out[k], d, i)
    BY DEF Matched
  <1>4. i \in DOMAIN Slots[d] /\ Slots[d][i].kind \in {"dir", "file", "label"}
    BY <1>3 DEF EntrySlots, SlotsIn, KindsOf, ReadKinds
  <1>5. PICK slot : slot = Slots[d][i]
    OBVIOUS
  <1>6. /\ e.kind = slot.kind /\ e.first = slot.first /\ e.size = slot.size
        /\ e.name = <<slot.name>>
    BY <1>1, <1>3, <1>5 DEF EntryIs
  <1>7. slot.kind \in {"file", "label"} /\ slot.name = op.arg /\ slot.first >= 2
    BY <1>2, <1>4, <1>5, <1>6
  <1>8. /\ FileWhole(slot.first)
        /\ slot.size > Bpb.spc * DataUnits => slot.first \in onward
    BY <1>4, <1>5, <1>7 DEF FilesSound
  <1>9. e \in EntryRecords
    BY <1>1
  <1>10. e.size \in Nat
    BY <1>9 DEF EntryRecords
  <1> QED
    BY <1>6, <1>8, <1>10

LEMMA CatOpenInv ==
    ASSUME NEW dirs, DirTree(dirs), NEW onward, FilesSound(dirs, onward), Fat32Inv, VolInv(dirs),
           CatOpen
    PROVE  CatInv(onward)'
  <1>1. PICK e : /\ e = Wanted /\ e # NoEntry /\ e.first >= 2
                 /\ op' = [Call("cat", "file", op.arg, op.drive, e.first, 0)
                             EXCEPT !.want = e.size, !.faulty = op.faulty, !.cur = e.first]
    BY DEF CatOpen
  <1>2. /\ op'.cl = e.first /\ op'.cur = e.first /\ op'.s = 0 /\ op'.out = <<>>
        /\ op'.want = e.size /\ op'.drive = op.drive
    BY <1>1 DEF Call
  <1>3. lost' = lost /\ op.cmd = "cat" /\ op.fn \in {"list", "read"}
    BY DEF CatOpen, Scanned
  <1> SUFFICES ASSUME ~lost, op.drive = 0  PROVE FileInv(op', onward)
    BY <1>2, <1>3 DEF CatInv
  <1> DEFINE d == current_dir_cluster
  <1>4. d \in dirs /\ ShellInv(op, d)
    <2>1. TrailOk(trail, dirs) /\ d = At(trail, Len(trail)) /\ ShellInv(op, d)
      BY DEF VolInv
    <2>2. Len(trail) \in 0 .. Len(trail)
      BY <2>1 DEF TrailOk
    <2> QED
      BY <2>1, <2>2, TrailIn
  <1> HIDE DEF d
  <1>5. op.fn = "read" /\ op.arg \in Files /\ Matched(op, d)
    BY <1>3, <1>4 DEF ShellInv, ShellScan, ScanInv
  <1>6. op.out \in Seq(EntryRecords)
    BY <1>5 DEF Fat32Inv, Fat32Type
  <1>7. e = FirstEntry(FilesNamed(op.arg))
    BY <1>1 DEF Wanted, FilesNamed
  <1>8. /\ FileWhole(e.first) /\ e.size \in Nat
        /\ e.size > Bpb.spc * DataUnits => e.first \in onward
    BY <1>1, <1>4, <1>5, <1>6, <1>7, FileFound
  <1>9. InFirst(op')
    <2>1. 0 * DataUnits = 0 /\ Bpb.spc \in Nat /\ Len(<<>>) = 0
      BY Sizes, BootRecordTyped
    <2>2. Min({e.size, 0}) = 0
      BY <1>8, MinPair
    <2>3. Min({op'.want, op'.s * DataUnits}) = 0 /\ Len(op'.out) = 0
      BY <1>2, <2>1, <2>2, Zenon
    <2>4. op'.s \in 0 .. Bpb.spc
      BY <1>2, <2>1
    <2> QED
      BY <1>2, <2>3, <2>4, Zenon DEF InFirst
  <1>10. FirstBytes(op')
    BY <1>2 DEF FirstBytes
  <1>11. e.first < EOC
    BY <1>8 DEF FileWhole
  <1> QED
    BY <1>2, <1>8, <1>9, <1>10, <1>11 DEF FileInv

\* A piece of a sector put behind what there is.
Added(new, out, data, n) ==
    /\ Len(new) = Len(out) + n
    /\ \A i \in 1 .. Len(out) : new[i] = out[i]
    /\ \A j \in 1 .. n : new[Len(out) + j] = data[j]

LEMMA PieceAdded ==
    ASSUME NEW T, NEW out \in Seq(T), NEW data \in Seq(T), NEW n \in 0 .. Len(data)
    PROVE  Added(out \o SubSeq(data, 1, n), out, data, n)
  <1>1. PICK piece \in Seq(T) : /\ piece = SubSeq(data, 1, n) /\ Len(piece) = n
                                /\ \A j \in 1 .. n : piece[j] = data[j]
    <2>1. SubSeq(data, 1, n) \in Seq(T)
      OBVIOUS
    <2>2. Len(SubSeq(data, 1, n)) = n
      OBVIOUS
    <2>3. \A j \in 1 .. n : SubSeq(data, 1, n)[j] = data[j]
      OBVIOUS
    <2> QED
      BY <2>1, <2>2, <2>3, Zenon
  <1>2. Len(out \o piece) = Len(out) + n /\ Len(out) \in Nat
    BY <1>1, ConcatProperties
  <1>3. \A i \in 1 .. Len(out) : (out \o piece)[i] = out[i]
    OBVIOUS
  <1>4. \A j \in 1 .. n : (out \o piece)[Len(out) + j] = data[j]
    BY <1>1, ConcatSecond
  <1> QED
    BY <1>1, <1>2, <1>3, <1>4 DEF Added

\* What is copied while the first cluster is read belongs to the file.
OfFile(out, c) == \A i \in 1 .. Len(out) : out[i] = Contents[c][i]

\* Sector s of the first cluster is put behind the a bytes before it.
FirstCopy(c, w, s, a, out, data, n, new) ==
    /\ a \in Nat /\ w \in Nat /\ s \in 0 .. Bpb.spc - 1 /\ a = s * DataUnits /\ a < w
    /\ Len(out) = a /\ data = Image[0][LbaOf(Vol, c) + s].data
    /\ n \in 0 .. DataUnits /\ n = Min({DataUnits, w - a})
    /\ Added(new, out, data, n) /\ OfFile(out, c)

LEMMA CopyFirst ==
    ASSUME NEW dirs, DirTree(dirs), NEW c, FileWhole(c), NEW w, NEW s, NEW a, NEW out, NEW data,
           NEW n, NEW new, FirstCopy(c, w, s, a, out, data, n, new)
    PROVE  Len(new) = Min({w, (s + 1) * DataUnits}) /\ OfFile(new, c)
  <1> USE DEF FirstCopy
  <1>0. Bpb.spc \in Nat /\ DataUnits \in Nat /\ s \in Nat /\ w - a \in Nat
    BY BootRecordTyped, Sizes
  <1>1. PICK b \in Nat : b = (s + 1) * DataUnits /\ b = a + DataUnits
    BY <1>0
  <1>2. Len(new) = Min({w, (s + 1) * DataUnits})
    <2>1. Len(new) = a + n
      BY DEF Added
    <2>2. n = IF DataUnits <= w - a THEN DataUnits ELSE w - a
      BY <1>0, MinPair
    <2>3. Min({w, b}) = IF w <= b THEN w ELSE b
      BY MinPair
    <2>4. Len(new) = Min({w, b})
      BY <1>0, <1>1, <2>1, <2>2, <2>3
    <2> QED
      BY <1>1, <2>4, Zenon
  <1>3. ASSUME NEW i \in 1 .. Len(new)  PROVE new[i] = Contents[c][i]
    <2>1. CASE i <= a
      <3>1. i \in 1 .. Len(out)
        BY <2>1
      <3> QED
        BY <3>1 DEF Added, OfFile
    <2>2. CASE ~(i <= a)
      <3>1. PICK j : j = i - a
        OBVIOUS
      <3>2. j \in 1 .. n /\ j \in 1 .. DataUnits /\ i = a + j
        <4>1. Len(new) = a + n
          BY DEF Added
        <4> QED
          BY <1>0, <2>2, <3>1, <4>1
      <3>3. new[a + j] = data[j]
        BY <3>2 DEF Added
      <3>4. PICK k : k = s + 1
        OBVIOUS
      <3>5. k \in 1 .. Bpb.spc /\ k - 1 = s
        BY <1>0, <3>4
      <3>6. Contents[c][(k - 1) * DataUnits + j] = Image[0][LbaOf(Vol, c) + k - 1].data[j]
        BY <3>2, <3>5, FileBytes
      <3>7. LbaOf(Vol, c) + k - 1 = LbaOf(Vol, c) + s
        <4>1. c \in Nat
          BY DEF FileWhole, Clusters, ClustersOf
        <4>2. LbaOf(Vol, c) \in Int
          BY <4>1, LbaTyped
        <4> QED
          BY <1>0, <3>4, <4>2
      <3>8. (k - 1) * DataUnits + j = a + j
        BY <3>5
      <3> QED
        BY <3>2, <3>3, <3>6, <3>7, <3>8
    <2> QED
      BY <2>1, <2>2
  <1> QED
    BY <1>2, <1>3 DEF OfFile

LEMMA FileSectorInv ==
    ASSUME NEW dirs, DirTree(dirs), NEW onward, GeoInv, Fat32Inv, FileSector, op.drive = 0,
           op'.faulty = FALSE, FileInv(op, onward)
    PROVE  FileInv(op', onward)
  <1> DEFINE c == op.cur
             w == op.want
             lba == LbaOf(Vol, op.cl) + op.s
             data == Image[0][lba].data
             b == Bpb.spc * DataUnits
             T == EntryRecords \cup Nat
  <1>0. /\ op.cl \in Nat /\ op.s \in Nat /\ w \in Nat /\ op.out \in Seq(T) /\ Len(op.out) \in Nat
        /\ Bpb.spc \in Nat /\ DataUnits \in Nat /\ b \in Nat /\ EOC \in Nat
    BY BootRecordTyped, Sizes DEF Fat32Inv, Fat32Type, CallRecords
  <1>1. op.s < Bpb.spc /\ Len(op.out) < w /\ (op.s = 0 => op.cl < EOC)
    BY <1>0 DEF FileSector, FileReading, FileDone, GeoInv
  <1>2. /\ op'.cl = op.cl /\ op'.s = op.s + 1 /\ op'.want = w /\ op'.cur = c
        /\ lba \in DOMAIN Image[0] /\ op'.out = op.out \o SubSeq(data, 1, CopyLen)
    <2>1. fat32_cluster_to_lba(op.cl) = LbaOf(Vol, op.cl)
      BY <1>0, Address
    <2>2. /\ Readable(op.drive, lba)
          /\ op'.out = op.out \o SubSeq(disk[op.drive][lba].data, 1, CopyLen)
      BY <2>1, CopyStep
    <2>3. lba \in DOMAIN Image[0] /\ disk[op.drive][lba].data = data
      BY <2>2, OnDrive DEF GeoInv
    <2>4. /\ op'.cl = op.cl /\ op'.s = op.s + 1 /\ op'.want = w /\ op'.cur = c
      BY CopyStep DEF SameCall
    <2> QED
      BY <2>2, <2>3, <2>4
  <1>3. data \in Seq(T) /\ Len(data) = DataUnits
    <2>1. Image[0][lba] \in Sectors
      BY <1>2, BootRecordTyped
    <2>2. data \in [1 .. DataUnits -> Nat]
      BY <2>1 DEF Sectors, DataSectors
    <2>3. data \in Seq(Nat) /\ Len(data) = DataUnits
      <3> HIDE DEF data
      <3> QED
        BY <1>0, <2>2
    <2>4. Nat \subseteq T
      OBVIOUS
    <2> HIDE DEF T, data
    <2> QED
      BY <2>3, <2>4, SeqMonotonic
  <1>4. PICK n : n = CopyLen
    OBVIOUS
  <1>5. n \in 0 .. DataUnits /\ n = Min({DataUnits, w - Len(op.out)})
    <2>1. w - Len(op.out) \in Nat
      BY <1>0, <1>1
    <2>2. n = IF w - Len(op.out) > DataUnits THEN DataUnits ELSE w - Len(op.out)
      BY <1>4 DEF CopyLen
    <2>3. Min({DataUnits, w - Len(op.out)}) =
             IF DataUnits <= w - Len(op.out) THEN DataUnits ELSE w - Len(op.out)
      BY <1>0, <2>1, MinPair
    <2> QED
      BY <1>0, <2>1, <2>2, <2>3
  <1> HIDE DEF T, lba
  <1>6. Added(op'.out, op.out, data, n)
    <2> HIDE DEF data
    <2>1. n \in 0 .. Len(data)
      BY <1>3, <1>5
    <2>2. Added(op.out \o SubSeq(data, 1, n), op.out, data, n)
      BY <1>0, <1>3, <2>1, PieceAdded
    <2> QED
      BY <1>2, <1>4, <2>2
  <1>7. op.cl < EOC
    BY <1>1 DEF FileInv
  <1>8. /\ Len(op'.out) \in Nat /\ Len(op'.out) >= Len(op.out)
        /\ \A i \in 1 .. Len(op.out) : op'.out[i] = op.out[i]
    <2>1. /\ Len(op'.out) = Len(op.out) + n
          /\ \A i \in 1 .. Len(op.out) : op'.out[i] = op.out[i]
      BY <1>6, Zenon DEF Added
    <2>2. n \in 0 .. DataUnits /\ Len(op.out) \in Nat /\ DataUnits \in Nat
      BY <1>0, <1>5, Zenon
    <2>3. Len(op'.out) \in Nat /\ Len(op'.out) >= Len(op.out)
      BY <2>1, <2>2
    <2> QED
      BY <2>1, <2>3, Zenon
  <1> HIDE DEF data
  <1>9. FirstBytes(op') /\ (InFirst(op') \/ Len(op'.out) >= Min({w, b}))
    <2>1. CASE InFirst(op)
      <3>0. op.cl = c /\ Len(op.out) = Min({w, op.s * DataUnits})
        BY <2>1 DEF InFirst
      <3>1. PICK a \in Nat : a = op.s * DataUnits
        BY <1>0
      <3>2. Len(op.out) = a /\ a < w
        <4>1. Min({w, a}) = IF w <= a THEN w ELSE a
          BY <1>0, MinPair
        <4>2. Len(op.out) = Min({w, a})
          BY <3>0, <3>1, Zenon
        <4> QED
          BY <1>0, <1>1, <4>1, <4>2
      <3>3. OfFile(op.out, c)
        <4>1. a <= b
          <5>1. PICK m : m = Bpb.spc - op.s
            OBVIOUS
          <5>2. m \in Nat /\ Bpb.spc = op.s + m
            <6>1. op.s \in Nat /\ Bpb.spc \in Nat /\ op.s < Bpb.spc
              BY <1>0, <1>1, Zenon
            <6> QED
              BY <5>1, <6>1
          <5>3. b = a + m * DataUnits /\ m * DataUnits \in Nat
            BY <1>0, <3>1, <5>2
          <5> HIDE DEF b
          <5> QED
            BY <5>3
        <4>2. \A i \in 1 .. Len(op.out) : i <= b
          BY <1>0, <3>2, <4>1
        <4> QED
          BY <4>2 DEF FileInv, FirstBytes, OfFile
      <3>4. op.s \in 0 .. Bpb.spc - 1 /\ FileWhole(c)
        BY <1>0, <1>1 DEF FileInv
      <3>5. data = Image[0][LbaOf(Vol, c) + op.s].data
        BY <3>0 DEF data, lba
      <3>6. n = Min({DataUnits, w - a})
        BY <1>5, <3>2
      <3>7. Len(op'.out) = Min({w, (op.s + 1) * DataUnits}) /\ OfFile(op'.out, c)
        <4> HIDE DEF c, w
        <4>1. FirstCopy(c, w, op.s, a, op.out, data, n, op'.out)
          BY <1>0, <1>5, <1>6, <3>1, <3>2, <3>3, <3>4, <3>5, <3>6, Zenon DEF FirstCopy
        <4> QED
          BY <3>4, <4>1, CopyFirst, Zenon
      <3>8. FirstBytes(op')
        BY <1>2, <3>7, Zenon DEF FirstBytes, OfFile
      <3>9. op'.s \in 0 .. Bpb.spc
        <4>1. /\ op.s \in Nat /\ Bpb.spc \in Nat /\ op.s < Bpb.spc
              /\ op'.s = op.s + 1
          BY <1>0, <1>1, <1>2, Zenon
        <4> QED
          BY <4>1
      <3>10. InFirst(op')
        BY <1>2, <3>0, <3>7, <3>9, Zenon DEF InFirst
      <3> QED
        BY <3>8, <3>10
    <2>2. CASE Len(op.out) >= Min({w, b})
      <3>1. Min({w, b}) = IF w <= b THEN w ELSE b
        BY <1>0, MinPair
      <3> HIDE DEF b
      <3>2. Len(op.out) >= b
        BY <1>0, <1>1, <2>2, <3>1
      <3>3. Len(op'.out) >= Min({w, b})
        BY <1>0, <1>8, <2>2, <3>1
      <3>4. FirstBytes(op')
        <4> SUFFICES ASSUME NEW i \in 1 .. Len(op'.out), i <= b
                     PROVE  op'.out[i] = Contents[c][i]
          BY <1>2 DEF FirstBytes, b
        <4>1. i \in 1 .. Len(op.out)
          BY <1>0, <1>8, <3>2
        <4>2. op.out[i] = Contents[c][i]
          BY <4>1 DEF FileInv, FirstBytes, b
        <4> QED
          BY <1>8, <4>1, <4>2
      <3> QED
        BY <3>3, <3>4
    <2> QED
      BY <2>1, <2>2 DEF FileInv
  <1>10. w > b => op.cl \in onward
    BY DEF FileInv
  <1>11. FileWhole(c)
    BY DEF FileInv
  <1> QED
    BY <1>2, <1>7, <1>9, <1>10, <1>11, Zenon DEF FileInv, b, c, w

LEMMA FileNextInv ==
    ASSUME NEW dirs, DirTree(dirs), NEW onward, FilesSound(dirs, onward), GeoInv, Fat32Inv,
           FileNext, op.drive = 0, op'.faulty = FALSE, FileInv(op, onward)
    PROVE  FileInv(op', onward)
  <1> DEFINE w == op.want
             b == Bpb.spc * DataUnits
  <1>0. /\ op.cl \in Nat /\ op.s \in Nat /\ w \in Nat /\ Len(op.out) \in Nat /\ Len(op.out) <= w
        /\ op \in CallRecords /\ op.faulty \in BOOLEAN
        /\ Bpb.spc \in Nat \ {0} /\ DataUnits \in Nat /\ b \in Nat /\ EOC \in Nat
    <2>1. op \in CallRecords
      BY DEF Fat32Inv, Fat32Type
    <2>2. /\ op.cl \in Nat /\ op.s \in Nat /\ w \in Nat /\ Len(op.out) \in Nat
          /\ op.faulty \in BOOLEAN
      BY <2>1 DEF CallRecords
    <2>3. Len(op.out) <= w
      BY DEF Fat32Inv, BuffersHold, FileNext, FileReading
    <2>4. Bpb.spc \in Nat \ {0} /\ DataUnits \in Nat /\ b \in Nat /\ EOC \in Nat
      BY BootRecordTyped, Sizes
    <2> QED
      BY <2>1, <2>2, <2>3, <2>4
  <1>1. op.s # 0 /\ (op.s >= Bpb.spc \/ Len(op.out) >= w) /\ op.cl < EOC
    <2>1. /\ op.s >= Bpb.spc \/ Len(op.out) >= w
          /\ ~(op.s = 0 /\ (op.cl >= EOC \/ Len(op.out) >= w))
      BY DEF FileNext, FileReading, FileDone, GeoInv
    <2>2. op.s # 0
      BY <1>0, <2>1
    <2> QED
      BY <2>1, <2>2 DEF FileInv
  <1>2. PICK next \in NextValues(op.drive, op.cl), failed \in BOOLEAN :
          /\ fat32_get_next_cluster(op.drive, op.cl, next, failed)
          /\ op' = [op EXCEPT !.cl = next, !.s = 0, !.faulty = @ \/ failed]
    BY DEF FileNext
  <1>3. op'.cl = next /\ op'.s = 0 /\ op'.faulty = (op.faulty \/ failed)
    BY <1>0, <1>2 DEF CallRecords
  <1>4. ~failed
    BY <1>3, Zenon
  <1>5. SeenAt(op.cl) \in DOMAIN Image[0] /\ next = NextSeen(op.cl)
    <2>1. fat32_get_next_cluster(0, op.cl, next, failed)
      BY <1>2
    <2> QED
      BY <1>0, <1>1, <1>4, <2>1, Lookup, Zenon
  <1>6. op'.out = op.out /\ op'.want = w /\ op'.cur = op.cur
    BY LookupSame DEF SameCall
  <1>7. Min({w, b}) = IF w <= b THEN w ELSE b
    BY <1>0, MinPair
  <1>8. Len(op.out) >= Min({w, b})
    <2>1. CASE InFirst(op)
      <3>1. CASE op.s >= Bpb.spc
        <4>1. op.s = Bpb.spc
          BY <1>0, <2>1, <3>1 DEF InFirst
        <4>2. Len(op.out) = Min({w, b})
          BY <2>1, <4>1, Zenon DEF InFirst
        <4> HIDE DEF b, w
        <4> QED
          BY <1>0, <1>7, <4>2
      <3>2. CASE Len(op.out) >= w
        <4> HIDE DEF b
        <4> QED
          BY <1>0, <1>7, <3>2
      <3> QED
        BY <1>1, <3>1, <3>2
    <2> QED
      BY <2>1 DEF FileInv
  <1>9. w > b => next \in onward
    <2>1. w > b => op.cl \in onward
      BY DEF FileInv
    <2> QED
      BY <1>5, <2>1 DEF FilesSound
  <1>10. ~(w > b) => Len(op.out) = w
    <2> HIDE DEF b
    <2> QED
      BY <1>0, <1>7, <1>8
  <1>11. FileWhole(op.cur) /\ FirstBytes(op')
    BY <1>6 DEF FileInv, FirstBytes
  <1> HIDE DEF b, w
  <1>12. IF w > b THEN op'.cl \in onward ELSE op'.cl < EOC \/ Len(op'.out) = w
    BY <1>3, <1>6, <1>9, <1>10
  <1> QED
    BY <1>3, <1>6, <1>8, <1>11, <1>12, Zenon DEF FileInv, b, w

\* The other steps do not read a file.
LEMMA NoFile ==
    ASSUME NEW onward, op'.fn # "file"
    PROVE  CatInv(onward)'
  BY DEF CatInv

LEMMA CatOther ==
    ASSUME NEW onward, Fat32Inv,
           \/ \E n \in DriveNums : DiskCommand(n)
           \/ Ls \/ (\E f \in Files : Cat(f)) \/ (\E p \in Paths : CdDirect(p) \/ CdList(p))
           \/ Mkfs \/ MkfsFails \/ MountOk \/ MountFails
           \/ ScanSector \/ ScanSlot \/ ScanNext
           \/ PathSelf \/ PathParent \/ PathNoMemory \/ PathShown
           \/ LsDone \/ CatNothing \/ CatDone \/ CdFails \/ CdDone
    PROVE  CatInv(onward)'
  <1>1. CASE \/ \E n \in DriveNums : DiskCommand(n)
             \/ PathSelf \/ PathParent \/ PathNoMemory \/ PathShown
             \/ LsDone \/ CatNothing \/ CatDone \/ CdFails
             \/ (\E p \in Paths : CdDirect(p)) \/ CdDone \/ Mkfs \/ MkfsFails
    <2>1. CASE (\E p \in Paths : CdDirect(p)) \/ CdDone \/ Mkfs \/ MkfsFails
      <3>1. IsPathStep(op', current_dir_cluster', <<>>, TRUE)
        BY <2>1 DEF IsPathStep, AfterCommand, CdDirect, CdDone, Mkfs, MkfsFails
      <3>2. PathCall(op', current_dir_cluster', <<>>)
        BY <3>1, PathStepFields
      <3> QED
        BY <3>2, NoFile DEF PathCall
    <2>2. CASE \/ \E n \in DriveNums : DiskCommand(n)
               \/ LsDone \/ CatNothing \/ CatDone \/ CdFails
      <3>1. IsPathStep(op', current_dir_cluster, <<>>, TRUE)
        BY <2>2 DEF IsPathStep, AfterCommand, DiskCommand, LsDone, CatNothing, CatDone, CdFails
      <3>2. PathCall(op', current_dir_cluster, <<>>)
        BY <3>1, PathStepFields
      <3> QED
        BY <3>2, NoFile DEF PathCall
    <2>3. CASE PathParent
      <3>1. \E path : IsPathStep(op', op.parent, path, op.faulty)
        BY <2>3 DEF PathParent, IsPathStep
      <3>2. \E path : PathCall(op', op.parent, path)
        BY <3>1, PathStepFields
      <3> QED
        BY <3>2, NoFile DEF PathCall
    <2>4. CASE PathSelf
      <3>1. PICK up : op' = [Call("prompt", "read", "parent", 0, up, ReadMax)
                               EXCEPT !.cur = op.cur, !.parent = up, !.path = op.path,
                                      !.faulty = op.faulty]
        BY <2>4, Zenon DEF PathSelf
      <3>2. op'.fn = "read"
        BY <3>1 DEF Call
      <3> QED
        BY <3>2, NoFile
    <2>5. CASE PathNoMemory
      <3>1. op' = [Call("prompt", "shown", NoName, 0, op.cur, 0)
                     EXCEPT !.path = op.path, !.faulty = TRUE]
        BY <2>5 DEF PathNoMemory
      <3>2. op'.fn = "shown"
        BY <3>1 DEF Call
      <3> QED
        BY <3>2, NoFile
    <2>6. CASE PathShown
      <3>1. op'.fn = "idle"
        BY <2>6 DEF PathShown, Idle, Call
      <3> QED
        BY <3>1, NoFile
    <2> QED
      BY <1>1, <2>1, <2>2, <2>3, <2>4, <2>5, <2>6
  <1>2. CASE Ls \/ (\E f \in Files : Cat(f)) \/ (\E p \in Paths : CdList(p))
    <2>1. op'.fn \in {"list", "read"}
      BY <1>2 DEF Ls, Cat, CdList, Call
    <2> QED
      BY <2>1, NoFile
  <1>3. CASE MountOk \/ MountFails
    <2>1. op'.fn \in {"mount", "idle"}
      <3>1. op' = AfterMount
        BY <1>3 DEF MountOk, MountFails
      <3> QED
        BY <3>1 DEF AfterMount, Mount, Idle, Call
    <2> QED
      BY <2>1, NoFile
  <1>4. CASE ScanSector \/ ScanSlot \/ ScanNext
    <2>1. SameCall(op, op') /\ op.fn \in {"list", "read"}
      BY <1>4, ScanSame DEF ScanSector, ScanSlot, ScanNext, Scanning
    <2> QED
      BY <2>1, NoFile DEF SameCall
  <1> QED
    BY <1>1, <1>2, <1>3, <1>4

LEMMA CatStep ==
    ASSUME NEW dirs, DirTree(dirs), NEW onward, FilesSound(dirs, onward), Fat32Inv, VolInv(dirs),
           CatInv(onward), [Next]_vars
    PROVE  CatInv(onward)'
  <1>1. CASE UNCHANGED vars
    BY <1>1 DEF vars, CatInv, FileInv, InFirst, FirstBytes
  <1>2. CASE CatOpen
    BY <1>2, CatOpenInv
  <1>3. CASE FileSector \/ FileNext
    <2>1. SameCall(op, op') /\ op.fn = "file" /\ lost' = lost
      BY <1>3, LookupSame, CopyStep DEF FileSector, FileNext, FileReading
    <2> SUFFICES ASSUME ~lost, op'.drive = 0, op'.faulty = FALSE  PROVE FileInv(op', onward)
      BY <2>1 DEF CatInv
    <2>2. op.drive = 0 /\ FileInv(op, onward) /\ GeoInv
      BY <2>1 DEF SameCall, CatInv, VolInv
    <2> QED
      BY <1>3, <2>2, FileSectorInv, FileNextInv
  <1>4. CASE \/ \E n \in DriveNums : DiskCommand(n)
             \/ Ls \/ (\E f \in Files : Cat(f)) \/ (\E p \in Paths : CdDirect(p) \/ CdList(p))
             \/ Mkfs \/ MkfsFails \/ MountOk \/ MountFails
             \/ ScanSector \/ ScanSlot \/ ScanNext
             \/ PathSelf \/ PathParent \/ PathNoMemory \/ PathShown
             \/ LsDone \/ CatNothing \/ CatDone \/ CdFails \/ CdDone
    BY <1>4, CatOther
  <1> QED
    BY <1>1, <1>2, <1>3, <1>4, Zenon DEF Next, Command, Work

\* On such a volume, if no read fails, cat gets as many bytes as the directory
\* says, and those that the first cluster holds are the file's: fat32_read_file
\* copies the sectors of the cluster in order, the last one in part.
THEOREM CatReadsFirstCluster ==
    ASSUME NEW dirs, DirTree(dirs), NEW onward, FilesSound(dirs, onward)
    PROVE  Spec => []FirstClusterRight
  <1>1. Init => CatInv(onward)
    BY DEF Init, CatInv
  <1>2. Fat32Inv /\ VolInv(dirs) /\ CatInv(onward) /\ [Next]_vars => CatInv(onward)'
    BY CatStep
  <1>3. ASSUME Fat32Inv, CatInv(onward)  PROVE FirstClusterRight
    <2> SUFFICES ASSUME FileRead
                 PROVE  /\ Len(op.out) = op.want
                        /\ \A i \in 1 .. Min({op.want, Bpb.spc * DataUnits}) :
                              op.out[i] = Contents[op.cur][i]
      BY DEF FirstClusterRight
    <2> DEFINE b == Bpb.spc * DataUnits
    <2>1. /\ op.fn = "file" /\ (op.cl >= EOC \/ Len(op.out) >= op.want)
          /\ op.drive = 0 /\ ~lost /\ ~op.faulty
      BY DEF FileRead, FileDone
    <2>2. /\ op.cl \in Nat /\ op.want \in Nat /\ Len(op.out) \in Nat /\ Len(op.out) <= op.want
          /\ op.faulty \in BOOLEAN /\ b \in Nat /\ EOC \in Nat
      BY <1>3, <2>1, BootRecordTyped, Sizes DEF Fat32Inv, Fat32Type, CallRecords, BuffersHold
    <2>3. FileInv(op, onward)
      <3>1. op.faulty = FALSE
        BY <2>1, <2>2
      <3> QED
        BY <1>3, <2>1, <3>1 DEF CatInv
    <2>4. Len(op.out) = op.want
      <3>1. CASE op.want > b
        <4>1. op.cl < EOC
          BY <2>3, <3>1 DEF FileInv, FilesSound
        <4> HIDE DEF b
        <4> QED
          BY <2>1, <2>2, <4>1
      <3>2. CASE ~(op.want > b)
        <4>1. op.cl < EOC \/ Len(op.out) = op.want
          BY <2>3, <3>2 DEF FileInv
        <4> HIDE DEF b
        <4> QED
          BY <2>1, <2>2, <4>1
      <3> QED
        BY <3>1, <3>2
    <2>5. ASSUME NEW i \in 1 .. Min({op.want, b})  PROVE op.out[i] = Contents[op.cur][i]
      <3>1. Min({op.want, b}) = IF op.want <= b THEN op.want ELSE b
        BY <2>2, MinPair
      <3>2. i \in 1 .. Len(op.out) /\ i <= b
        <4> HIDE DEF b
        <4> QED
          BY <2>2, <2>4, <3>1
      <3> QED
        BY <2>3, <3>2 DEF FileInv, FirstBytes
    <2> QED
      BY <2>4, <2>5
  <1> QED
    BY <1>1, <1>2, <1>3, Fat32Always, VolumeAlways, PTL DEF Spec
=============================================================================
