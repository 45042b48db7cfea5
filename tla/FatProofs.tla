------------------------------ MODULE FatProofs ------------------------------
(***************************************************************************)
(* Theorems about the FAT driver, for every sound volume, every number of  *)
(* files and of open files, and whatever a search without a result is      *)
(* taken to give.                                                          *)
(***************************************************************************)
EXTENDS Fat, RecursionLemmas, FiniteSetTheorems, TLAPS

-----------------------------------------------------------------------------
\* The table and its cached sector.
Cell == Entries \cup {EOC}

\* A table with its cached sector: of the right shape, and the two agree.
TableOK(t) ==
  /\ t \in [fat : [Sectors -> [Slots -> Cell]], cbufs : Sectors, cbuf : [Slots -> Cell]]
  /\ t.cbuf = t.fat[t.cbufs]

LEMMA SectorInTable ==
  ASSUME NEW e \in Entries
  PROVE  SectorOf(e) \in Sectors /\ e % PerSector \in Slots
<1> DEFINE q == e \div PerSector
           r == e % PerSector
<1>1. PerSector \in Nat \ {0} /\ Spf \in Nat \ {0} /\ e \in Nat
  BY FatAssumption DEF Entries
<1>2. q \in Nat /\ r \in 0 .. PerSector - 1 /\ e = PerSector * q + r
  BY <1>1
<1>3. q < Spf
  <2> SUFFICES ASSUME q >= Spf PROVE FALSE
    BY <1>1, <1>2
  <2>1. PerSector * q >= PerSector * Spf
    BY <1>1, <1>2
  <2> QED BY <1>1, <1>2, <2>1 DEF Entries
<1> QED BY <1>1, <1>2, <1>3 DEF SectorOf, Sectors, Slots

LEMMA LoadOK ==
  ASSUME NEW t, TableOK(t), NEW s \in Sectors
  PROVE  /\ TableOK(Load(t, s))
         /\ Load(t, s).cbufs = s
         /\ Load(t, s).fat = t.fat
BY DEF TableOK, Load

LEMMA WriteEntOK ==
  ASSUME NEW t, TableOK(t), NEW e \in Entries, NEW v \in Cell
  PROVE  TableOK(WriteEnt(t, e, v))
<1> DEFINE s == SectorOf(e)
           u == Load(t, s)
           c == [u EXCEPT !.cbuf[e % PerSector] = v]
<1>1. s \in Sectors /\ e % PerSector \in Slots
  BY SectorInTable
<1>2. TableOK(u) /\ u.cbufs = s
  BY <1>1, LoadOK
<1>3. c.cbuf \in [Slots -> Cell] /\ c.fat = u.fat /\ c.cbufs = s
  BY <1>1, <1>2 DEF TableOK
<1>4. WriteEnt(t, e, v) = [c EXCEPT !.fat[s] = c.cbuf]
  BY DEF WriteEnt
<1>5. c = [fat |-> u.fat, cbufs |-> s, cbuf |-> c.cbuf]
  BY <1>1, <1>2 DEF TableOK
<1>6. c.fat = u.fat /\ c.fat \in [Sectors -> [Slots -> Cell]]
  BY <1>2, <1>5 DEF TableOK
<1> HIDE DEF u, c
<1>7. WriteEnt(t, e, v) = [fat |-> [c.fat EXCEPT ![s] = c.cbuf], cbufs |-> s, cbuf |-> c.cbuf]
  BY <1>4, <1>5, <1>6
<1> QED BY <1>1, <1>3, <1>6, <1>7 DEF TableOK

LEMMA SearchedOK ==
  ASSUME NEW t, TableOK(t), NEW p \in Entries
  PROVE  TableOK(Searched(t, p))
<1> DEFINE i == IF Blank(t, p) THEN SectorOf(p) ELSE Spf
           u == Load(t, 0)
<1>1. 0 \in Sectors /\ i \in 0 .. Spf
  BY SectorInTable, FatAssumption DEF Sectors
<1>2. TableOK(u) /\ u.fat = t.fat
  BY <1>1, LoadOK
<1>3. CASE i = 0
  BY <1>2, <1>3 DEF Searched
<1>4. CASE i # 0
  <2>1. i - 1 \in Sectors
    BY <1>1, <1>4, FatAssumption DEF Sectors
  <2>2. Searched(t, p) = [u EXCEPT !.cbufs = i - 1, !.cbuf = t.fat[i - 1]]
    BY <1>4 DEF Searched
  <2> HIDE DEF u, i
  <2>3. Searched(t, p) = [fat |-> t.fat, cbufs |-> i - 1, cbuf |-> t.fat[i - 1]]
    BY <1>2, <2>2 DEF TableOK
  <2> QED BY <1>2, <2>1, <2>3 DEF TableOK
<1> QED BY <1>3, <1>4

LEMMA ExtendOK ==
  ASSUME NEW t, TableOK(t), NEW cl \in Entries, NEW p \in Entries
  PROVE  TableOK(Extend(t, cl, p))
<1>1. TableOK(WriteEnt(Searched(t, p), cl, p))
  BY SearchedOK, WriteEntOK DEF Cell
<1> QED BY <1>1, WriteEntOK DEF Extend, Cell

\* What the search gives is the number of an entry.
LEMMA UnusedInTable ==
  ASSUME NEW t, NEW p \in Unused(t)
  PROVE  p \in Entries
BY FatAssumption DEF Unused, Clusters

\* An entry that is not the end mark is the number of an entry.
LEMMA EntInTable ==
  ASSUME NEW t, TableOK(t), NEW e \in Entries
  PROVE  /\ Ent(t, e) \in Cell
         /\ Ent(t, e) < EOC => Ent(t, e) \in Entries
<1>1. Ent(t, e) \in Cell
  BY SectorInTable DEF TableOK, Ent
<1> QED BY <1>1, FatAssumption DEF Cell, EOC

\* What a write of an entry and the growth of a chain change.
LEMMA WriteEntAfter ==
  ASSUME NEW t, TableOK(t), NEW e \in Entries, NEW v \in Cell, NEW c \in Entries
  PROVE  After(WriteEnt(t, e, v).fat, c) = IF c = e THEN v ELSE After(t.fat, c)
<1> DEFINE s == SectorOf(e)
           u == Load(t, s)
           b == [u.cbuf EXCEPT ![e % PerSector] = v]
<1>1. s \in Sectors /\ e % PerSector \in Slots /\ SectorOf(c) \in Sectors /\ c % PerSector \in Slots
  BY SectorInTable
<1>2. TableOK(u) /\ u.cbufs = s /\ u.fat = t.fat /\ u.cbuf = t.fat[s]
  <2>1. TableOK(u) /\ u.cbufs = s /\ u.fat = t.fat
    BY <1>1, LoadOK
  <2> HIDE DEF u
  <2> QED BY <2>1 DEF TableOK
<1>3. WriteEnt(t, e, v).fat = [t.fat EXCEPT ![s] = b]
  <2> HIDE DEF u
  <2>1. u = [fat |-> u.fat, cbufs |-> u.cbufs, cbuf |-> u.cbuf]
    BY <1>2 DEF TableOK
  <2>2. WriteEnt(t, e, v) = LET x == [u EXCEPT !.cbuf[e % PerSector] = v]
                            IN  [x EXCEPT !.fat[s] = x.cbuf]
    BY DEF WriteEnt, u
  <2>3. [u EXCEPT !.cbuf[e % PerSector] = v] = [fat |-> u.fat, cbufs |-> u.cbufs, cbuf |-> b]
    BY <2>1
  <2>4. WriteEnt(t, e, v) = [fat |-> [u.fat EXCEPT ![s] = b], cbufs |-> u.cbufs, cbuf |-> b]
    BY <2>2, <2>3
  <2> QED BY <1>2, <2>4
<1>4. t.fat \in [Sectors -> [Slots -> Cell]]
  BY DEF TableOK
<1>5. CASE SectorOf(c) = s
  <2>1. After(WriteEnt(t, e, v).fat, c) = b[c % PerSector]
    BY <1>1, <1>3, <1>4, <1>5 DEF After
  <2>2. u.cbuf = t.fat[s] /\ u.cbuf \in [Slots -> Cell]
    BY <1>2 DEF TableOK
  <2>3. b[c % PerSector] = IF c % PerSector = e % PerSector THEN v ELSE t.fat[s][c % PerSector]
    <3> HIDE DEF u
    <3> QED BY <1>1, <2>2
  <2>4. c % PerSector = e % PerSector => c = e
    <3>1. c \in Nat /\ e \in Nat /\ PerSector \in Nat \ {0}
      BY FatAssumption DEF Entries
    <3>2. /\ c = PerSector * (c \div PerSector) + (c % PerSector)
          /\ e = PerSector * (e \div PerSector) + (e % PerSector)
      BY <3>1, DivMod
    <3>3. c \div PerSector = e \div PerSector
      BY <1>5 DEF SectorOf
    <3> SUFFICES ASSUME c % PerSector = e % PerSector PROVE c = e
      OBVIOUS
    <3>4. c = PerSector * (e \div PerSector) + (e % PerSector)
      BY <3>2, <3>3, Zenon
    <3> QED BY <3>2, <3>4, Zenon
  <2> QED BY <1>5, <2>1, <2>3, <2>4 DEF After
<1>6. CASE SectorOf(c) # s
  BY <1>1, <1>3, <1>4, <1>6 DEF After
<1> QED BY <1>5, <1>6

LEMMA SearchedFat ==
  ASSUME NEW t, NEW p
  PROVE  Searched(t, p).fat = t.fat
<1>1. Load(t, 0).fat = t.fat
  BY DEF Load
<1> DEFINE u == Load(t, 0)
<1> HIDE DEF u
<1>2. \A x, y : [u EXCEPT !.cbufs = x, !.cbuf = y].fat = u.fat
  OBVIOUS
<1> QED BY <1>1, <1>2 DEF Searched, u

LEMMA ExtendAfter ==
  ASSUME NEW t, TableOK(t), NEW cl \in Entries, NEW p \in Entries, NEW c \in Entries
  PROVE  After(Extend(t, cl, p).fat, c) =
           IF c = p THEN EOC ELSE IF c = cl THEN p ELSE After(t.fat, c)
<1> DEFINE u == Searched(t, p)
           w == WriteEnt(u, cl, p)
<1>1. TableOK(u) /\ u.fat = t.fat
  BY SearchedOK, SearchedFat
<1>2. p \in Cell /\ EOC \in Cell
  BY DEF Cell
<1> HIDE DEF u
<1>3. TableOK(w) /\ After(w.fat, c) = IF c = cl THEN p ELSE After(t.fat, c)
  BY <1>1, <1>2, WriteEntOK, WriteEntAfter
<1> HIDE DEF w
<1>4. After(WriteEnt(w, p, EOC).fat, c) = IF c = p THEN EOC ELSE After(w.fat, c)
  BY <1>2, <1>3, WriteEntAfter
<1> QED BY <1>3, <1>4 DEF Extend, u, w

-----------------------------------------------------------------------------
\* Chains.

Table == [Sectors -> [Slots -> Cell]]

LEMMA Numbers ==
  /\ EOC \in Nat /\ EOC >= 2
  /\ Entries = 0 .. EOC - 1 /\ Clusters = 2 .. EOC - 1 /\ Cell = 0 .. EOC
<1>1. PerSector \in Nat \ {0, 1} /\ Spf \in Nat \ {0}
  BY FatAssumption
<1>2. EOC \in Nat /\ EOC >= 2
  <2>1. PICK k \in Nat : Spf = k + 1
    <3>1. Spf - 1 \in Nat /\ Spf = (Spf - 1) + 1
      BY <1>1
    <3> QED BY <3>1
  <2>2. Spf * PerSector = k * PerSector + PerSector /\ k * PerSector \in Nat
    BY <1>1, <2>1
  <2> QED BY <1>1, <2>2 DEF EOC
<1>3. Entries = 0 .. EOC - 1
  BY DEF Entries, EOC
<1> QED BY <1>2, <1>3 DEF Clusters, Cell

LEMMA AfterCell ==
  ASSUME NEW fat \in Table, NEW c \in Clusters
  PROVE  After(fat, c) \in Cell
BY SectorInTable DEF Table, After, Clusters

LEMMA OnwardCell ==
  ASSUME NEW fat \in Table, NEW c
  PROVE  Onward(fat, c) \in Cell
BY AfterCell DEF Onward, Cell

\* The walk is the one function that starts at the head and goes onward.
Goes(f, fat, h) == f = [k \in 0 .. EOC |-> IF k = 0 THEN h ELSE Onward(fat, f[k - 1])]

LEMMA OneWalk ==
  ASSUME NEW fat \in Table, NEW h \in Cell
  PROVE  /\ Goes(Walk(fat, h), fat, h)
         /\ Walk(fat, h) \in [0 .. EOC -> Cell]
         /\ \A f : Goes(f, fat, h) => f = Walk(fat, h)
<1> DEFINE Is(f) == f = [k \in 0 .. EOC |-> IF k = 0 THEN h ELSE Onward(fat, f[k - 1])]
           g == [k \in 1 .. EOC |-> [c \in Cell |-> Onward(fat, c)]]
<1>1. EOC \in Nat
  BY Numbers
<1>2. PICK f \in [0 .. EOC -> Cell] : Iterates(f, h, g, EOC)
  <2>1. g \in [1 .. EOC -> [Cell -> Cell]]
    BY OnwardCell
  <2> HIDE DEF g
  <2> QED BY <1>1, <2>1, Recursion
<1>3. ASSUME NEW k \in 1 .. EOC PROVE f[k] = Onward(fat, f[k - 1])
  <2>1. f[k - 1] \in Cell
    BY <1>1
  <2> QED BY <1>2, <2>1 DEF Iterates
<1>4. Is(f)
  <2>1. \A k \in 0 .. EOC : f[k] = IF k = 0 THEN h ELSE Onward(fat, f[k - 1])
    BY <1>1, <1>2, <1>3 DEF Iterates
  <2> QED BY <2>1
<1>5. ASSUME NEW e, Is(e) PROVE e = f
  <2>1. UpTo(e, EOC) /\ UpTo(f, EOC)
    BY <1>1, <1>5 DEF UpTo
  <2>2. SameNext(e, f, EOC)
    BY <1>1, <1>2, <1>3, <1>5 DEF SameNext, Iterates
  <2> HIDE DEF Is
  <2> QED BY <1>1, <2>1, <2>2, Unique
<1>6. Walk(fat, h) = (CHOOSE e : Is(e))
  BY DEF Walk
<1>7. (CHOOSE e : Is(e)) = f
  <2> HIDE DEF Is
  <2>1. Is(CHOOSE e : Is(e))
    BY <1>4, Zenon
  <2> QED BY <1>5, <2>1
<1>8. Walk(fat, h) = f
  BY <1>6, <1>7
<1>9. \A e : Goes(e, fat, h) <=> Is(e)
  BY DEF Goes
<1> HIDE DEF Is
<1> QED BY <1>4, <1>5, <1>8, <1>9

\* The chain has its last cluster at place m of the walk.
Ends(at, m) ==
  /\ m \in 0 .. EOC - 1
  /\ \A k \in 0 .. EOC : IF k <= m THEN at[k] \in Clusters ELSE at[k] = EOC

LEMMA WalkSteps ==
  ASSUME NEW fat \in Table, NEW h \in Cell
  PROVE  /\ Walk(fat, h)[0] = h
         /\ \A k \in 1 .. EOC : Walk(fat, h)[k] = Onward(fat, Walk(fat, h)[k - 1])
         /\ \A k \in 0 .. EOC : Walk(fat, h)[k] \in Cell
<1> DEFINE at == Walk(fat, h)
<1>1. at = [k \in 0 .. EOC |-> IF k = 0 THEN h ELSE Onward(fat, at[k - 1])]
  BY OneWalk DEF Goes
<1>2. at \in [0 .. EOC -> Cell] /\ EOC \in Nat
  BY OneWalk, Numbers
<1> HIDE DEF at
<1>3. at[0] = h /\ \A k \in 1 .. EOC : at[k] = Onward(fat, at[k - 1])
  BY <1>1, <1>2
<1> QED BY <1>2, <1>3 DEF at

LEMMA EndFound ==
  ASSUME NEW fat \in Table, NEW h \in Clusters,
         EOC \in Chain(fat, h), Chain(fat, h) \subseteq Clusters \cup {EOC}
  PROVE  \E m \in 0 .. EOC - 1 : Ends(Walk(fat, h), m)
<1> DEFINE at == Walk(fat, h)
           S == { k \in 0 .. EOC : at[k] = EOC }
<1>0. EOC \in Nat /\ EOC \notin Clusters /\ h \in Cell
  BY Numbers
<1>1. at[0] = h /\ \A k \in 1 .. EOC : at[k] = Onward(fat, at[k - 1])
  BY <1>0, WalkSteps
<1>2. \A k \in 0 .. EOC : at[k] \in Clusters \cup {EOC}
  BY DEF Chain
<1>3. S # {} /\ S \in SUBSET Nat
  BY <1>0 DEF Chain
<1> HIDE DEF at
<1>4. PICK j \in S : \A k \in S : j <= k
  <2> HIDE DEF S
  <2> QED BY <1>3, Least
<1>5. j \in 1 .. EOC /\ at[j] = EOC
  BY <1>0, <1>1, <1>4
<1> DEFINE T == { k \in 0 .. EOC : k >= j => at[k] = EOC }
<1>6. 0 .. EOC \subseteq T
  <2>1. 0 \in T
    BY <1>0, <1>5
  <2>2. ASSUME NEW k \in 1 .. EOC, k - 1 \in T PROVE k \in T
    <3>1. CASE k - 1 >= j
      <4>1. at[k - 1] = EOC
        BY <2>2, <3>1
      <4>2. at[k] = EOC
        BY <1>0, <1>1, <4>1 DEF Onward
      <4> QED BY <4>2
    <3>2. CASE ~ (k - 1 >= j)
      BY <1>0, <1>5, <3>2
    <3> QED BY <3>1, <3>2
  <2> HIDE DEF T
  <2> QED BY <1>0, <2>1, <2>2, UpToAll
<1>7. ASSUME NEW k \in 0 .. EOC
      PROVE  IF k <= j - 1 THEN at[k] \in Clusters ELSE at[k] = EOC
  BY <1>0, <1>2, <1>4, <1>5, <1>6
<1> QED BY <1>0, <1>5, <1>7 DEF Ends, at

\* A chain that ends has no cluster twice.
LEMMA NoneTwice ==
  ASSUME NEW fat \in Table, NEW h \in Cell, NEW m, Ends(Walk(fat, h), m),
         NEW i \in 0 .. m, NEW j \in 0 .. m, Walk(fat, h)[i] = Walk(fat, h)[j]
  PROVE  i = j
<1> DEFINE at == Walk(fat, h)
<1>0. EOC \in Nat /\ EOC \notin Clusters /\ m \in 0 .. EOC - 1
  BY Numbers DEF Ends
<1>1. \A k \in 1 .. EOC : at[k] = Onward(fat, at[k - 1])
  BY WalkSteps
<1>2. \A k \in 0 .. EOC : IF k <= m THEN at[k] \in Clusters ELSE at[k] = EOC
  BY DEF Ends
<1> HIDE DEF at
<1>3. ASSUME NEW x \in 0 .. m, NEW y \in 0 .. m, x < y, at[x] = at[y] PROVE FALSE
  <2> DEFINE n == m + 1 - y
             T == { d \in 0 .. n : at[x + d] = at[y + d] }
  <2>1. 0 .. n \subseteq T
    <3>1. 0 \in T /\ n \in Nat
      BY <1>0, <1>3
    <3>2. ASSUME NEW d \in 1 .. n, d - 1 \in T PROVE d \in T
      <4>1. x + d \in 1 .. EOC /\ y + d \in 1 .. EOC
        BY <1>0, <1>3, <3>1
      <4>2. at[x + (d - 1)] = at[y + (d - 1)]
        BY <3>2
      <4>3. (x + d) - 1 = x + (d - 1) /\ (y + d) - 1 = y + (d - 1)
        BY <3>1
      <4> QED BY <1>1, <4>1, <4>2, <4>3
    <3> HIDE DEF T, n
    <3> QED BY <3>1, <3>2, UpToAll
  <2>2. n \in 0 .. n /\ y + n = m + 1 /\ x + n \in 0 .. m /\ m + 1 \in 0 .. EOC
    BY <1>0, <1>3
  <2>3. at[x + n] = at[m + 1]
    BY <2>1, <2>2
  <2> QED BY <1>0, <1>2, <2>2, <2>3
<1> QED BY <1>3 DEF at

\* A chain that ends at place m has room for m + 1 clusters, less than there are
\* numbers, and one less still if there is a cluster that is not in it.
LEMMA ChainRoom ==
  ASSUME NEW fat \in Table, NEW h \in Cell, NEW m, Ends(Walk(fat, h), m)
  PROVE  /\ Cardinality(Chain(fat, h) \cap Clusters) = m + 1
         /\ (\E p \in Clusters : p \notin Chain(fat, h)) => m + 1 \in 0 .. EOC - 1
<1> DEFINE at == Walk(fat, h)
           S == Chain(fat, h) \cap Clusters
<1>0. /\ EOC \in Nat /\ EOC >= 2 /\ EOC \notin Clusters /\ m \in 0 .. EOC - 1
      /\ Clusters = 2 .. EOC - 1
  BY Numbers DEF Ends
<1>1. \A k \in 0 .. EOC : IF k <= m THEN at[k] \in Clusters ELSE at[k] = EOC
  BY DEF Ends
<1>2. \A i, j \in 0 .. m : at[i] = at[j] => i = j
  BY NoneTwice
<1>3. S = { at[k] : k \in 0 .. m }
  <2>1. Chain(fat, h) = { at[k] : k \in 0 .. EOC }
    BY DEF Chain
  <2> HIDE DEF at
  <2> QED BY <1>0, <1>1, <2>1
<1>4. IsFiniteSet(S) /\ Cardinality(S) = m + 1
  <2> DEFINE f == [k \in 0 .. m |-> at[k]]
  <2>1. f \in Bijection(0 .. m, S)
    <3> HIDE DEF at
    <3>1. f \in [0 .. m -> S]
      BY <1>3
    <3>2. \A s \in S : \E k \in 0 .. m : f[k] = s
      BY <1>3
    <3>3. \A i, j \in 0 .. m : f[i] = f[j] => i = j
      BY <1>2
    <3> HIDE DEF f, S
    <3> QED BY <3>1, <3>2, <3>3 DEF Bijection, Injection, Surjection, IsInjective
  <2>2. ExistsBijection(0 .. m, S)
    BY <2>1 DEF ExistsBijection
  <2>3. IsFiniteSet(0 .. m) /\ Cardinality(0 .. m) = m + 1
    <3>1. 0 \in Int /\ m \in Int /\ ~ (0 > m) /\ m - 0 + 1 = m + 1
      BY <1>0
    <3> QED BY <3>1, FS_Interval
  <2> HIDE DEF f, S
  <2> QED BY <2>2, <2>3, FS_Bijection
<1>5. ASSUME NEW p \in Clusters, p \notin Chain(fat, h) PROVE m + 1 \in 0 .. EOC - 1
  <2>1. p \notin S
    BY <1>5
  <2>2. IsFiniteSet(S \cup {p}) /\ Cardinality(S \cup {p}) = m + 2
    <3> HIDE DEF S
    <3>1. Cardinality(S \cup {p}) = Cardinality(S) + 1 /\ IsFiniteSet(S \cup {p})
      BY <1>4, <2>1, FS_AddElement
    <3> QED BY <1>0, <1>4, <3>1
  <2>3. S \cup {p} \in SUBSET (1 .. EOC - 1)
    BY <1>0
  <2>4. IsFiniteSet(1 .. EOC - 1) /\ Cardinality(1 .. EOC - 1) = EOC - 1
    <3>1. 1 \in Int /\ EOC - 1 \in Int
      BY <1>0
    <3>2. /\ IsFiniteSet(1 .. EOC - 1)
          /\ Cardinality(1 .. EOC - 1) = IF 1 > EOC - 1 THEN 0 ELSE (EOC - 1) - 1 + 1
      BY <3>1, FS_Interval
    <3>3. ~ (1 > EOC - 1) /\ (EOC - 1) - 1 + 1 = EOC - 1
      BY <1>0
    <3> QED BY <3>2, <3>3
  <2>5. Cardinality(S \cup {p}) <= Cardinality(1 .. EOC - 1)
    <3> HIDE DEF S
    <3> QED BY <2>3, <2>4, FS_Subset
  <2>6. m + 2 <= EOC - 1
    BY <2>2, <2>4, <2>5
  <2> QED BY <1>0, <2>6
<1> QED BY <1>4, <1>5

-----------------------------------------------------------------------------
\* A sound table once more, by the walks.

\* The clusters at places j and k of two chains are not the same.
Apart(fat, h, g, j, k) == Walk(fat, h)[j] = Walk(fat, g)[k] => Walk(fat, h)[j] = EOC

Sound(fat) ==
  /\ \A h \in Heads : \E m \in 0 .. EOC - 1 : Ends(Walk(fat, h), m)
  /\ \A h, g \in Heads : h # g => \A j, k \in 0 .. EOC : Apart(fat, h, g, j, k)
  /\ \A c \in Clusters : After(fat, c) # 0 => \E h \in Heads, k \in 0 .. EOC : Walk(fat, h)[k] = c

LEMMA HeadsAreClusters == Heads \subseteq Clusters
BY FatAssumption DEF Heads

LEMMA WellFormedSound ==
  ASSUME NEW fat \in Table, WellFormed(fat)
  PROVE  Sound(fat)
<1>1. \A h \in Heads : \E m \in 0 .. EOC - 1 : Ends(Walk(fat, h), m)
  BY EndFound, HeadsAreClusters DEF WellFormed
<1>2. ASSUME NEW h \in Heads, NEW g \in Heads, h # g, NEW j \in 0 .. EOC, NEW k \in 0 .. EOC
      PROVE  Apart(fat, h, g, j, k)
  <2>1. Walk(fat, h)[j] \in Chain(fat, h) /\ Walk(fat, g)[k] \in Chain(fat, g)
    BY DEF Chain
  <2>2. Chain(fat, h) \cap Chain(fat, g) = {EOC}
    BY <1>2 DEF WellFormed
  <2> QED BY <2>1, <2>2 DEF Apart
<1>3. ASSUME NEW c \in Clusters, After(fat, c) # 0
      PROVE  \E h \in Heads, k \in 0 .. EOC : Walk(fat, h)[k] = c
  <2>1. c \in UNION { Chain(fat, h) : h \in Heads }
    BY <1>3 DEF WellFormed
  <2> QED BY <2>1 DEF Chain
<1> QED BY <1>1, <1>2, <1>3 DEF Sound

\* A cluster of a chain has the next one, or the end, after it.
LEMMA NextInChain ==
  ASSUME NEW fat \in Table, NEW h \in Cell, NEW m, Ends(Walk(fat, h), m),
         NEW k \in 0 .. EOC, Walk(fat, h)[k] \in Clusters
  PROVE  /\ k \in 0 .. m /\ k + 1 \in 0 .. EOC
         /\ Walk(fat, h)[k + 1] = After(fat, Walk(fat, h)[k])
         /\ IF k = m THEN After(fat, Walk(fat, h)[k]) = EOC
                     ELSE After(fat, Walk(fat, h)[k]) \in Clusters
<1> DEFINE at == Walk(fat, h)
<1>0. EOC \in Nat /\ EOC \notin Clusters
  BY Numbers
<1>1. \A j \in 1 .. EOC : at[j] = Onward(fat, at[j - 1])
  BY WalkSteps
<1>2. Ends(at, m) /\ at[k] \in Clusters
  OBVIOUS
<1> HIDE DEF at
<1>3. k \in 0 .. m /\ k + 1 \in 1 .. EOC
  BY <1>0, <1>2 DEF Ends
<1>4. at[k + 1] = After(fat, at[k])
  BY <1>0, <1>1, <1>2, <1>3 DEF Onward
<1>5. IF k = m THEN at[k + 1] = EOC ELSE at[k + 1] \in Clusters
  BY <1>0, <1>2, <1>3 DEF Ends
<1> QED BY <1>0, <1>3, <1>4, <1>5 DEF at

LEMMA InChainUsed ==
  ASSUME NEW fat \in Table, Sound(fat), NEW h \in Heads, NEW k \in 0 .. EOC,
         Walk(fat, h)[k] \in Clusters
  PROVE  After(fat, Walk(fat, h)[k]) # 0
<1>1. PICK m \in 0 .. EOC - 1 : Ends(Walk(fat, h), m)
  BY DEF Sound
<1>2. h \in Cell /\ 0 \notin Clusters /\ EOC # 0
  BY Numbers, HeadsAreClusters
<1> QED BY <1>1, <1>2, NextInChain

LEMMA SoundWellFormed ==
  ASSUME NEW fat \in Table, Sound(fat)
  PROVE  WellFormed(fat)
<1>0. EOC \in Nat /\ EOC \notin Clusters /\ Heads \subseteq Cell /\ 0 \notin Clusters /\ EOC # 0
  BY Numbers, HeadsAreClusters
<1>1. ASSUME NEW h \in Heads
      PROVE  EOC \in Chain(fat, h) /\ Chain(fat, h) \subseteq Clusters \cup {EOC}
  <2> DEFINE at == Walk(fat, h)
  <2>1. PICK m \in 0 .. EOC - 1 : Ends(at, m)
    BY DEF Sound
  <2>2. Chain(fat, h) = { at[k] : k \in 0 .. EOC }
    BY DEF Chain
  <2> HIDE DEF at
  <2>3. m + 1 \in 0 .. EOC /\ at[m + 1] = EOC
    BY <1>0, <2>1 DEF Ends
  <2>4. \A k \in 0 .. EOC : at[k] \in Clusters \cup {EOC}
    BY <2>1 DEF Ends
  <2> QED BY <2>2, <2>3, <2>4
<1>2. ASSUME NEW h \in Heads, NEW g \in Heads, h # g
      PROVE  Chain(fat, h) \cap Chain(fat, g) = {EOC}
  <2>1. \A j, k \in 0 .. EOC : Walk(fat, h)[j] = Walk(fat, g)[k] => Walk(fat, h)[j] = EOC
    BY <1>2 DEF Sound, Apart
  <2>2. Chain(fat, h) \cap Chain(fat, g) \subseteq {EOC}
    BY <2>1 DEF Chain
  <2> QED BY <1>1, <2>2
<1>3. ASSUME NEW c \in Clusters
      PROVE  After(fat, c) # 0 <=> c \in UNION { Chain(fat, h) : h \in Heads }
  <2>1. After(fat, c) # 0 => c \in UNION { Chain(fat, h) : h \in Heads }
    BY DEF Sound, Chain
  <2>2. \A h \in Heads, k \in 0 .. EOC : Walk(fat, h)[k] = c => After(fat, c) # 0
    BY InChainUsed
  <2>3. c \in UNION { Chain(fat, h) : h \in Heads } => \E h \in Heads, k \in 0 .. EOC : Walk(fat, h)[k] = c
    BY DEF Chain
  <2> QED BY <2>1, <2>2, <2>3
<1>4. { c \in Clusters : After(fat, c) # 0 } = (UNION { Chain(fat, h) : h \in Heads }) \ {EOC}
  <2> DEFINE U == UNION { Chain(fat, h) : h \in Heads }
  <2>1. ASSUME NEW c \in U, c # EOC PROVE c \in Clusters
    <3>1. PICK h \in Heads : c \in Chain(fat, h)
      OBVIOUS
    <3> QED BY <1>1, <2>1, <3>1
  <2>2. \A c \in Clusters : After(fat, c) # 0 <=> c \in U
    BY <1>3
  <2> HIDE DEF U
  <2>3. { c \in Clusters : After(fat, c) # 0 } = U \ {EOC}
    BY <1>0, <2>1, <2>2
  <2> QED BY <2>3 DEF U
<1> QED BY <1>1, <1>2, <1>4 DEF WellFormed

-----------------------------------------------------------------------------
\* A chain grows: cluster p comes after its last cluster cl.

Grown(fat, new, cl, p) ==
  \A c \in Clusters : After(new, c) = IF c = p THEN EOC ELSE IF c = cl THEN p ELSE After(fat, c)

LEMMA WalkGrown ==
  ASSUME NEW fat \in Table, NEW new \in Table, NEW h \in Clusters, NEW m, NEW p \in Clusters,
         Ends(Walk(fat, h), m), p \notin Chain(fat, h), Grown(fat, new, Walk(fat, h)[m], p)
  PROVE  /\ Ends(Walk(new, h), m + 1)
         /\ Walk(new, h)[m + 1] = p
         /\ \A k \in 0 .. m : Walk(new, h)[k] = Walk(fat, h)[k]
<1> DEFINE at == Walk(fat, h)
           f == [k \in 0 .. EOC |-> IF k = m + 1 THEN p ELSE at[k]]
<1>0. /\ EOC \in Nat /\ EOC \notin Clusters /\ h \in Cell
      /\ m \in 0 .. EOC - 1 /\ m + 1 \in 0 .. EOC - 1
  <2>1. EOC \in Nat /\ EOC \notin Clusters /\ h \in Cell /\ m \in 0 .. EOC - 1
    BY Numbers DEF Ends
  <2>2. m + 1 \in 0 .. EOC - 1
    BY <2>1, ChainRoom
  <2> QED BY <2>1, <2>2
<1>1. at[0] = h /\ \A k \in 1 .. EOC : at[k] = Onward(fat, at[k - 1])
  BY <1>0, WalkSteps
<1>2. \A k \in 0 .. EOC : IF k <= m THEN at[k] \in Clusters ELSE at[k] = EOC
  BY DEF Ends
<1>3. \A k \in 0 .. m : at[k] # p /\ (at[k] = at[m] => k = m)
  BY <1>0, NoneTwice DEF Chain
<1>4. Grown(fat, new, at[m], p)
  OBVIOUS
<1> HIDE DEF at
<1>5. ASSUME NEW k \in 0 .. EOC
      PROVE  f[k] = IF k = 0 THEN h ELSE Onward(new, f[k - 1])
  <2>1. CASE k = 0
    BY <1>0, <1>1, <2>1
  <2>2. CASE k \in 1 .. m
    <3>1. f[k] = at[k] /\ f[k - 1] = at[k - 1] /\ k - 1 \in 0 .. m /\ k - 1 # m
      BY <1>0, <2>2
    <3>2. at[k - 1] \in Clusters /\ at[k - 1] # p /\ at[k - 1] # at[m]
      BY <1>0, <1>2, <1>3, <3>1
    <3>3. After(new, at[k - 1]) = After(fat, at[k - 1])
      BY <1>4, <3>2 DEF Grown
    <3>4. at[k] = Onward(fat, at[k - 1])
      BY <1>0, <1>1, <2>2
    <3> QED BY <2>2, <3>1, <3>2, <3>3, <3>4 DEF Onward
  <2>3. CASE k = m + 1
    <3>1. f[k] = p /\ f[k - 1] = at[m] /\ at[m] \in Clusters /\ at[m] # p
      BY <1>0, <1>2, <1>3, <2>3
    <3>2. After(new, at[m]) = p
      BY <1>4, <3>1 DEF Grown
    <3> QED BY <1>0, <2>3, <3>1, <3>2 DEF Onward
  <2>4. CASE k = m + 2
    <3>1. f[k] = EOC /\ f[k - 1] = p
      BY <1>0, <1>2, <2>4
    <3>2. After(new, p) = EOC
      BY <1>4 DEF Grown
    <3> QED BY <1>0, <2>4, <3>1, <3>2 DEF Onward
  <2>5. CASE k > m + 2
    <3>1. f[k] = EOC /\ f[k - 1] = EOC
      BY <1>0, <1>2, <2>5
    <3> QED BY <1>0, <2>5, <3>1 DEF Onward
  <2> QED BY <1>0, <2>1, <2>2, <2>3, <2>4, <2>5
<1>6. f = Walk(new, h)
  <2>1. f = [k \in 0 .. EOC |-> f[k]]
    OBVIOUS
  <2> HIDE DEF f
  <2>2. Goes(f, new, h)
    BY <1>5, <2>1 DEF Goes
  <2> QED BY <1>0, <2>2, OneWalk
<1>7. Ends(f, m + 1)
  BY <1>0, <1>2 DEF Ends
<1>8. f[m + 1] = p /\ \A k \in 0 .. m : f[k] = at[k]
  BY <1>0
<1> HIDE DEF f
<1> QED BY <1>6, <1>7, <1>8 DEF at

LEMMA WalkKept ==
  ASSUME NEW fat \in Table, NEW new \in Table, NEW h \in Clusters, NEW cl, NEW p,
         cl \notin Chain(fat, h), p \notin Chain(fat, h), Grown(fat, new, cl, p)
  PROVE  Walk(new, h) = Walk(fat, h)
<1> DEFINE at == Walk(fat, h)
<1>0. EOC \in Nat /\ h \in Cell
  BY Numbers
<1>1. at[0] = h /\ \A k \in 1 .. EOC : at[k] = Onward(fat, at[k - 1])
  BY <1>0, WalkSteps
<1>2. \A k \in 0 .. EOC : at[k] # cl /\ at[k] # p
  BY DEF Chain
<1>3. at \in [0 .. EOC -> Cell]
  BY <1>0, OneWalk
<1> HIDE DEF at
<1>4. ASSUME NEW k \in 0 .. EOC
      PROVE  at[k] = IF k = 0 THEN h ELSE Onward(new, at[k - 1])
  <2>1. CASE k = 0
    BY <1>1, <2>1
  <2>2. CASE k # 0
    <3>1. k \in 1 .. EOC /\ k - 1 \in 0 .. EOC
      BY <1>0, <2>2
    <3>2. at[k] = Onward(fat, at[k - 1]) /\ at[k - 1] # cl /\ at[k - 1] # p
      BY <1>1, <1>2, <3>1
    <3>3. at[k - 1] \in Clusters => After(new, at[k - 1]) = After(fat, at[k - 1])
      BY <3>2 DEF Grown
    <3> QED BY <2>2, <3>2, <3>3 DEF Onward
  <2> QED BY <2>1, <2>2
<1>5. Goes(at, new, h)
  BY <1>3, <1>4 DEF Goes
<1> QED BY <1>0, <1>5, OneWalk DEF at

\* The chain of head h grows by a cluster that is unused.
Grows(fat, new, h, m, p) ==
  /\ Sound(fat) /\ h \in Heads /\ Ends(Walk(fat, h), m)
  /\ p \in Clusters /\ After(fat, p) = 0 /\ Grown(fat, new, Walk(fat, h)[m], p)

LEMMA SoundGrown ==
  ASSUME NEW fat \in Table, NEW new \in Table, NEW h, NEW m, NEW p, Grows(fat, new, h, m, p)
  PROVE  /\ Sound(new)
         /\ Ends(Walk(new, h), m + 1) /\ Walk(new, h)[m + 1] = p
         /\ \A k \in 0 .. m : Walk(new, h)[k] = Walk(fat, h)[k]
         /\ \A g \in Heads : g # h => Walk(new, g) = Walk(fat, g)
<1> USE DEF Grows
<1> DEFINE cl == Walk(fat, h)[m]
<1>0. /\ EOC \in Nat /\ EOC \notin Clusters /\ EOC # 0 /\ Heads \subseteq Clusters
      /\ m \in 0 .. EOC - 1 /\ cl \in Clusters
  BY Numbers, HeadsAreClusters DEF Ends
<1>1. \A g \in Heads : p \notin Chain(fat, g)
  BY InChainUsed DEF Chain
<1>2. ASSUME NEW g \in Heads, g # h PROVE Walk(new, g) = Walk(fat, g)
  <2>1. cl \notin Chain(fat, g)
    <3>1. \A k \in 0 .. EOC : Apart(fat, h, g, m, k)
      BY <1>0, <1>2 DEF Sound
    <3> QED BY <1>0, <3>1 DEF Apart, Chain
  <2> QED BY <1>0, <1>1, <2>1, WalkKept
<1>3. /\ Ends(Walk(new, h), m + 1) /\ Walk(new, h)[m + 1] = p
      /\ \A k \in 0 .. m : Walk(new, h)[k] = Walk(fat, h)[k]
  <2>1. h \in Clusters /\ p \notin Chain(fat, h)
    BY <1>0, <1>1
  <2> QED BY <2>1, WalkGrown
<1>4. ASSUME NEW g \in Heads PROVE \E n \in 0 .. EOC - 1 : Ends(Walk(new, g), n)
  BY <1>2, <1>3 DEF Sound, Ends
<1> HIDE DEF cl
<1>5. ASSUME NEW g \in Heads, NEW k \in 0 .. EOC
      PROVE  \/ Walk(new, g)[k] = EOC
             \/ g = h /\ Walk(new, g)[k] = p
             \/ Walk(new, g)[k] = Walk(fat, g)[k]
  <2>1. CASE g # h
    BY <1>2, <2>1
  <2>2. CASE g = h
    BY <1>0, <1>3, <2>2 DEF Ends
  <2> QED BY <2>1, <2>2
<1>6. ASSUME NEW f \in Heads, NEW g \in Heads, f # g, NEW j \in 0 .. EOC, NEW k \in 0 .. EOC
      PROVE  Apart(new, f, g, j, k)
  <2>1. Apart(fat, f, g, j, k)
    BY <1>6 DEF Sound
  <2>2. Walk(fat, f)[j] # p /\ Walk(fat, g)[k] # p
    BY <1>1 DEF Chain
  <2> QED BY <1>5, <1>6, <2>1, <2>2 DEF Apart
<1>7. ASSUME NEW c \in Clusters, After(new, c) # 0
      PROVE  \E g \in Heads, k \in 0 .. EOC : Walk(new, g)[k] = c
  <2>1. CASE c = p
    BY <1>0, <1>3, <2>1 DEF Ends
  <2>2. CASE c # p
    <3>1. After(fat, c) # 0
      <4>1. CASE c = cl
        <5>1. After(fat, Walk(fat, h)[m]) # 0
          BY <1>0, InChainUsed DEF cl
        <5> QED BY <4>1, <5>1 DEF cl
      <4>2. CASE c # cl
        BY <1>7, <2>2, <4>2 DEF Grown, cl
      <4> QED BY <4>1, <4>2
    <3>2. PICK g \in Heads, k \in 0 .. EOC : Walk(fat, g)[k] = c
      BY <3>1 DEF Sound
    <3>3. CASE g # h
      BY <1>2, <3>2, <3>3
    <3>4. CASE g = h
      <4>1. k \in 0 .. m
        BY <1>0, <3>2, <3>4 DEF Ends
      <4> QED BY <1>3, <3>2, <3>4, <4>1
    <3> QED BY <3>3, <3>4
  <2> QED BY <2>1, <2>2
<1>8. Sound(new)
  BY <1>4, <1>6, <1>7 DEF Sound
<1> QED BY <1>2, <1>3, <1>8

-----------------------------------------------------------------------------
\* Open files, on a volume whose clusters have c bytes.

FilesOf(c) == [n : Files, m : {"r", "w"}, idx : 0 .. MaxPos, cl : Clusters,
               i : 0 .. c, buf : [0 .. c - 1 -> Bytes], log : Seq(Bytes), quiet : BOOLEAN]

\* An open file for writing, in the cluster at place k of the walk at, has logged the
\* bytes up to its position: those of this cluster are in its buffer, the others in
\* the clusters d before it.
Logged(c, at, d, f, k) ==
  /\ Len(f.log) = f.idx
  /\ \A x \in 0 .. f.idx - 1 :
       f.log[x + 1] = IF x \div c = k THEN f.buf[x % c] ELSE d[at[x \div c]][x % c]

Placed(c, ok, at, d, f, k) ==
  /\ at[k] = f.cl
  /\ f.m = "r" \/ ok => f.idx = c * k + f.i
  /\ f.m = "r" /\ f.quiet => f.buf = d[f.cl]
  /\ f.m = "w" /\ f.quiet /\ ok => Logged(c, at, d, f, k)

\* The place of a position before the one that is i bytes into cluster k.
LEMMA PlaceOf ==
  ASSUME NEW c \in Nat \ {0}, NEW k \in Nat, NEW i \in 0 .. c, NEW x \in 0 .. (c * k + i) - 1
  PROVE  /\ x \in Nat /\ x \div c \in 0 .. k /\ x % c \in 0 .. c - 1
         /\ x \div c = k => x % c < i
<1> DEFINE q == x \div c
           r == x % c
<1>1. c * k \in Nat /\ x \in Nat /\ x < c * k + i
  OBVIOUS
<1>2. q \in Nat /\ r \in 0 .. c - 1 /\ x = c * q + r
  BY <1>1, DivMod
<1> HIDE DEF q, r
<1>3. c * k + i > c * q + r /\ r < c /\ i <= c /\ r \in Nat /\ i \in Nat
  BY <1>1, <1>2
<1>4. q <= k
  BY <1>2, <1>3, Quotient
<1>5. q = k => r < i
  BY <1>1, <1>2, <1>3
<1> QED BY <1>1, <1>2, <1>4, <1>5 DEF q, r

\* A place is not lost when nothing up to it changes ...
LEMMA PlacedKept ==
  ASSUME NEW c \in Nat \ {0}, NEW ok \in BOOLEAN, NEW at, NEW new, NEW d, NEW e,
         NEW f \in FilesOf(c), NEW k \in Nat, Placed(c, ok, at, d, f, k),
         \A j \in 0 .. k : new[j] = at[j] /\ e[at[j]] = d[at[j]]
  PROVE  Placed(c, ok, new, e, f, k)
<1>1. k \in 0 .. k /\ new[k] = f.cl /\ e[f.cl] = d[f.cl]
  BY DEF Placed
<1>2. ASSUME f.m = "w", f.quiet, ok PROVE Logged(c, new, e, f, k)
  <2>1. Logged(c, at, d, f, k) /\ f.idx = c * k + f.i
    BY <1>2 DEF Placed
  <2>2. f.i \in 0 .. c
    BY DEF FilesOf
  <2>3. \A x \in 0 .. f.idx - 1 : x \div c \in 0 .. k
    BY <2>1, <2>2, PlaceOf
  <2>4. ASSUME NEW x \in 0 .. f.idx - 1
        PROVE  e[new[x \div c]] = d[at[x \div c]]
    BY <2>3
  <2> QED BY <2>1, <2>4 DEF Logged
<1> QED BY <1>1, <1>2 DEF Placed

\* ... and the place itself is known also when others wrote to the file.
LEMMA PlacedDisturbed ==
  ASSUME NEW c \in Nat \ {0}, NEW ok \in BOOLEAN, NEW at, NEW new, NEW d, NEW e,
         NEW f \in FilesOf(c), NEW k \in Nat, Placed(c, ok, at, d, f, k), new[k] = at[k]
  PROVE  Placed(c, ok, new, e, [f EXCEPT !.quiet = FALSE], k)
<1> DEFINE g == [f EXCEPT !.quiet = FALSE]
<1>1. g.cl = f.cl /\ g.m = f.m /\ g.idx = f.idx /\ g.i = f.i /\ g.quiet = FALSE
  BY DEF FilesOf
<1> HIDE DEF g
<1> QED BY <1>1 DEF Placed, g

\* What file g is, once byte b was stored in file f.
StoredAs(g, c, f, cl, i, b, pos) ==
  /\ g \in FilesOf(c)
  /\ g.n = f.n /\ g.m = f.m /\ g.idx = pos /\ g.cl = cl /\ g.i = i + 1
  /\ g.buf = [f.buf EXCEPT ![i] = b] /\ g.log = Append(f.log, b)
  /\ g.quiet = f.quiet

LEMMA StoredFields ==
  ASSUME NEW c \in Nat \ {0}, NEW f \in FilesOf(c), NEW cl \in Clusters, NEW i \in 0 .. c - 1,
         NEW b \in Bytes, NEW pos \in 0 .. MaxPos
  PROVE  StoredAs(Stored(f, cl, i, b, pos), c, f, cl, i, b, pos)
<1> DEFINE g == Stored(f, cl, i, b, pos)
<1>1. g = [f EXCEPT !.cl = cl, !.buf = [f.buf EXCEPT ![i] = b], !.i = i + 1, !.idx = pos,
                    !.log = Append(f.log, b)]
  BY DEF Stored, FilesOf
<1>2. /\ [f.buf EXCEPT ![i] = b] \in [0 .. c - 1 -> Bytes]
      /\ Append(f.log, b) \in Seq(Bytes)
      /\ i + 1 \in 0 .. c
  <2>1. f.buf \in [0 .. c - 1 -> Bytes] /\ f.log \in Seq(Bytes)
    BY DEF FilesOf
  <2> QED BY <2>1
<1> HIDE DEF g
<1>3. g \in FilesOf(c)
  BY <1>1, <1>2 DEF FilesOf
<1>4. /\ g.n = f.n /\ g.m = f.m /\ g.idx = pos /\ g.cl = cl /\ g.i = i + 1
      /\ g.buf = [f.buf EXCEPT ![i] = b] /\ g.log = Append(f.log, b)
      /\ g.quiet = f.quiet
  BY <1>1 DEF FilesOf
<1> QED BY <1>3, <1>4 DEF g, StoredAs

\* A byte is stored in the buffer.
LEMMA StoredPlaced ==
  ASSUME NEW c \in Nat \ {0}, NEW ok \in BOOLEAN, NEW at, NEW d,
         NEW f \in FilesOf(c), NEW k \in Nat, Placed(c, ok, at, d, f, k), f.m = "w", f.i < c,
         NEW b \in Bytes, NEW pos \in 0 .. MaxPos, ok => pos = f.idx + 1
  PROVE  Placed(c, ok, at, d, Stored(f, f.cl, f.i, b, pos), k)
<1> DEFINE g == Stored(f, f.cl, f.i, b, pos)
<1>0. /\ f.i \in 0 .. c - 1 /\ f.i \in 0 .. c /\ f.buf \in [0 .. c - 1 -> Bytes]
      /\ f.log \in Seq(Bytes) /\ f.idx \in Nat /\ f.cl \in Clusters
  BY DEF FilesOf
<1>1. /\ g.m = "w" /\ g.idx = pos /\ g.cl = f.cl /\ g.i = f.i + 1
      /\ g.buf = [f.buf EXCEPT ![f.i] = b] /\ g.log = Append(f.log, b) /\ g.quiet = f.quiet
      /\ Len(g.log) = Len(f.log) + 1
  <2>1. StoredAs(g, c, f, f.cl, f.i, b, pos)
    BY <1>0, StoredFields
  <2> HIDE DEF g
  <2>2. Len(Append(f.log, b)) = Len(f.log) + 1
    BY <1>0
  <2> QED BY <2>1, <2>2 DEF StoredAs
<1> HIDE DEF g
<1>2. ASSUME ok PROVE pos = c * k + (f.i + 1)
  <2>1. f.idx = c * k + f.i /\ pos = f.idx + 1 /\ c * k \in Nat
    BY <1>2 DEF Placed
  <2> QED BY <1>0, <2>1
<1>3. ASSUME f.quiet, ok PROVE Logged(c, at, d, g, k)
  <2>1. Logged(c, at, d, f, k) /\ f.idx = c * k + f.i /\ pos = f.idx + 1
    BY <1>3 DEF Placed
  <2>2. Len(f.log) = f.idx /\ Len(g.log) = f.idx + 1
    BY <1>0, <1>1, <2>1 DEF Logged
  <2>3. ASSUME NEW x \in 0 .. f.idx - 1
        PROVE  g.log[x + 1] = IF x \div c = k THEN g.buf[x % c] ELSE d[at[x \div c]][x % c]
    <3>1. f.log[x + 1] = IF x \div c = k THEN f.buf[x % c] ELSE d[at[x \div c]][x % c]
      BY <2>1 DEF Logged
    <3>2. g.log[x + 1] = f.log[x + 1]
      BY <1>0, <1>1, <2>2
    <3>3. x \div c = k => x % c < f.i /\ x % c \in 0 .. c - 1
      BY <1>0, <2>1, PlaceOf
    <3>4. x \div c = k => g.buf[x % c] = f.buf[x % c]
      BY <1>0, <1>1, <3>3
    <3> QED BY <3>1, <3>2, <3>4
  <2>4. g.log[f.idx + 1] = b
    BY <1>0, <1>1, <2>2
  <2>5. f.idx \div c = k /\ f.idx % c = f.i
    BY <1>0, <2>1, DivModIs
  <2>6. g.buf[f.i] = b
    BY <1>0, <1>1
  <2>7. ASSUME NEW x \in 0 .. g.idx - 1
        PROVE  g.log[x + 1] = IF x \div c = k THEN g.buf[x % c] ELSE d[at[x \div c]][x % c]
    <3>1. CASE x = f.idx
      BY <2>4, <2>5, <2>6, <3>1
    <3>2. CASE x # f.idx
      <4>1. x \in 0 .. f.idx - 1
        BY <1>0, <1>1, <2>1, <3>2
      <4> QED BY <2>3, <4>1
    <3> QED BY <3>1, <3>2
  <2> QED BY <1>1, <2>1, <2>2, <2>7 DEF Logged
<1> QED BY <1>1, <1>2, <1>3 DEF Placed, g

\* An open file for writing whose buffer is full, and the cluster cl it goes on to.
GoesOn(c, ok, at, new, d, f, k, cl) ==
  /\ d \in [Clusters -> [0 .. c - 1 -> Bytes]]
  /\ f \in FilesOf(c) /\ k \in Nat /\ Placed(c, ok, at, d, f, k) /\ f.m = "w" /\ f.i = c
  /\ \A j \in 0 .. k : at[j] \in Clusters /\ new[j] = at[j] /\ (at[j] = at[k] => j = k)
  /\ cl \in Clusters /\ new[k + 1] = cl

\* The buffer is written, and a byte stored at the start of the next cluster.
LEMMA NextPlaced ==
  ASSUME NEW c \in Nat \ {0}, NEW ok \in BOOLEAN, NEW at, NEW new, NEW d, NEW f, NEW k, NEW cl,
         GoesOn(c, ok, at, new, d, f, k, cl),
         NEW b \in Bytes, NEW pos \in 0 .. MaxPos, ok => pos = f.idx + 1
  PROVE  Placed(c, ok, new, [d EXCEPT ![f.cl] = f.buf], Stored(f, cl, 0, b, pos), k + 1)
<1> USE DEF GoesOn
<1> DEFINE g == Stored(f, cl, 0, b, pos)
           e == [d EXCEPT ![f.cl] = f.buf]
<1>0. /\ 0 \in 0 .. c - 1 /\ f.i \in 0 .. c /\ f.buf \in [0 .. c - 1 -> Bytes]
      /\ f.log \in Seq(Bytes) /\ f.idx \in Nat /\ f.cl \in Clusters /\ at[k] = f.cl
  BY DEF FilesOf, Placed
<1>1. /\ g.m = "w" /\ g.idx = pos /\ g.cl = cl /\ g.i = 0 + 1
      /\ g.buf = [f.buf EXCEPT ![0] = b] /\ g.log = Append(f.log, b) /\ g.quiet = f.quiet
      /\ Len(g.log) = Len(f.log) + 1
  <2>1. StoredAs(g, c, f, cl, 0, b, pos)
    BY <1>0, StoredFields
  <2> HIDE DEF g
  <2>2. Len(Append(f.log, b)) = Len(f.log) + 1
    BY <1>0
  <2> QED BY <2>1, <2>2 DEF StoredAs
<1>2. ASSUME NEW j \in 0 .. k
      PROVE  e[new[j]] = IF j = k THEN f.buf ELSE d[at[j]]
  BY <1>0
<1> HIDE DEF g, e
<1>3. ASSUME ok PROVE /\ f.idx = c * (k + 1) /\ pos = c * (k + 1) + 1
                      /\ f.idx = c * k + f.i /\ c * (k + 1) \in Nat
  <2>1. f.idx = c * k + c /\ pos = f.idx + 1 /\ c * k \in Nat
    BY <1>3 DEF Placed
  <2>2. c * (k + 1) = c * k + c
    OBVIOUS
  <2> QED BY <1>0, <2>1, <2>2
<1>4. ASSUME f.quiet, ok PROVE Logged(c, new, e, g, k + 1)
  <2>1. Logged(c, at, d, f, k)
    BY <1>4 DEF Placed
  <2>2. Len(f.log) = f.idx /\ Len(g.log) = f.idx + 1 /\ pos = f.idx + 1
    BY <1>0, <1>1, <1>4, <2>1 DEF Logged
  <2>3. ASSUME NEW x \in 0 .. f.idx - 1
        PROVE  g.log[x + 1] = IF x \div c = k + 1 THEN g.buf[x % c] ELSE e[new[x \div c]][x % c]
    <3>1. f.log[x + 1] = IF x \div c = k THEN f.buf[x % c] ELSE d[at[x \div c]][x % c]
      BY <2>1 DEF Logged
    <3>2. g.log[x + 1] = f.log[x + 1]
      BY <1>0, <1>1, <2>2
    <3>3. x \div c \in 0 .. k
      BY <1>0, <1>3, <1>4, PlaceOf
    <3>4. x \div c # k + 1
      BY <3>3
    <3> QED BY <1>2, <3>1, <3>2, <3>3, <3>4
  <2>4. g.log[f.idx + 1] = b
    BY <1>0, <1>1, <2>2
  <2>5. f.idx \div c = k + 1 /\ f.idx % c = 0
    <3>1. k + 1 \in Nat /\ f.idx = c * (k + 1) + 0
      BY <1>3, <1>4
    <3> QED BY <1>0, <3>1, DivModIs
  <2>6. g.buf[0] = b
    BY <1>0, <1>1
  <2>7. ASSUME NEW x \in 0 .. g.idx - 1
        PROVE  g.log[x + 1] = IF x \div c = k + 1 THEN g.buf[x % c] ELSE e[new[x \div c]][x % c]
    <3>1. CASE x = f.idx
      BY <2>4, <2>5, <2>6, <3>1
    <3>2. CASE x # f.idx
      <4>1. x \in 0 .. f.idx - 1
        BY <1>0, <1>1, <2>2, <3>2
      <4> QED BY <2>3, <4>1
    <3> QED BY <3>1, <3>2
  <2> QED BY <1>1, <2>2, <2>7 DEF Logged
<1> QED BY <1>1, <1>3, <1>4 DEF Placed, g, e

-----------------------------------------------------------------------------
\* The inductive invariant.

\* An entry in use leads to one in use, so that no open file gets to a cluster that
\* has no entry, not even on a table that a search without a result has spoilt.
Linked(fat) ==
  /\ \A n \in Files : After(fat, Inode[n]) # 0
  /\ \A c \in Clusters : /\ After(fat, c) \in Clusters \cup {0, EOC}
                         /\ After(fat, c) \in Clusters => After(fat, After(fat, c)) # 0

InUse ==
  \A h \in Handles : fp[h] # NULL => /\ After(tab.fat, fp[h].cl) # 0
                                     /\ honest /\ fp[h].m = "w" => fp[h].idx <= writes

OpenPlaced(c, ok, fat, d, f) ==
  \E k \in 0 .. EOC : Placed(c, ok, Walk(fat, Inode[f.n]), d, f, k)

\* What holds as long as the searches gave unused clusters.
Filed ==
  /\ Sound(tab.fat)
  /\ \A h \in Handles : fp[h] # NULL => OpenPlaced(clsz, honest, tab.fat, data, fp[h])
  /\ honest => \A n \in Files : len[n] <= Room(n)

\* The cache stays what the disk has because each write goes to an entry of the
\* table; for that the open files must be at clusters that have one.  A chain stays
\* sound because it grows at its end only; for that each open file must be at a
\* place of its own chain.  A file gets what was written to it because the bytes
\* before the position are in the clusters before that place and in the buffer.
FatIInv ==
  /\ TypeOK
  /\ TableOK(tab)
  /\ Linked(tab.fat)
  /\ InUse
  /\ found => Filed

\* What a type-correct state gives.
LEMMA TypeFacts ==
  ASSUME TypeOK
  PROVE  /\ clsz \in ClSizes /\ clsz \in Nat \ {0}
         /\ tab.fat \in Table
         /\ data \in [Clusters -> [0 .. clsz - 1 -> Bytes]]
         /\ len \in [Files -> 0 .. MaxPos]
         /\ fp \in [Handles -> FilesOf(clsz) \cup {NULL}]
         /\ writes \in 0 .. MaxWrites /\ MaxWrites \in Nat /\ MaxPos \in Nat
         /\ honest \in BOOLEAN
<1>1. OpenFile = FilesOf(clsz)
  BY DEF OpenFile, FilesOf
<1> QED BY <1>1, FatAssumption DEF TypeOK, Table, Cell

\* A number of the bytes that can be written or are there at first.
LEMMA BytesAre ==
  /\ Bytes = 0 .. MaxWrites + EOC /\ MaxWrites \in Nat /\ EOC \in Nat /\ MaxOpens \in Nat
  /\ Junk \in Bytes
BY FatAssumption, Numbers DEF Bytes, Junk

LEMMA HeadOf ==
  ASSUME NEW n \in Files
  PROVE  /\ Inode[n] \in Heads /\ Inode[n] \in Clusters /\ Inode[n] \in Cell
         /\ \A k \in Files : n # k => Inode[n] # Inode[k]
BY FatAssumption DEF Heads, Cell, Clusters

LEMMA SoundLinked ==
  ASSUME NEW fat \in Table, Sound(fat)
  PROVE  Linked(fat)
<1>0. EOC \in Nat /\ EOC # 0 /\ EOC \notin Clusters /\ 0 \notin Clusters /\ 0 \in 0 .. EOC
  BY Numbers
<1>1. ASSUME NEW n \in Files PROVE After(fat, Inode[n]) # 0
  <2>1. Walk(fat, Inode[n])[0] = Inode[n]
    BY HeadOf, WalkSteps
  <2>2. Walk(fat, Inode[n])[0] \in Clusters
    BY <2>1, HeadOf
  <2>3. After(fat, Walk(fat, Inode[n])[0]) # 0
    BY <1>0, <2>2, HeadOf, InChainUsed
  <2> QED BY <2>1, <2>3
<1>2. ASSUME NEW c \in Clusters, After(fat, c) # 0
      PROVE  /\ After(fat, c) \in Clusters \cup {EOC}
             /\ After(fat, c) \in Clusters => After(fat, After(fat, c)) # 0
  <2>1. PICK h \in Heads, k \in 0 .. EOC : Walk(fat, h)[k] = c
    BY <1>2 DEF Sound
  <2>2. PICK m \in 0 .. EOC - 1 : Ends(Walk(fat, h), m)
    BY DEF Sound
  <2>3. h \in Cell
    BY HeadsAreClusters DEF Cell, Clusters
  <2>4. /\ k + 1 \in 0 .. EOC /\ Walk(fat, h)[k + 1] = After(fat, c)
        /\ IF k = m THEN After(fat, c) = EOC ELSE After(fat, c) \in Clusters
    <3>1. Walk(fat, h)[k] \in Clusters
      BY <2>1
    <3> QED BY <2>1, <2>2, <2>3, <3>1, NextInChain
  <2>5. After(fat, c) \in Clusters => After(fat, Walk(fat, h)[k + 1]) # 0
    <3> SUFFICES ASSUME After(fat, c) \in Clusters
                 PROVE  After(fat, Walk(fat, h)[k + 1]) # 0
      OBVIOUS
    <3>1. Walk(fat, h)[k + 1] \in Clusters
      BY <2>4
    <3> QED BY <2>4, <3>1, InChainUsed
  <2> QED BY <2>4, <2>5
<1> QED BY <1>0, <1>1, <1>2 DEF Linked

LEMMA InitInv == Init => FatIInv
<1> SUFFICES ASSUME Init PROVE FatIInv
  OBVIOUS
<1> DEFINE s == SectorOf(LastOf(Fat0, Root))
<1>0. Fat0 \in Table /\ WellFormed(Fat0) /\ Sound(Fat0)
  <2>1. Fat0 \in Table /\ WellFormed(Fat0)
    BY FatAssumption DEF Table, Cell
  <2> QED BY <2>1, WellFormedSound
<1>1. LastOf(Fat0, Root) \in Clusters
  <2> DEFINE at == Walk(Fat0, Root)
  <2>1. Root \in Heads /\ Root \in Cell /\ EOC \in Nat
    BY FatAssumption, Numbers DEF Heads, Cell, Clusters
  <2>2. PICK m \in 0 .. EOC - 1 : Ends(at, m)
    BY <1>0, <2>1 DEF Sound
  <2>3. m \in 0 .. EOC /\ at[m] \in Clusters
    BY <2>1, <2>2 DEF Ends
  <2>4. After(Fat0, at[m]) = EOC
    BY <1>0, <2>1, <2>2, <2>3, NextInChain
  <2>5. at[m] \in Chain(Fat0, Root) \cap Clusters
    BY <2>3 DEF Chain
  <2>6. \E c \in Chain(Fat0, Root) \cap Clusters : After(Fat0, c) = EOC
    BY <2>4, <2>5
  <2> QED BY <2>6 DEF LastOf
<1>2. s \in Sectors
  BY <1>1, SectorInTable DEF Clusters
<1>3. tab = [fat |-> Fat0, cbufs |-> s, cbuf |-> Fat0[s]]
  BY DEF Init, Mounted
<1>4. TableOK(tab) /\ tab.fat = Fat0
  BY <1>0, <1>2, <1>3 DEF TableOK, Table
<1>5. clsz \in ClSizes /\ clsz \in Nat \ {0}
  BY FatAssumption DEF Init
<1>6. TypeOK
  <2>1. data \in [Clusters -> [0 .. clsz - 1 -> Bytes]]
    <3>1. \A c \in Clusters : MaxWrites + c \in Bytes
      BY Numbers, BytesAre
    <3>2. \A c \in Clusters : Buffer(MaxWrites + c) \in [0 .. clsz - 1 -> Bytes]
      BY <3>1 DEF Buffer
    <3> QED BY <3>2 DEF Init
  <2>2. tab \in [fat : [Sectors -> [Slots -> Entries \cup {EOC}]],
                 cbufs : Sectors, cbuf : [Slots -> Entries \cup {EOC}]]
    BY <1>4 DEF TableOK, Cell
  <2>3. /\ fp \in [Handles -> OpenFile \cup {NULL}] /\ got \in Seq(Bytes)
        /\ writes \in 0 .. MaxWrites /\ opens \in 0 .. MaxOpens
        /\ found \in BOOLEAN /\ honest \in BOOLEAN /\ len \in [Files -> 0 .. MaxPos]
    BY BytesAre, FatAssumption DEF Init
  <2> QED BY <1>5, <2>1, <2>2, <2>3 DEF TypeOK
<1>7. Linked(tab.fat)
  BY <1>0, <1>4, SoundLinked
<1>8. \A h \in Handles : fp[h] = NULL
  BY DEF Init
<1>9. \A n \in Files : len[n] <= Room(n)
  BY <1>4, <1>5, FatAssumption DEF Init, Room
<1> QED BY <1>0, <1>4, <1>6, <1>7, <1>8, <1>9 DEF FatIInv, InUse, Filed

-----------------------------------------------------------------------------
\* What a step does to the open files: only h is another, or those of the same node
\* know of it too.
OnlyAt(h, f) ==
  /\ fp' \in [Handles -> FilesOf(clsz) \cup {NULL}]
  /\ fp'[h] = f
  /\ \A g \in Handles : g # h => fp'[g] = fp[g]

ToldAt(h, f) ==
  /\ fp' \in [Handles -> FilesOf(clsz) \cup {NULL}]
  /\ fp'[h] = f
  /\ \A g \in Handles : g # h /\ fp[g] = NULL => fp'[g] = NULL
  /\ \A g \in Handles : g # h /\ fp[g] # NULL =>
       IF fp[g].n = fp[h].n THEN fp'[g] = [fp[g] EXCEPT !.quiet = FALSE] ELSE fp'[g] = fp[g]

LEMMA FileAt ==
  ASSUME TypeOK, NEW h \in Handles, NEW f \in FilesOf(clsz) \cup {NULL}, fp' = [fp EXCEPT ![h] = f]
  PROVE  OnlyAt(h, f)
<1>1. fp \in [Handles -> FilesOf(clsz) \cup {NULL}]
  BY TypeFacts
<1> QED BY <1>1 DEF OnlyAt

LEMMA DisturbAt ==
  ASSUME TypeOK, NEW h \in Handles, NEW f \in FilesOf(clsz) \cup {NULL}, fp' = Disturb(h, f)
  PROVE  ToldAt(h, f)
<1>1. fp \in [Handles -> FilesOf(clsz) \cup {NULL}]
  BY TypeFacts
<1>2. ASSUME NEW g \in Handles, fp[g] # NULL
      PROVE  [fp[g] EXCEPT !.quiet = FALSE] \in FilesOf(clsz)
  <2>1. fp[g] \in FilesOf(clsz)
    BY <1>1, <1>2
  <2> QED BY <2>1 DEF FilesOf
<1> DEFINE new(g) == IF g = h THEN f
                     ELSE IF Disturbs(h, g) THEN [fp[g] EXCEPT !.quiet = FALSE]
                     ELSE fp[g]
<1>3. \A g \in Handles : new(g) \in FilesOf(clsz) \cup {NULL}
  BY <1>1, <1>2 DEF Disturbs
<1>4. fp' = [g \in Handles |-> new(g)]
  BY DEF Disturb
<1>5. /\ new(h) = f
      /\ \A g \in Handles : g # h /\ fp[g] = NULL => new(g) = NULL
      /\ \A g \in Handles : g # h /\ fp[g] # NULL =>
           IF fp[g].n = fp[h].n THEN new(g) = [fp[g] EXCEPT !.quiet = FALSE] ELSE new(g) = fp[g]
  BY DEF Disturbs
<1> HIDE DEF new
<1>6. fp' \in [Handles -> FilesOf(clsz) \cup {NULL}] /\ \A g \in Handles : fp'[g] = new(g)
  BY <1>3, <1>4
<1> QED BY <1>5, <1>6 DEF ToldAt

LEMMA InUseKept ==
  ASSUME TypeOK, InUse, NEW h \in Handles, NEW f, OnlyAt(h, f) \/ ToldAt(h, f),
         UNCHANGED honest, writes' \in {writes, writes + 1},
         \A c \in Clusters : After(tab.fat, c) # 0 => After(tab.fat', c) # 0,
         f # NULL => /\ After(tab.fat', f.cl) # 0
                     /\ honest /\ f.m = "w" => f.idx <= writes'
  PROVE  InUse'
<1>1. fp \in [Handles -> FilesOf(clsz) \cup {NULL}] /\ writes \in Nat
  BY TypeFacts
<1>2. fp'[h] = f
  BY DEF OnlyAt, ToldAt
<1>3. ASSUME NEW g \in Handles, fp'[g] # NULL, g # h
      PROVE  /\ After(tab.fat', fp'[g].cl) # 0
             /\ honest /\ fp'[g].m = "w" => fp'[g].idx <= writes'
  <2>1. fp[g] # NULL /\ fp[g] \in FilesOf(clsz)
    BY <1>1, <1>3 DEF OnlyAt, ToldAt
  <2>2. fp'[g] = fp[g] \/ fp'[g] = [fp[g] EXCEPT !.quiet = FALSE]
    BY <1>3, <2>1 DEF OnlyAt, ToldAt
  <2>3. fp'[g].cl = fp[g].cl /\ fp'[g].m = fp[g].m /\ fp'[g].idx = fp[g].idx
    BY <2>1, <2>2 DEF FilesOf
  <2>4. fp[g].cl \in Clusters /\ fp[g].idx \in Nat
    BY <2>1 DEF FilesOf
  <2>5. /\ After(tab.fat, fp[g].cl) # 0
        /\ honest /\ fp[g].m = "w" => fp[g].idx <= writes
    BY <2>1 DEF InUse
  <2> QED BY <1>1, <2>3, <2>4, <2>5
<1>4. ASSUME NEW g \in Handles, fp'[g] # NULL
      PROVE  /\ After(tab.fat', fp'[g].cl) # 0
             /\ honest /\ fp'[g].m = "w" => fp'[g].idx <= writes'
  BY <1>2, <1>3, <1>4
<1> QED BY <1>4 DEF InUse

\* The same for the places of the open files, when the table and the data are as before.
LEMMA PlacesKept ==
  ASSUME TypeOK, Filed, NEW h \in Handles, NEW f, OnlyAt(h, f),
         UNCHANGED << clsz, honest, data, len >>, tab.fat' = tab.fat,
         f # NULL => OpenPlaced(clsz, honest, tab.fat, data, f)
  PROVE  Filed'
<1>1. Sound(tab.fat')
  BY DEF Filed
<1>2. ASSUME NEW g \in Handles, fp'[g] # NULL
      PROVE  OpenPlaced(clsz, honest, tab.fat, data, fp'[g])
  BY <1>2 DEF Filed, OnlyAt
<1>3. ASSUME NEW g \in Handles, fp'[g] # NULL
      PROVE  OpenPlaced(clsz', honest', tab.fat', data', fp'[g])
  BY <1>2, <1>3
<1>4. honest' => \A n \in Files : len'[n] <= RoomIn(tab.fat', n, clsz')
  BY DEF Filed, Room
<1> QED BY <1>1, <1>3, <1>4 DEF Filed, Room

\* The table when a chain grew, or not, and the data when a buffer was written.
StepAt(h, fat, new, d, e) ==
  /\ \A n \in Files : n # fp[h].n => Walk(new, Inode[n]) = Walk(fat, Inode[n])
  /\ \A k \in 0 .. EOC : Walk(fat, Inode[fp[h].n])[k] \in Clusters =>
       Walk(new, Inode[fp[h].n])[k] = Walk(fat, Inode[fp[h].n])[k]
  /\ \A c \in Clusters : c # fp[h].cl => e[c] = d[c]

\* The cluster of an open file is in no other file's chain.
LEMMA OwnCluster ==
  ASSUME TypeOK, Filed, NEW h \in Handles, fp[h] # NULL, NEW n \in Files, n # fp[h].n,
         NEW k \in 0 .. EOC
  PROVE  Walk(tab.fat, Inode[n])[k] # fp[h].cl
<1>1. fp[h] \in FilesOf(clsz)
  BY TypeFacts
<1>2. fp[h].n \in Files /\ fp[h].cl \in Clusters /\ EOC \notin Clusters
  BY <1>1, Numbers DEF FilesOf
<1>3. PICK j \in 0 .. EOC : Walk(tab.fat, Inode[fp[h].n])[j] = fp[h].cl
  BY DEF Filed, OpenPlaced, Placed
<1>4. Inode[n] \in Heads /\ Inode[fp[h].n] \in Heads /\ Inode[fp[h].n] # Inode[n]
  BY <1>2, HeadOf
<1>5. Apart(tab.fat, Inode[fp[h].n], Inode[n], j, k)
  BY <1>4 DEF Filed, Sound
<1> QED BY <1>2, <1>3, <1>5 DEF Apart

LEMMA PlacesTold ==
  ASSUME TypeOK, Filed, NEW h \in Handles, fp[h] # NULL, NEW f, ToldAt(h, f),
         UNCHANGED << clsz, honest >>, StepAt(h, tab.fat, tab.fat', data, data'),
         NEW g \in Handles, g # h, fp'[g] # NULL
  PROVE  OpenPlaced(clsz, honest, tab.fat', data', fp'[g])
<1> DEFINE n == fp[g].n
           at == Walk(tab.fat, Inode[n])
           new == Walk(tab.fat', Inode[n])
<1>0. /\ fp[g] # NULL /\ fp[g] \in FilesOf(clsz) /\ clsz \in Nat \ {0} /\ honest \in BOOLEAN
      /\ tab.fat \in Table /\ EOC \in Nat /\ EOC \notin Clusters
  BY TypeFacts, Numbers DEF ToldAt
<1>1. n \in Files /\ fp[g].cl \in Clusters
  BY <1>0 DEF FilesOf
<1>2. PICK k \in 0 .. EOC : Placed(clsz, honest, at, data, fp[g], k)
  BY <1>0 DEF Filed, OpenPlaced
<1>3. at[k] = fp[g].cl
  BY <1>2 DEF Placed
<1>4. PICK m \in 0 .. EOC - 1 : Ends(at, m)
  BY <1>1, HeadOf DEF Filed, Sound
<1>5. \A j \in 0 .. k : at[j] \in Clusters /\ j \in 0 .. EOC
  <2> HIDE DEF at, n
  <2> QED BY <1>0, <1>1, <1>3, <1>4 DEF Ends
<1>6. CASE n = fp[h].n
  <2>1. fp'[g] = [fp[g] EXCEPT !.quiet = FALSE]
    BY <1>0, <1>6 DEF ToldAt
  <2>2. new[k] = at[k]
    BY <1>1, <1>3, <1>6 DEF StepAt
  <2>3. Placed(clsz, honest, new, data', fp'[g], k)
    <3> HIDE DEF new, at
    <3> QED BY <1>0, <1>2, <2>1, <2>2, PlacedDisturbed
  <2>4. fp'[g].n = n
    BY <1>0, <2>1 DEF FilesOf
  <2> QED BY <2>3, <2>4 DEF OpenPlaced
<1>7. CASE n # fp[h].n
  <2>1. fp'[g] = fp[g]
    BY <1>0, <1>7 DEF ToldAt
  <2>2. new = at
    BY <1>1, <1>7 DEF StepAt
  <2>3. \A j \in 0 .. k : data'[at[j]] = data[at[j]]
    <3>1. \A j \in 0 .. k : at[j] # fp[h].cl
      BY <1>1, <1>5, <1>7, OwnCluster
    <3> HIDE DEF at
    <3> QED BY <1>5, <3>1 DEF StepAt
  <2>4. Placed(clsz, honest, new, data', fp'[g], k)
    <3> HIDE DEF new, at
    <3> QED BY <1>0, <1>2, <2>1, <2>2, <2>3, PlacedKept
  <2> QED BY <2>1, <2>4 DEF OpenPlaced
<1> QED BY <1>6, <1>7

-----------------------------------------------------------------------------
\* Each call keeps the invariant.

\* A cluster that an open file goes on to is in use, and the end mark is no cluster.
LEMMA NextCluster ==
  ASSUME TypeOK, TableOK(tab), Linked(tab.fat), NEW c \in Clusters, After(tab.fat, c) # 0
  PROVE  LET t == Load(tab, SectorOf(c))
         IN  /\ TableOK(t) /\ t.fat = tab.fat
             /\ Ent(t, c) = After(tab.fat, c)
             /\ IF Ent(t, c) >= EOC THEN Ent(t, c) = EOC
                ELSE Ent(t, c) \in Clusters /\ After(tab.fat, Ent(t, c)) # 0
<1> DEFINE t == Load(tab, SectorOf(c))
<1>1. SectorOf(c) \in Sectors /\ c % PerSector \in Slots
  BY SectorInTable DEF Clusters
<1>2. TableOK(t) /\ t.cbufs = SectorOf(c) /\ t.fat = tab.fat
  BY <1>1, LoadOK
<1> HIDE DEF t
<1>3. Ent(t, c) = After(tab.fat, c)
  BY <1>2 DEF TableOK, Ent, After
<1>4. After(tab.fat, c) \in Clusters \cup {EOC}
  BY DEF Linked
<1>5. After(tab.fat, c) \in Clusters => After(tab.fat, After(tab.fat, c)) # 0
  BY DEF Linked
<1>6. \A e \in Clusters \cup {EOC} : IF e >= EOC THEN e = EOC ELSE e \in Clusters
  BY Numbers
<1> QED BY <1>2, <1>3, <1>4, <1>5, <1>6 DEF t

LEMMA OpenInv ==
  ASSUME FatIInv, NEW h \in Handles, NEW n \in Files, NEW m \in {"r", "w"}, fs_open(h, n, m)
  PROVE  FatIInv'
<1> DEFINE b == IF m = "r" THEN data[Inode[n]] ELSE Buffer(Junk)
           f == [n |-> n, m |-> m, idx |-> 0, cl |-> Inode[n], i |-> 0, log |-> << >>,
                 quiet |-> TRUE, buf |-> b]
<1>0. TypeOK /\ TableOK(tab) /\ Linked(tab.fat) /\ InUse /\ (found => Filed)
  BY DEF FatIInv
<1>1. fp' = [fp EXCEPT ![h] = f] /\ UNCHANGED << clsz, tab, data, len, writes, found, honest >>
  BY DEF fs_open
<1>2. /\ clsz \in Nat \ {0} /\ data \in [Clusters -> [0 .. clsz - 1 -> Bytes]]
      /\ MaxPos \in Nat /\ writes \in Nat
  BY <1>0, TypeFacts
<1>3. Inode[n] \in Clusters
  BY HeadOf
<1>4. f \in FilesOf(clsz)
  <2>1. b \in [0 .. clsz - 1 -> Bytes]
    BY <1>2, <1>3, BytesAre DEF Buffer
  <2>2. 0 \in 0 .. MaxPos /\ 0 \in 0 .. clsz /\ << >> \in Seq(Bytes)
    BY <1>2
  <2> HIDE DEF b
  <2> QED BY <1>3, <2>1, <2>2 DEF FilesOf
<1>5. f.n = n /\ f.m = m /\ f.idx = 0 /\ f.cl = Inode[n] /\ f.i = 0 /\ f.log = << >> /\ f.buf = b
  OBVIOUS
<1> HIDE DEF f
<1>6. OnlyAt(h, f)
  BY <1>0, <1>1, <1>4, FileAt
<1>7. TypeOK'
  <2>1. fp' \in [Handles -> OpenFile' \cup {NULL}]
    BY <1>1, <1>6 DEF OnlyAt, FilesOf, OpenFile
  <2>2. opens' \in 0 .. MaxOpens /\ got' \in Seq(Bytes)
    BY <1>0, BytesAre DEF fs_open, TypeOK
  <2> QED BY <1>0, <1>1, <2>1, <2>2 DEF TypeOK
<1>8. InUse'
  <2>1. After(tab.fat', f.cl) # 0 /\ f.idx <= writes'
    BY <1>0, <1>1, <1>2, <1>5 DEF Linked
  <2> QED BY <1>0, <1>1, <1>6, <2>1, InUseKept
<1>9. found => Filed'
  <2>1. Placed(clsz, honest, Walk(tab.fat, Inode[f.n]), data, f, 0)
    <3>1. Walk(tab.fat, Inode[n])[0] = Inode[n]
      BY <1>0, TypeFacts, HeadOf, WalkSteps
    <3>2. 0 = clsz * 0 + 0
      BY <1>2
    <3>3. Len(f.log) = 0 /\ 0 .. 0 - 1 = {}
      BY <1>5
    <3>4. Logged(clsz, Walk(tab.fat, Inode[f.n]), data, f, 0)
      BY <1>5, <3>3 DEF Logged
    <3> QED BY <1>5, <3>1, <3>2, <3>4 DEF Placed
  <2>2. OpenPlaced(clsz, honest, tab.fat, data, f)
    BY <2>1, Numbers DEF OpenPlaced
  <2> QED BY <1>0, <1>1, <1>6, <2>2, PlacesKept
<1> QED BY <1>0, <1>1, <1>7, <1>8, <1>9 DEF FatIInv

LEMMA ReadFacts ==
  ASSUME FatIInv, NEW h \in Handles, Reads(h)
  PROVE  /\ fp[h] # NULL /\ fp[h] \in FilesOf(clsz) /\ fp[h].m = "r"
         /\ fp[h].n \in Files /\ fp[h].cl \in Clusters /\ fp[h].idx \in 0 .. MaxPos
         /\ fp[h].i \in 0 .. clsz /\ fp[h].buf \in [0 .. clsz - 1 -> Bytes]
         /\ After(tab.fat, fp[h].cl) # 0
<1>1. fp[h] # NULL /\ fp[h].m = "r" /\ fp[h] \in FilesOf(clsz)
  BY TypeFacts DEF FatIInv, Reads
<1> QED BY <1>1 DEF FatIInv, InUse, FilesOf

\* A reader that took a byte of its buffer, and one that went on to the next cluster.
Read(f) == [f EXCEPT !.i = @ + 1, !.idx = @ + 1]

LEMMA ReadPlaced ==
  ASSUME NEW c \in Nat \ {0}, NEW ok \in BOOLEAN, NEW at, NEW d, NEW k \in Nat,
         NEW f \in FilesOf(c), f.m = "r", f.i < c, f.idx < MaxPos, MaxPos \in Nat
  PROVE  /\ Read(f) \in FilesOf(c)
         /\ Read(f).n = f.n /\ Read(f).m = "r" /\ Read(f).cl = f.cl
         /\ Placed(c, ok, at, d, f, k) => Placed(c, ok, at, d, Read(f), k)
<1> DEFINE g == Read(f)
<1>1. /\ g.n = f.n /\ g.m = "r" /\ g.idx = f.idx + 1 /\ g.cl = f.cl /\ g.i = f.i + 1
      /\ g.buf = f.buf /\ g.quiet = f.quiet
  BY DEF Read, FilesOf
<1>2. f.idx \in 0 .. MaxPos /\ f.i \in 0 .. c
  BY DEF FilesOf
<1>3. g \in FilesOf(c)
  <2>1. f.idx + 1 \in 0 .. MaxPos /\ f.i + 1 \in 0 .. c
    BY <1>2
  <2> QED BY <2>1 DEF Read, FilesOf
<1> HIDE DEF g
<1>4. ASSUME Placed(c, ok, at, d, f, k) PROVE g.idx = c * k + g.i
  <2>1. f.idx = c * k + f.i /\ c * k \in Nat
    BY <1>4 DEF Placed
  <2> QED BY <1>1, <1>2, <2>1
<1>5. Placed(c, ok, at, d, f, k) => Placed(c, ok, at, d, g, k)
  BY <1>1, <1>4 DEF Placed
<1> QED BY <1>1, <1>3, <1>5 DEF g

LEMMA TakenPlaced ==
  ASSUME NEW ok \in BOOLEAN, NEW at, NEW k \in Nat, NEW cl \in Clusters, TypeOK,
         NEW f \in FilesOf(clsz), f.m = "r", f.i = clsz, f.idx < MaxPos
  PROVE  /\ Taken(f, cl) \in FilesOf(clsz)
         /\ Taken(f, cl).n = f.n /\ Taken(f, cl).m = "r" /\ Taken(f, cl).cl = cl
         /\ Taken(f, cl).buf = data[cl]
         /\ Placed(clsz, ok, at, data, f, k) /\ at[k + 1] = cl
              => Placed(clsz, ok, at, data, Taken(f, cl), k + 1)
<1> DEFINE g == Taken(f, cl)
<1>0. /\ clsz \in Nat \ {0} /\ MaxPos \in Nat
      /\ data \in [Clusters -> [0 .. clsz - 1 -> Bytes]]
  BY TypeFacts
<1>1. /\ g.n = f.n /\ g.m = "r" /\ g.idx = f.idx + 1 /\ g.cl = cl /\ g.i = 1
      /\ g.buf = data[cl] /\ g.quiet = f.quiet
  BY DEF Taken, FilesOf
<1>2. f.idx \in 0 .. MaxPos /\ f.i \in 0 .. clsz
  BY DEF FilesOf
<1>3. g \in FilesOf(clsz)
  <2>1. f.idx + 1 \in 0 .. MaxPos /\ 1 \in 0 .. clsz /\ data[cl] \in [0 .. clsz - 1 -> Bytes]
    BY <1>0, <1>2
  <2> QED BY <2>1 DEF Taken, FilesOf
<1> HIDE DEF g
<1>4. ASSUME Placed(clsz, ok, at, data, f, k) PROVE g.idx = clsz * (k + 1) + g.i
  <2>1. f.idx = clsz * k + clsz /\ clsz * k \in Nat
    BY <1>0, <1>4 DEF Placed
  <2>2. clsz * (k + 1) = clsz * k + clsz
    BY <1>0
  <2> QED BY <1>0, <1>1, <1>2, <2>1, <2>2
<1>5. Placed(clsz, ok, at, data, f, k) /\ at[k + 1] = cl => Placed(clsz, ok, at, data, g, k + 1)
  BY <1>1, <1>4 DEF Placed
<1> QED BY <1>1, <1>3, <1>5 DEF g

\* The cluster after that of an open file is at the next place of its chain.
LEMMA NextPlace ==
  ASSUME TypeOK, Filed, NEW h \in Handles, fp[h] # NULL
  PROVE  \E k \in 0 .. EOC, m \in 0 .. EOC - 1 :
           /\ Placed(clsz, honest, Walk(tab.fat, Inode[fp[h].n]), data, fp[h], k)
           /\ Ends(Walk(tab.fat, Inode[fp[h].n]), m)
           /\ k \in 0 .. m /\ k + 1 \in 0 .. EOC
           /\ Walk(tab.fat, Inode[fp[h].n])[k + 1] = After(tab.fat, fp[h].cl)
           /\ IF k = m THEN After(tab.fat, fp[h].cl) = EOC ELSE After(tab.fat, fp[h].cl) \in Clusters
<1> DEFINE n == fp[h].n
           at == Walk(tab.fat, Inode[n])
<1>1. fp[h] \in FilesOf(clsz) /\ tab.fat \in Table
  BY TypeFacts
<1>2. n \in Files /\ fp[h].cl \in Clusters
  BY <1>1 DEF FilesOf
<1>3. PICK k \in 0 .. EOC : Placed(clsz, honest, at, data, fp[h], k)
  BY DEF Filed, OpenPlaced
<1>4. PICK m \in 0 .. EOC - 1 : Ends(at, m)
  BY <1>2, HeadOf DEF Filed, Sound
<1>5. at[k] = fp[h].cl
  BY <1>3 DEF Placed
<1>6. Inode[n] \in Cell
  BY <1>2, HeadOf
<1>7. /\ k \in 0 .. m /\ k + 1 \in 0 .. EOC /\ at[k + 1] = After(tab.fat, at[k])
      /\ IF k = m THEN After(tab.fat, at[k]) = EOC ELSE After(tab.fat, at[k]) \in Clusters
  <2>1. at[k] \in Clusters
    BY <1>2, <1>5
  <2> QED BY <1>1, <1>4, <1>6, <2>1, NextInChain
<1> HIDE DEF at
<1> QED BY <1>3, <1>4, <1>5, <1>7 DEF at

LEMMA ReadInv ==
  ASSUME FatIInv, NEW h \in Handles, fs_read(h)
  PROVE  FatIInv'
<1> DEFINE f == fp[h]
           t == Load(tab, SectorOf(f.cl))
           c == Ent(t, f.cl)
<1>0. TypeOK /\ TableOK(tab) /\ Linked(tab.fat) /\ InUse /\ (found => Filed)
  BY DEF FatIInv
<1>1. /\ fp[h] # NULL /\ f \in FilesOf(clsz) /\ f.m = "r"
      /\ f.n \in Files /\ f.cl \in Clusters /\ f.idx \in 0 .. MaxPos
      /\ f.i \in 0 .. clsz /\ f.buf \in [0 .. clsz - 1 -> Bytes]
      /\ After(tab.fat, f.cl) # 0
  BY ReadFacts DEF fs_read
<1>2. UNCHANGED << clsz, data, len, writes, opens, found, honest >>
  BY DEF fs_read
<1>3. /\ clsz \in Nat \ {0} /\ data \in [Clusters -> [0 .. clsz - 1 -> Bytes]]
      /\ MaxPos \in Nat /\ len \in [Files -> 0 .. MaxPos] /\ honest \in BOOLEAN
      /\ fp \in [Handles -> FilesOf(clsz) \cup {NULL}]
  BY <1>0, TypeFacts
<1>4. /\ TableOK(t) /\ t.fat = tab.fat /\ c = After(tab.fat, f.cl)
      /\ IF c >= EOC THEN c = EOC ELSE c \in Clusters /\ After(tab.fat, c) # 0
  BY <1>0, <1>1, NextCluster
<1> HIDE DEF t, c
<1>5. ASSUME tab' \in {tab, t}, NEW g \in FilesOf(clsz), OnlyAt(h, g), got' \in Seq(Bytes),
             After(tab.fat, g.cl) # 0, g.m = "r",
             Filed => OpenPlaced(clsz, honest, tab.fat, data, g)
      PROVE  FatIInv'
  <2>1. TableOK(tab') /\ tab'.fat = tab.fat
    BY <1>0, <1>4, <1>5
  <2>2. TypeOK'
    <3>1. fp' \in [Handles -> OpenFile' \cup {NULL}]
      BY <1>2, <1>5 DEF OnlyAt, FilesOf, OpenFile
    <3>2. tab' \in [fat : [Sectors -> [Slots -> Entries \cup {EOC}]],
                    cbufs : Sectors, cbuf : [Slots -> Entries \cup {EOC}]]
      BY <2>1 DEF TableOK, Cell
    <3> QED BY <1>0, <1>2, <1>5, <3>1, <3>2 DEF TypeOK
  <2>3. InUse'
    BY <1>0, <1>2, <1>5, <2>1, InUseKept
  <2>4. found => Filed'
    BY <1>0, <1>2, <1>5, <2>1, PlacesKept
  <2> QED BY <1>0, <1>2, <2>1, <2>2, <2>3, <2>4 DEF FatIInv
<1>6. ASSUME tab' \in {tab, t}, UNCHANGED fp, got' = << >> PROVE FatIInv'
  <2>1. OnlyAt(h, f)
    BY <1>3, <1>6 DEF OnlyAt
  <2>2. Filed => OpenPlaced(clsz, honest, tab.fat, data, f)
    BY <1>1 DEF Filed
  <2>3. got' \in Seq(Bytes)
    BY <1>6
  <2> QED BY <1>1, <1>5, <1>6, <2>1, <2>2, <2>3
<1>7. CASE /\ f.idx < len[f.n] /\ AtEnd(f) /\ tab' = t /\ ~ (c >= EOC)
           /\ fp' = [fp EXCEPT ![h] = Taken(f, c)] /\ got' = << fp'[h].buf[0] >>
  <2> DEFINE g == Taken(f, c)
  <2>1. c \in Clusters /\ f.i = clsz /\ f.idx < MaxPos
    BY <1>1, <1>3, <1>4, <1>7 DEF AtEnd
  <2>2. /\ g \in FilesOf(clsz) /\ g.n = f.n /\ g.m = "r" /\ g.cl = c /\ g.buf = data[c]
        /\ \A k \in Nat : \A at : Placed(clsz, honest, at, data, f, k) /\ at[k + 1] = c
             => Placed(clsz, honest, at, data, g, k + 1)
    BY <1>0, <1>1, <1>3, <2>1, TakenPlaced
  <2> HIDE DEF g
  <2>3. OnlyAt(h, g)
    BY <1>0, <1>7, <2>2, FileAt DEF g
  <2>4. got' \in Seq(Bytes)
    <3>1. data[c][0] \in Bytes
      BY <1>3, <2>1
    <3> QED BY <1>7, <2>2, <2>3, <3>1 DEF OnlyAt
  <2>5. ASSUME Filed PROVE OpenPlaced(clsz, honest, tab.fat, data, g)
    <3>1. PICK k \in 0 .. EOC : /\ Placed(clsz, honest, Walk(tab.fat, Inode[f.n]), data, f, k)
                                /\ k + 1 \in 0 .. EOC
                                /\ Walk(tab.fat, Inode[f.n])[k + 1] = c
      BY <1>0, <1>1, <1>4, <2>5, NextPlace
    <3>2. k \in Nat
      BY Numbers
    <3> QED BY <2>2, <3>1, <3>2 DEF OpenPlaced
  <2> QED BY <1>4, <1>5, <1>7, <2>1, <2>2, <2>3, <2>4, <2>5
<1>8. CASE /\ f.idx < len[f.n] /\ ~ AtEnd(f) /\ got' = << f.buf[f.i] >> /\ UNCHANGED tab
           /\ fp' = [fp EXCEPT ![h].i = @ + 1, ![h].idx = @ + 1]
  <2> DEFINE g == Read(f)
  <2>1. f.i < clsz /\ f.idx < MaxPos
    BY <1>1, <1>3, <1>8 DEF AtEnd
  <2>2. /\ g \in FilesOf(clsz) /\ g.n = f.n /\ g.m = "r" /\ g.cl = f.cl
        /\ \A k \in Nat : \A at : Placed(clsz, honest, at, data, f, k) => Placed(clsz, honest, at, data, g, k)
    BY <1>1, <1>3, <2>1, ReadPlaced
  <2>3. fp' = [fp EXCEPT ![h] = g]
    BY <1>3, <1>8 DEF Read
  <2> HIDE DEF g
  <2>4. OnlyAt(h, g)
    BY <1>0, <2>2, <2>3, FileAt
  <2>5. got' \in Seq(Bytes)
    <3>1. f.buf[f.i] \in Bytes
      BY <1>1, <1>3, <2>1
    <3> QED BY <1>8, <3>1
  <2>6. ASSUME Filed PROVE OpenPlaced(clsz, honest, tab.fat, data, g)
    <3>1. PICK k \in 0 .. EOC : Placed(clsz, honest, Walk(tab.fat, Inode[f.n]), data, f, k)
      BY <1>1, <2>6 DEF Filed, OpenPlaced
    <3>2. k \in Nat
      BY Numbers
    <3> QED BY <2>2, <3>1, <3>2 DEF OpenPlaced
  <2> QED BY <1>1, <1>5, <1>8, <2>2, <2>4, <2>5, <2>6
<1> QED BY <1>6, <1>7, <1>8 DEF fs_read, t, c

\* A chain has no less room after a step than before.
LEMMA RoomKept ==
  ASSUME TypeOK, NEW h \in Handles, NEW new \in Table, NEW e, Sound(tab.fat), Sound(new),
         StepAt(h, tab.fat, new, data, e), NEW n \in Files
  PROVE  RoomIn(tab.fat, n, clsz) <= RoomIn(new, n, clsz)
<1>0. clsz \in Nat \ {0} /\ tab.fat \in Table /\ EOC \in Nat /\ EOC \notin Clusters
  BY TypeFacts, Numbers
<1>1. Inode[n] \in Heads /\ Inode[n] \in Cell
  BY HeadOf
<1>2. PICK m \in 0 .. EOC - 1 : Ends(Walk(tab.fat, Inode[n]), m)
  BY <1>1 DEF Sound
<1>3. PICK j \in 0 .. EOC - 1 : Ends(Walk(new, Inode[n]), j)
  BY <1>1 DEF Sound
<1>4. m <= j
  <2>1. m \in 0 .. EOC /\ Walk(tab.fat, Inode[n])[m] \in Clusters
    BY <1>0, <1>2 DEF Ends
  <2>2. Walk(new, Inode[n])[m] = Walk(tab.fat, Inode[n])[m]
    BY <2>1 DEF StepAt
  <2> QED BY <1>0, <1>3, <2>1, <2>2 DEF Ends
<1>5. /\ RoomIn(tab.fat, n, clsz) = clsz * (m + 1)
      /\ RoomIn(new, n, clsz) = clsz * (j + 1)
  BY <1>0, <1>1, <1>2, <1>3, ChainRoom DEF RoomIn
<1>6. clsz * (m + 1) <= clsz * (j + 1)
  <2>1. PICK x \in Nat : j + 1 = (m + 1) + x
    <3>1. j - m \in Nat /\ j + 1 = (m + 1) + (j - m)
      BY <1>0, <1>4
    <3> QED BY <3>1
  <2>2. clsz * (j + 1) = clsz * (m + 1) + clsz * x /\ clsz * x \in Nat /\ clsz * (m + 1) \in Nat
    BY <1>0, <2>1
  <2> QED BY <2>2
<1> QED BY <1>5, <1>6

LEMMA UnusedCluster ==
  ASSUME NEW t, NEW p \in Unused(t)
  PROVE  p \in Clusters
BY FatAssumption DEF Unused

LEMMA LinkedGrown ==
  ASSUME NEW fat \in Table, NEW new \in Table, NEW cl \in Clusters, NEW p \in Clusters,
         Linked(fat), Grown(fat, new, cl, p)
  PROVE  /\ Linked(new)
         /\ \A c \in Clusters : After(fat, c) # 0 => After(new, c) # 0
         /\ After(new, p) # 0
<1>0. EOC \in Nat /\ EOC # 0 /\ EOC \notin Clusters /\ 0 \notin Clusters
  BY Numbers
<1>1. \A c \in Clusters : After(fat, c) # 0 => After(new, c) # 0
  BY <1>0 DEF Grown
<1>2. \A c \in Clusters :
        \/ c = p /\ After(new, c) = EOC
        \/ c # p /\ After(new, c) = p
        \/ After(new, c) = After(fat, c)
  BY DEF Grown
<1>3. After(new, p) = EOC
  BY DEF Grown
<1>4. \A n \in Files : After(new, Inode[n]) # 0
  BY <1>1, HeadOf DEF Linked
<1>5. ASSUME NEW c \in Clusters
      PROVE  /\ After(new, c) \in Clusters \cup {0, EOC}
             /\ After(new, c) \in Clusters => After(new, After(new, c)) # 0
  <2>1. CASE After(new, c) = EOC
    BY <1>0, <2>1
  <2>2. CASE After(new, c) = p
    BY <1>0, <1>3, <2>2
  <2>3. CASE After(new, c) = After(fat, c)
    <3>1. /\ After(fat, c) \in Clusters \cup {0, EOC}
          /\ After(fat, c) \in Clusters => After(fat, After(fat, c)) # 0
      BY DEF Linked
    <3> QED BY <1>1, <2>3, <3>1
  <2> QED BY <1>2, <2>1, <2>2, <2>3
<1> QED BY <1>0, <1>1, <1>3, <1>4, <1>5 DEF Linked

LEMMA WriteFacts ==
  ASSUME FatIInv, NEW h \in Handles, Writes(h)
  PROVE  /\ fp[h] # NULL /\ fp[h] \in FilesOf(clsz) /\ fp[h].m = "w"
         /\ fp[h].n \in Files /\ fp[h].cl \in Clusters /\ fp[h].idx \in 0 .. MaxPos
         /\ fp[h].i \in 0 .. clsz /\ fp[h].buf \in [0 .. clsz - 1 -> Bytes]
         /\ After(tab.fat, fp[h].cl) # 0
         /\ honest => fp[h].idx <= writes
<1>1. fp[h] # NULL /\ fp[h].m = "w" /\ fp[h] \in FilesOf(clsz)
  BY TypeFacts DEF FatIInv, Writes
<1> QED BY <1>1 DEF FatIInv, InUse, FilesOf

\* A write of no bytes may change the position only.
LEMMA MovedPlaced ==
  ASSUME NEW c \in Nat \ {0}, NEW f \in FilesOf(c), NEW pos \in 0 .. MaxPos
  PROVE  LET g == [f EXCEPT !.idx = pos]
         IN  /\ g \in FilesOf(c)
             /\ g.n = f.n /\ g.m = f.m /\ g.cl = f.cl /\ g.idx = pos
             /\ \A ok \in BOOLEAN : \A at, d, k :
                  Placed(c, ok, at, d, f, k) /\ f.m = "w" /\ (ok => pos = f.idx)
                    => Placed(c, ok, at, d, g, k)
<1> DEFINE g == [f EXCEPT !.idx = pos]
<1>1. /\ g \in FilesOf(c)
      /\ g.n = f.n /\ g.m = f.m /\ g.idx = pos /\ g.cl = f.cl /\ g.i = f.i
      /\ g.buf = f.buf /\ g.quiet = f.quiet /\ g.log = f.log
  BY DEF FilesOf
<1> HIDE DEF g
<1>2. ASSUME NEW ok \in BOOLEAN, NEW at, NEW d, NEW k,
             Placed(c, ok, at, d, f, k), f.m = "w", ok => pos = f.idx
      PROVE  Placed(c, ok, at, d, g, k)
  <2>1. ASSUME f.quiet, ok PROVE Logged(c, at, d, g, k)
    <3>1. Logged(c, at, d, f, k) /\ g.idx = f.idx
      BY <1>1, <1>2, <2>1 DEF Placed
    <3> QED BY <1>1, <3>1 DEF Logged
  <2> QED BY <1>1, <1>2, <2>1 DEF Placed
<1> QED BY <1>1, <1>2 DEF g

LEMMA WriteNoneInv ==
  ASSUME FatIInv, NEW h \in Handles, Writes(h), NEW pos \in Positions(fp[h], 0),
         fp' = [fp EXCEPT ![h].idx = pos], got' = << >>,
         UNCHANGED << clsz, tab, data, len, writes, opens, found, honest >>
  PROVE  FatIInv'
<1> DEFINE f == fp[h]
           g == [f EXCEPT !.idx = pos]
<1>0. TypeOK /\ TableOK(tab) /\ Linked(tab.fat) /\ InUse /\ (found => Filed)
  BY DEF FatIInv
<1>1. /\ fp[h] # NULL /\ f \in FilesOf(clsz) /\ f.m = "w" /\ f.cl \in Clusters
      /\ f.idx \in 0 .. MaxPos /\ After(tab.fat, f.cl) # 0 /\ (honest => f.idx <= writes)
  BY WriteFacts
<1>2. /\ clsz \in Nat \ {0} /\ MaxPos \in Nat /\ honest \in BOOLEAN
      /\ fp \in [Handles -> FilesOf(clsz) \cup {NULL}]
  BY <1>0, TypeFacts
<1>3. pos \in 0 .. MaxPos /\ (honest => pos = f.idx)
  BY <1>1, <1>2, FatAssumption DEF Positions
<1>4. /\ g \in FilesOf(clsz) /\ g.n = f.n /\ g.m = "w" /\ g.cl = f.cl /\ g.idx = pos
      /\ \A at, d, k : Placed(clsz, honest, at, d, f, k) => Placed(clsz, honest, at, d, g, k)
  BY <1>1, <1>2, <1>3, MovedPlaced
<1>5. fp' = [fp EXCEPT ![h] = g]
  BY <1>2
<1> HIDE DEF g
<1>6. OnlyAt(h, g)
  BY <1>0, <1>4, <1>5, FileAt
<1>7. TypeOK'
  <2>1. fp' \in [Handles -> OpenFile' \cup {NULL}]
    BY <1>6 DEF OnlyAt, FilesOf, OpenFile
  <2>2. got' \in Seq(Bytes)
    OBVIOUS
  <2> QED BY <1>0, <2>1, <2>2 DEF TypeOK
<1>8. InUse'
  <2>1. After(tab.fat', g.cl) # 0 /\ (honest => g.idx <= writes')
    BY <1>1, <1>3, <1>4
  <2> QED BY <1>0, <1>6, <2>1, InUseKept
<1>9. found => Filed'
  <2>1. Filed => OpenPlaced(clsz, honest, tab.fat, data, g)
    BY <1>1, <1>4 DEF Filed, OpenPlaced
  <2> QED BY <1>0, <1>6, <2>1, PlacesKept
<1> QED BY <1>0, <1>7, <1>8, <1>9 DEF FatIInv

\* A byte stored, in this cluster or in the next.
LEMMA StoreInv ==
  ASSUME FatIInv, NEW h \in Handles, Writes(h), writes < MaxWrites, writes' = writes + 1,
         NEW cl \in Clusters, NEW i \in 0 .. clsz - 1, NEW pos \in Positions(fp[h], 1),
         fp' = Disturb(h, Stored(fp[h], cl, i, writes + 1, pos)),
         got' = << >>, UNCHANGED << clsz, len, opens, honest >>,
         data' \in {data, Flush(fp[h])},
         TableOK(tab'), Linked(tab.fat'), After(tab.fat', cl) # 0,
         \A c \in Clusters : After(tab.fat, c) # 0 => After(tab.fat', c) # 0,
         found' \in BOOLEAN, found' => found,
         found' => /\ Sound(tab.fat') /\ StepAt(h, tab.fat, tab.fat', data, data')
                   /\ OpenPlaced(clsz, honest, tab.fat', data', Stored(fp[h], cl, i, writes + 1, pos))
  PROVE  FatIInv'
<1> DEFINE f == fp[h]
           b == writes + 1
           g == Stored(f, cl, i, b, pos)
<1>0. TypeOK /\ TableOK(tab) /\ Linked(tab.fat) /\ InUse /\ (found => Filed)
  BY DEF FatIInv
<1>1. /\ f # NULL /\ f \in FilesOf(clsz) /\ f.m = "w" /\ f.cl \in Clusters
      /\ f.idx \in 0 .. MaxPos /\ f.buf \in [0 .. clsz - 1 -> Bytes] /\ (honest => f.idx <= writes)
  BY WriteFacts
<1>2. /\ clsz \in Nat \ {0} /\ MaxPos \in Nat /\ honest \in BOOLEAN
      /\ data \in [Clusters -> [0 .. clsz - 1 -> Bytes]]
      /\ writes \in 0 .. MaxWrites /\ MaxWrites \in Nat
  BY <1>0, TypeFacts
<1>3. pos \in 0 .. MaxPos /\ (honest => pos = f.idx + 1)
  BY <1>1, <1>2, FatAssumption DEF Positions
<1>4. b \in Bytes /\ b \in 0 .. MaxWrites
  BY <1>2, BytesAre
<1>5. StoredAs(g, clsz, f, cl, i, b, pos)
  BY <1>1, <1>2, <1>3, <1>4, StoredFields
<1>6. g.m = "w" /\ g.cl = cl /\ g.idx = pos
  BY <1>1, <1>5 DEF StoredAs
<1>7. g \in FilesOf(clsz)
  BY <1>5 DEF StoredAs
<1> HIDE DEF g
<1>8. ToldAt(h, g)
  BY <1>0, <1>7, DisturbAt DEF g
<1>9. TypeOK'
  <2>1. fp' \in [Handles -> OpenFile' \cup {NULL}]
    BY <1>8 DEF ToldAt, FilesOf, OpenFile
  <2>2. data' \in [Clusters -> [0 .. clsz' - 1 -> Bytes]]
    BY <1>1, <1>2 DEF Flush
  <2>3. tab' \in [fat : [Sectors -> [Slots -> Entries \cup {EOC}]],
                  cbufs : Sectors, cbuf : [Slots -> Entries \cup {EOC}]]
    BY DEF TableOK, Cell
  <2>4. got' \in Seq(Bytes) /\ writes' \in 0 .. MaxWrites
    BY <1>4
  <2> QED BY <1>0, <2>1, <2>2, <2>3, <2>4 DEF TypeOK
<1>10. InUse'
  <2>1. After(tab.fat', g.cl) # 0
    BY <1>6
  <2>2. honest => g.idx <= writes'
    BY <1>1, <1>2, <1>3, <1>6
  <2> QED BY <1>0, <1>8, <2>1, <2>2, InUseKept
<1>11. ASSUME found' PROVE Filed'
  <2>1. /\ Filed /\ Sound(tab.fat') /\ StepAt(h, tab.fat, tab.fat', data, data')
        /\ OpenPlaced(clsz, honest, tab.fat', data', g)
    BY <1>0, <1>11 DEF g
  <2>2. tab.fat' \in Table /\ Sound(tab.fat)
    BY <2>1 DEF TableOK, Table, Filed
  <2>3. ASSUME NEW o \in Handles, fp'[o] # NULL
        PROVE  OpenPlaced(clsz', honest', tab.fat', data', fp'[o])
    <3>1. CASE o = h
      <4>1. fp'[o] = g
        BY <1>8, <3>1 DEF ToldAt
      <4> QED BY <2>1, <4>1
    <3>2. CASE o # h
      <4>1. OpenPlaced(clsz, honest, tab.fat', data', fp'[o])
        BY <1>0, <1>1, <1>8, <2>1, <2>3, <3>2, PlacesTold
      <4> QED BY <4>1
    <3> QED BY <3>1, <3>2
  <2>4. honest' => \A n \in Files : len'[n] <= RoomIn(tab.fat', n, clsz')
    <3> SUFFICES ASSUME honest, NEW n \in Files PROVE len[n] <= RoomIn(tab.fat', n, clsz)
      OBVIOUS
    <3>1. len[n] <= RoomIn(tab.fat, n, clsz)
      BY <2>1 DEF Filed, Room
    <3>2. RoomIn(tab.fat, n, clsz) <= RoomIn(tab.fat', n, clsz)
      BY <1>0, <2>1, <2>2, RoomKept
    <3>3. /\ len[n] \in Nat
          /\ RoomIn(tab.fat, n, clsz) \in Nat /\ RoomIn(tab.fat', n, clsz) \in Nat
      <4>1. \A fat \in Table : Sound(fat) => RoomIn(fat, n, clsz) \in Nat
        <5> SUFFICES ASSUME NEW fat \in Table, Sound(fat) PROVE RoomIn(fat, n, clsz) \in Nat
          OBVIOUS
        <5>1. Inode[n] \in Heads /\ Inode[n] \in Cell
          BY HeadOf
        <5>2. PICK m \in 0 .. EOC - 1 : Ends(Walk(fat, Inode[n]), m)
          BY <5>1 DEF Sound
        <5>3. RoomIn(fat, n, clsz) = clsz * (m + 1) /\ m + 1 \in Nat
          BY <5>1, <5>2, ChainRoom DEF RoomIn
        <5> QED BY <1>2, <5>3
      <4>2. tab.fat \in Table /\ len \in [Files -> 0 .. MaxPos]
        BY <1>0, TypeFacts
      <4> QED BY <1>2, <2>1, <2>2, <4>1, <4>2
    <3> QED BY <3>1, <3>2, <3>3
  <2> QED BY <2>1, <2>3, <2>4 DEF Filed, Room
<1> QED BY <1>9, <1>10, <1>11 DEF FatIInv

\* The table after a chain has grown.
LEMMA ExtendGrown ==
  ASSUME NEW t, TableOK(t), NEW cl \in Clusters, NEW p \in Clusters
  PROVE  /\ TableOK(Extend(t, cl, p)) /\ Extend(t, cl, p).fat \in Table
         /\ Grown(t.fat, Extend(t, cl, p).fat, cl, p)
<1>1. cl \in Entries /\ p \in Entries /\ Clusters \subseteq Entries
  BY DEF Clusters
<1>2. TableOK(Extend(t, cl, p))
  BY <1>1, ExtendOK
<1>3. Grown(t.fat, Extend(t, cl, p).fat, cl, p)
  BY <1>1, ExtendAfter DEF Grown
<1> QED BY <1>2, <1>3 DEF TableOK, Table

\* The table and the chains do not change, and the data only where the buffer goes.
LEMMA SameTable ==
  ASSUME NEW h, NEW fat, NEW d, NEW e, \A c \in Clusters : c # fp[h].cl => e[c] = d[c]
  PROVE  StepAt(h, fat, fat, d, e)
BY DEF StepAt

LEMMA WriteInv ==
  ASSUME FatIInv, NEW h \in Handles, fs_write(h)
  PROVE  FatIInv'
<1> DEFINE f == fp[h]
           b == writes + 1
           t == Load(tab, SectorOf(f.cl))
           c == Ent(t, f.cl)
           at == Walk(tab.fat, Inode[f.n])
<1>0. TypeOK /\ TableOK(tab) /\ Linked(tab.fat) /\ InUse /\ (found => Filed) /\ Writes(h)
  BY DEF FatIInv, fs_write
<1>1. /\ f # NULL /\ f \in FilesOf(clsz) /\ f.m = "w" /\ f.n \in Files /\ f.cl \in Clusters
      /\ f.idx \in 0 .. MaxPos /\ f.buf \in [0 .. clsz - 1 -> Bytes]
      /\ f.i \in 0 .. clsz /\ After(tab.fat, f.cl) # 0
  BY <1>0, WriteFacts
<1>2. /\ clsz \in Nat \ {0} /\ MaxPos \in Nat /\ honest \in BOOLEAN
      /\ data \in [Clusters -> [0 .. clsz - 1 -> Bytes]] /\ tab.fat \in Table
      /\ writes \in 0 .. MaxWrites /\ MaxWrites \in Nat /\ found \in BOOLEAN
  BY <1>0, TypeFacts DEF TypeOK
<1>3. got' = << >> /\ UNCHANGED << clsz, len, opens, honest >>
  BY DEF fs_write
<1>4. /\ TableOK(t) /\ t.fat = tab.fat /\ c = After(tab.fat, f.cl)
      /\ IF c >= EOC THEN c = EOC ELSE c \in Clusters /\ After(tab.fat, c) # 0
  BY <1>0, <1>1, NextCluster
<1>5. b \in Bytes \/ ~ (writes < MaxWrites)
  BY <1>2, BytesAre
<1>6. \A pos \in Positions(f, 1) : pos \in 0 .. MaxPos \/ ~ (writes < MaxWrites)
  <2>1. honest => f.idx <= writes
    BY <1>0, WriteFacts
  <2> QED BY <1>1, <1>2, <2>1, FatAssumption DEF Positions
<1>7. \A pos \in Positions(f, 1) : honest => pos = f.idx + 1
  BY DEF Positions
<1>8. ASSUME Filed
      PROVE  \E k \in 0 .. EOC, m \in 0 .. EOC - 1 :
               /\ Placed(clsz, honest, at, data, f, k) /\ Ends(at, m)
               /\ k \in 0 .. m /\ k \in Nat /\ k + 1 \in 0 .. EOC /\ at[k + 1] = c
               /\ IF k = m THEN c = EOC ELSE c \in Clusters
               /\ \A j \in 0 .. k : at[j] \in Clusters /\ (at[j] = at[k] => j = k)
  <2>1. PICK k \in 0 .. EOC, m \in 0 .. EOC - 1 :
          /\ Placed(clsz, honest, at, data, f, k) /\ Ends(at, m)
          /\ k \in 0 .. m /\ k + 1 \in 0 .. EOC /\ at[k + 1] = After(tab.fat, f.cl)
          /\ IF k = m THEN After(tab.fat, f.cl) = EOC ELSE After(tab.fat, f.cl) \in Clusters
    BY <1>0, <1>1, <1>8, NextPlace
  <2>2. Inode[f.n] \in Cell /\ EOC \in Nat
    BY <1>1, HeadOf, Numbers
  <2>3. \A j \in 0 .. k : j \in 0 .. m /\ j \in 0 .. EOC /\ j <= m
    BY <2>1, <2>2
  <2>4. \A j \in 0 .. k : at[j] = at[k] => j = k
    <3> HIDE DEF f
    <3> QED BY <1>2, <2>1, <2>2, <2>3, NoneTwice
  <2>5. \A j \in 0 .. k : at[j] \in Clusters
    <3> HIDE DEF at
    <3> QED BY <2>1, <2>3 DEF Ends
  <2>6. k \in Nat
    BY <2>2
  <2> HIDE DEF at, c, f
  <2> QED BY <1>4, <2>1, <2>4, <2>5, <2>6
<1> HIDE DEF t, c
<1>9. ASSUME NEW pos \in Positions(f, 0), fp' = [fp EXCEPT ![h].idx = pos],
             UNCHANGED << tab, data, writes, found >>
      PROVE  FatIInv'
  BY <1>0, <1>3, <1>9, WriteNoneInv
<1>10. ASSUME writes < MaxWrites, writes' = b, ~ AtEnd(f), UNCHANGED << tab, data, found >>,
              NEW pos \in Positions(f, 1), fp' = Disturb(h, Stored(f, f.cl, f.i, b, pos))
       PROVE  FatIInv'
  <2>1. f.i < clsz /\ f.i \in 0 .. clsz - 1
    BY <1>1, <1>2, <1>10 DEF AtEnd
  <2>2. ASSUME Filed
        PROVE  /\ Sound(tab.fat) /\ StepAt(h, tab.fat, tab.fat, data, data)
               /\ OpenPlaced(clsz, honest, tab.fat, data, Stored(f, f.cl, f.i, b, pos))
    <3>1. PICK k \in 0 .. EOC : Placed(clsz, honest, at, data, f, k) /\ k \in Nat
      BY <1>8, <2>2
    <3>2. Placed(clsz, honest, at, data, Stored(f, f.cl, f.i, b, pos), k)
      <4> HIDE DEF at, f
      <4> QED BY <1>1, <1>2, <1>5, <1>6, <1>7, <1>10, <2>1, <3>1, StoredPlaced
    <3>3. Stored(f, f.cl, f.i, b, pos).n = f.n
      BY <1>1 DEF Stored, FilesOf
    <3>4. OpenPlaced(clsz, honest, tab.fat, data, Stored(f, f.cl, f.i, b, pos))
      BY <3>2, <3>3 DEF OpenPlaced
    <3> QED BY <2>2, <3>4, SameTable DEF Filed
  <2>3. /\ TableOK(tab') /\ Linked(tab.fat') /\ After(tab.fat', f.cl) # 0
        /\ \A e \in Clusters : After(tab.fat, e) # 0 => After(tab.fat', e) # 0
        /\ found' \in BOOLEAN /\ (found' => found)
    BY <1>0, <1>1, <1>2, <1>10
  <2>4. found' => /\ Sound(tab.fat') /\ StepAt(h, tab.fat, tab.fat', data, data')
                  /\ OpenPlaced(clsz, honest, tab.fat', data', Stored(f, f.cl, f.i, b, pos))
    BY <1>0, <1>10, <2>2
  <2> QED BY <1>0, <1>1, <1>3, <1>10, <2>1, <2>3, <2>4, StoreInv
<1>11. ASSUME writes < MaxWrites, writes' = b, AtEnd(f), data' = Flush(f), c < EOC, tab' = t,
              UNCHANGED found,
              NEW pos \in Positions(f, 1), fp' = Disturb(h, Stored(f, c, 0, b, pos))
       PROVE  FatIInv'
  <2>0. c \in Clusters /\ After(tab.fat, c) # 0 /\ f.i = clsz /\ 0 \in 0 .. clsz - 1 /\ ~ (c >= EOC)
    <3>1. ~ (c >= EOC)
      BY <1>1, <1>4, <1>11, EntInTable, Numbers, SectorInTable DEF c
    <3> QED BY <1>1, <1>2, <1>4, <1>11, <3>1 DEF AtEnd
  <2>1. \A e \in Clusters : e # f.cl => Flush(f)[e] = data[e]
    BY <1>2 DEF Flush
  <2>2. ASSUME Filed
        PROVE  /\ Sound(tab.fat) /\ StepAt(h, tab.fat, tab.fat, data, Flush(f))
               /\ OpenPlaced(clsz, honest, tab.fat, Flush(f), Stored(f, c, 0, b, pos))
    <3>1. PICK k \in 0 .. EOC : /\ Placed(clsz, honest, at, data, f, k)
                                /\ k \in Nat /\ k + 1 \in 0 .. EOC /\ at[k + 1] = c
                                /\ \A j \in 0 .. k : at[j] \in Clusters /\ (at[j] = at[k] => j = k)
      BY <1>8, <2>2
    <3>2. Placed(clsz, honest, at, Flush(f), Stored(f, c, 0, b, pos), k + 1)
      <4>1. Flush(f) = [data EXCEPT ![f.cl] = f.buf]
        BY DEF Flush
      <4>2. b \in Bytes /\ pos \in 0 .. MaxPos /\ (honest => pos = f.idx + 1)
        BY <1>5, <1>6, <1>7, <1>11
      <4>3. \A j \in 0 .. k : at[j] \in Clusters /\ at[j] = at[j] /\ (at[j] = at[k] => j = k)
        BY <3>1
      <4>4. f \in FilesOf(clsz) /\ f.m = "w" /\ f.i = clsz
        BY <1>1, <2>0
      <4>5. GoesOn(clsz, honest, at, at, data, f, k, c)
        <5> HIDE DEF at, f
        <5> QED BY <1>2, <2>0, <3>1, <4>3, <4>4 DEF GoesOn
      <4> HIDE DEF at, f, b
      <4>6. clsz \in Nat \ {0} /\ honest \in BOOLEAN
        BY <1>2
      <4>7. Placed(clsz, honest, at, [data EXCEPT ![f.cl] = f.buf], Stored(f, c, 0, b, pos), k + 1)
        BY <4>2, <4>5, <4>6, NextPlaced, Zenon
      <4> QED BY <4>1, <4>7
    <3>3. Stored(f, c, 0, b, pos).n = f.n
      BY <1>1 DEF Stored, FilesOf
    <3>4. OpenPlaced(clsz, honest, tab.fat, Flush(f), Stored(f, c, 0, b, pos))
      BY <3>1, <3>2, <3>3 DEF OpenPlaced
    <3> QED BY <2>1, <2>2, <3>4, SameTable DEF Filed
  <2>3. tab.fat' = tab.fat
    BY <1>4, <1>11
  <2>4. /\ TableOK(tab') /\ Linked(tab.fat') /\ After(tab.fat', c) # 0
        /\ \A e \in Clusters : After(tab.fat, e) # 0 => After(tab.fat', e) # 0
        /\ found' \in BOOLEAN /\ (found' => found)
    BY <1>0, <1>2, <1>4, <1>11, <2>0, <2>3
  <2>5. found' => /\ Sound(tab.fat') /\ StepAt(h, tab.fat, tab.fat', data, data')
                  /\ OpenPlaced(clsz, honest, tab.fat', data', Stored(f, c, 0, b, pos))
    BY <1>0, <1>11, <2>2, <2>3
  <2> QED BY <1>0, <1>1, <1>3, <1>11, <2>0, <2>4, <2>5, StoreInv
<1>12. ASSUME writes < MaxWrites, writes' = b, AtEnd(f), data' = Flush(f), c >= EOC,
              NEW p \in Unused(t), NEW pos \in Positions(f, 1), tab' = Extend(t, f.cl, p),
              fp' = Disturb(h, Stored(f, p, 0, b, pos)),
              found' = (found /\ After(tab.fat, p) = 0)
       PROVE  FatIInv'
  <2>0. p \in Clusters /\ c = EOC /\ f.i = clsz /\ 0 \in 0 .. clsz - 1
    BY <1>1, <1>2, <1>4, <1>12, UnusedCluster DEF AtEnd
  <2>1. \A e \in Clusters : e # f.cl => Flush(f)[e] = data[e]
    BY <1>2 DEF Flush
  <2> DEFINE new == tab.fat'
  <2>2. TableOK(tab') /\ new \in Table /\ Grown(tab.fat, new, f.cl, p)
    BY <1>1, <1>4, <1>12, <2>0, ExtendGrown
  <2>3. Grown(tab.fat, new, f.cl, p)
    BY <2>2
  <2>4. /\ Linked(new) /\ After(new, p) # 0
        /\ \A e \in Clusters : After(tab.fat, e) # 0 => After(new, e) # 0
    <3> HIDE DEF new
    <3> QED BY <1>0, <1>1, <1>2, <2>0, <2>2, <2>3, LinkedGrown
  <2>5. ASSUME Filed, After(tab.fat, p) = 0
        PROVE  /\ Sound(new) /\ StepAt(h, tab.fat, new, data, Flush(f))
               /\ OpenPlaced(clsz, honest, new, Flush(f), Stored(f, p, 0, b, pos))
    <3>1. PICK k \in 0 .. EOC, m \in 0 .. EOC - 1 :
            /\ Placed(clsz, honest, at, data, f, k) /\ Ends(at, m)
            /\ k \in 0 .. m /\ k \in Nat /\ k + 1 \in 0 .. EOC
            /\ IF k = m THEN c = EOC ELSE c \in Clusters
            /\ \A j \in 0 .. k : at[j] \in Clusters /\ (at[j] = at[k] => j = k)
      BY <1>8, <2>5
    <3>2. k = m /\ at[k] = f.cl
      BY <2>0, <3>1, Numbers DEF Placed
    <3>3. Inode[f.n] \in Heads /\ EOC \in Nat /\ EOC \notin Clusters
      BY <1>1, HeadOf, Numbers
    <3> HIDE DEF new
    <3>4. /\ Sound(new) /\ Walk(new, Inode[f.n])[k + 1] = p
          /\ \A j \in 0 .. k : Walk(new, Inode[f.n])[j] = at[j]
          /\ \A g \in Heads : g # Inode[f.n] => Walk(new, g) = Walk(tab.fat, g)
      <4>1. Ends(at, k) /\ Grown(tab.fat, new, at[k], p) /\ Sound(tab.fat)
        BY <2>3, <2>5, <3>1, <3>2 DEF Filed
      <4> DEFINE head == Inode[f.n]
      <4>2. Grows(tab.fat, new, head, k, p)
        BY <2>0, <2>5, <3>3, <4>1 DEF Grows
      <4> HIDE DEF head, f
      <4>3. \A j \in 0 .. k : Walk(new, head)[j] = Walk(tab.fat, head)[j]
        BY <1>2, <2>2, <4>2, SoundGrown
      <4>4. Sound(new) /\ Walk(new, head)[k + 1] = p
        BY <1>2, <2>2, <4>2, SoundGrown
      <4>5. ASSUME NEW g \in Heads, g # head PROVE Walk(new, g) = Walk(tab.fat, g)
        BY <1>2, <2>2, <4>2, <4>5, SoundGrown
      <4> QED BY <4>3, <4>4, <4>5 DEF head, f
    <3>5. StepAt(h, tab.fat, new, data, Flush(f))
      <4>1. \A n \in Files : n # f.n => Walk(new, Inode[n]) = Walk(tab.fat, Inode[n])
        BY <1>1, <3>4, HeadOf
      <4>2. ASSUME NEW j \in 0 .. EOC, at[j] \in Clusters
            PROVE  Walk(new, Inode[f.n])[j] = at[j]
        <5>1. j \in 0 .. k
          <6> HIDE DEF at
          <6> QED BY <3>1, <3>2, <3>3, <4>2 DEF Ends
        <5> QED BY <3>4, <5>1
      <4> QED BY <2>1, <4>1, <4>2 DEF StepAt
    <3>6. Placed(clsz, honest, Walk(new, Inode[f.n]), Flush(f), Stored(f, p, 0, b, pos), k + 1)
      <4> DEFINE grown == Walk(new, Inode[f.n])
      <4>1. Flush(f) = [data EXCEPT ![f.cl] = f.buf]
        BY DEF Flush
      <4>2. \A j \in 0 .. k : /\ at[j] \in Clusters /\ grown[j] = at[j]
                              /\ (at[j] = at[k] => j = k)
        BY <3>1, <3>4
      <4>3. b \in Bytes /\ pos \in 0 .. MaxPos /\ (honest => pos = f.idx + 1)
        BY <1>5, <1>6, <1>7, <1>12
      <4>4. f \in FilesOf(clsz) /\ f.m = "w" /\ f.i = clsz
        BY <1>1, <2>0
      <4>5. GoesOn(clsz, honest, at, grown, data, f, k, p)
        <5>1. grown[k + 1] = p
          BY <3>4
        <5> HIDE DEF at, f, grown
        <5> QED BY <1>2, <2>0, <3>1, <4>2, <4>4, <5>1 DEF GoesOn
      <4> HIDE DEF at, f, b, grown
      <4>6. Placed(clsz, honest, grown, Flush(f), Stored(f, p, 0, b, pos), k + 1)
        <5>1. clsz \in Nat \ {0} /\ honest \in BOOLEAN
          BY <1>2
        <5>2. Placed(clsz, honest, grown, [data EXCEPT ![f.cl] = f.buf], Stored(f, p, 0, b, pos), k + 1)
          BY <4>3, <4>5, <5>1, NextPlaced, Zenon
        <5> QED BY <4>1, <5>2
      <4> QED BY <4>6 DEF grown
    <3>7. Stored(f, p, 0, b, pos).n = f.n
      BY <1>1 DEF Stored, FilesOf
    <3>8. OpenPlaced(clsz, honest, new, Flush(f), Stored(f, p, 0, b, pos))
      BY <3>1, <3>6, <3>7 DEF OpenPlaced
    <3> QED BY <3>4, <3>5, <3>8
  <2>6. found' \in BOOLEAN /\ (found' => found /\ After(tab.fat, p) = 0)
    BY <1>2, <1>12
  <2>7. found' => /\ Sound(tab.fat') /\ StepAt(h, tab.fat, tab.fat', data, data')
                  /\ OpenPlaced(clsz, honest, tab.fat', data', Stored(f, p, 0, b, pos))
    BY <1>0, <1>12, <2>5, <2>6
  <2> QED BY <1>0, <1>1, <1>3, <1>12, <2>0, <2>2, <2>4, <2>6, <2>7, StoreInv
<1> QED BY <1>9, <1>10, <1>11, <1>12 DEF fs_write, t, c

\* The position of a file for writing is within the room its chain has.
LEMMA PositionInRoom ==
  ASSUME TypeOK, Filed, honest, NEW h \in Handles, fp[h] # NULL
  PROVE  fp[h].idx \in Nat /\ Room(fp[h].n) \in Nat /\ fp[h].idx <= Room(fp[h].n)
<1> DEFINE f == fp[h]
           at == Walk(tab.fat, Inode[f.n])
<1>1. f \in FilesOf(clsz) /\ clsz \in Nat \ {0} /\ tab.fat \in Table
  BY TypeFacts
<1>2. f.n \in Files /\ f.idx \in Nat /\ f.i \in 0 .. clsz
  BY <1>1 DEF FilesOf
<1>3. PICK k \in 0 .. EOC, m \in 0 .. EOC - 1 :
        Placed(clsz, honest, at, data, f, k) /\ Ends(at, m) /\ k \in 0 .. m
  BY NextPlace
<1>4. k \in Nat /\ m \in Nat /\ k <= m
  BY <1>3, Numbers
<1>5. f.idx = clsz * k + f.i
  BY <1>3 DEF Placed
<1>6. Room(f.n) = clsz * (m + 1)
  <2>1. Inode[f.n] \in Cell
    BY <1>2, HeadOf
  <2> QED BY <1>1, <1>3, <2>1, ChainRoom DEF Room, RoomIn
<1> HIDE DEF f
<1>7. clsz * k + f.i <= clsz * (m + 1) /\ clsz * (m + 1) \in Nat
  <2>1. PICK x \in Nat : m = k + x
    <3>1. m - k \in Nat /\ m = k + (m - k)
      BY <1>4
    <3> QED BY <3>1
  <2>2. clsz * (m + 1) = clsz * k + clsz * x + clsz
    BY <1>1, <1>4, <2>1
  <2>3. clsz * k \in Nat /\ clsz * x \in Nat
    BY <1>1, <1>4
  <2> QED BY <1>1, <1>2, <2>2, <2>3
<1> QED BY <1>2, <1>5, <1>6, <1>7 DEF f

LEMMA CloseInv ==
  ASSUME FatIInv, NEW h \in Handles, fs_close(h)
  PROVE  FatIInv'
<1> DEFINE f == fp[h]
<1>0. TypeOK /\ TableOK(tab) /\ Linked(tab.fat) /\ InUse /\ (found => Filed)
  BY DEF FatIInv
<1>1. /\ f # NULL /\ got' = << >>
      /\ UNCHANGED << clsz, tab, writes, opens, found, honest >>
  BY DEF fs_close
<1>2. /\ clsz \in Nat \ {0} /\ data \in [Clusters -> [0 .. clsz - 1 -> Bytes]]
      /\ len \in [Files -> 0 .. MaxPos] /\ f \in FilesOf(clsz) /\ writes \in Nat
  BY <1>0, <1>1, TypeFacts
<1>3. /\ f.n \in Files /\ f.cl \in Clusters /\ f.idx \in 0 .. MaxPos
      /\ f.buf \in [0 .. clsz - 1 -> Bytes]
  BY <1>2 DEF FilesOf
<1>4. CASE f.m = "w"
  <2>1. /\ data' = IF Unwritten(f) THEN Flush(f) ELSE data
        /\ len' = [len EXCEPT ![f.n] = f.idx] /\ fp' = Disturb(h, NULL)
    BY <1>4 DEF fs_close
  <2>2. ToldAt(h, NULL)
    BY <1>0, <2>1, DisturbAt
  <2>3. TypeOK'
    <3>1. fp' \in [Handles -> OpenFile' \cup {NULL}]
      BY <1>1, <2>2 DEF ToldAt, FilesOf, OpenFile
    <3>2. data' \in [Clusters -> [0 .. clsz' - 1 -> Bytes]]
      BY <1>1, <1>2, <1>3, <2>1 DEF Flush
    <3>3. len' \in [Files -> 0 .. MaxPos] /\ got' \in Seq(Bytes)
      BY <1>1, <1>2, <1>3, <2>1
    <3> QED BY <1>0, <1>1, <3>1, <3>2, <3>3 DEF TypeOK
  <2>4. InUse'
    BY <1>0, <1>1, <2>2, InUseKept
  <2>5. ASSUME Filed PROVE Filed'
    <3>1. StepAt(h, tab.fat, tab.fat', data, data')
      <4>1. \A c \in Clusters : c # f.cl => data'[c] = data[c]
        BY <1>2, <2>1 DEF Flush
      <4> QED BY <1>1, <4>1, SameTable
    <3>2. ASSUME NEW g \in Handles, fp'[g] # NULL
          PROVE  OpenPlaced(clsz', honest', tab.fat', data', fp'[g])
      <4>1. g # h
        BY <2>2, <3>2 DEF ToldAt
      <4>2. OpenPlaced(clsz, honest, tab.fat', data', fp'[g])
        BY <1>0, <1>1, <2>2, <2>5, <3>1, <3>2, <4>1, PlacesTold
      <4> QED BY <1>1, <4>2
    <3>3. honest' => \A n \in Files : len'[n] <= RoomIn(tab.fat', n, clsz')
      <4> SUFFICES ASSUME honest, NEW n \in Files PROVE len'[n] <= RoomIn(tab.fat, n, clsz)
        BY <1>1
      <4>1. CASE n = f.n
        <5>1. f.idx <= Room(f.n)
          BY <1>0, <1>1, <2>5, PositionInRoom
        <5> QED BY <1>2, <1>3, <2>1, <4>1, <5>1 DEF Room
      <4>2. CASE n # f.n
        BY <1>2, <2>1, <2>5, <4>2 DEF Filed, Room
      <4> QED BY <4>1, <4>2
    <3>4. Sound(tab.fat')
      BY <1>1, <2>5 DEF Filed
    <3> QED BY <3>2, <3>3, <3>4 DEF Filed, Room
  <2> QED BY <1>0, <1>1, <2>3, <2>4, <2>5 DEF FatIInv
<1>5. CASE f.m # "w"
  <2>1. fp' = [fp EXCEPT ![h] = NULL] /\ UNCHANGED << data, len >>
    BY <1>5 DEF fs_close
  <2>2. OnlyAt(h, NULL)
    BY <1>0, <2>1, FileAt
  <2>3. TypeOK'
    <3>1. fp' \in [Handles -> OpenFile' \cup {NULL}]
      BY <1>1, <2>2 DEF OnlyAt, FilesOf, OpenFile
    <3>2. got' \in Seq(Bytes)
      BY <1>1
    <3> QED BY <1>0, <1>1, <2>1, <3>1, <3>2 DEF TypeOK
  <2>4. InUse'
    BY <1>0, <1>1, <2>2, InUseKept
  <2>5. Filed => Filed'
    BY <1>0, <1>1, <2>1, <2>2, PlacesKept
  <2> QED BY <1>0, <1>1, <2>3, <2>4, <2>5 DEF FatIInv
<1> QED BY <1>4, <1>5

\* Steps that leave the files and the data as they are.
LEMMA StutterInv ==
  ASSUME FatIInv, TableOK(tab'), tab.fat' = tab.fat, got' \in Seq(Bytes),
         UNCHANGED << clsz, data, len, fp, writes, opens, found, honest >>
  PROVE  FatIInv'
<1>1. tab' \in [fat : [Sectors -> [Slots -> Entries \cup {EOC}]],
                cbufs : Sectors, cbuf : [Slots -> Entries \cup {EOC}]]
  BY DEF TableOK, Cell
<1>2. TypeOK'
  BY <1>1 DEF FatIInv, TypeOK, OpenFile
<1>3. InUse'
  BY DEF FatIInv, InUse
<1>4. Filed => Filed'
  BY DEF Filed, Room
<1> QED BY <1>2, <1>3, <1>4 DEF FatIInv

\* The invariant holds in every state, whatever is opened, read, written and closed,
\* and in whatever order.
LEMMA NextInv ==
  ASSUME FatIInv, [Next]_vars
  PROVE  FatIInv'
<1>1. CASE \E h \in Handles, n \in Files, m \in {"r", "w"} : fs_open(h, n, m)
  BY <1>1, OpenInv
<1>2. CASE \E h \in Handles : fs_read(h)
  BY <1>2, ReadInv
<1>3. CASE \E h \in Handles : fs_write(h)
  BY <1>3, WriteInv
<1>4. CASE \E h \in Handles : fs_close(h)
  BY <1>4, CloseInv
<1>5. CASE \E s \in Sectors : fat_filldir(s)
  <2>1. PICK s \in Sectors : fat_filldir(s)
    BY <1>5
  <2>2. TableOK(tab') /\ tab'.fat = tab.fat
    BY <2>1, LoadOK DEF FatIInv, fat_filldir
  <2>3. /\ UNCHANGED << clsz, data, len, fp, writes, opens, found, honest >>
        /\ got' \in Seq(Bytes)
    BY <2>1 DEF fat_filldir
  <2> QED BY <2>2, <2>3, StutterInv
<1>6. CASE UNCHANGED vars
  <2>1. /\ UNCHANGED << clsz, tab, data, len, fp, got, writes, opens, found, honest >>
        /\ got' \in Seq(Bytes) /\ TableOK(tab')
    BY <1>6 DEF vars, FatIInv, TypeOK
  <2> QED BY <2>1, StutterInv
<1> QED BY <1>1, <1>2, <1>3, <1>4, <1>5, <1>6 DEF Next

\* FatIInv holds in every state, whatever is opened, read, written and closed.
THEOREM FatInvariant == Spec => []FatIInv
BY InitInv, NextInv, PTL DEF Spec

\* The cached sector (fat.c:28) is always what the disk has, also after a search
\* that read the wrong sectors or found nothing.
THEOREM FatCacheCoherent == Spec => []CacheCoherent
<1>1. FatIInv => CacheCoherent
  BY DEF FatIInv, TableOK, CacheCoherent
<1> QED BY FatInvariant, <1>1, PTL

\* The volume and the open files are well formed in every state; the chains of the
\* table end, have no cluster in common and hold every cluster in use, and there is
\* room in them for the files' lengths, as long as the searches for an unused
\* cluster (fat.c:93) gave one.
THEOREM FatVolumeSound == Spec => []FatSound
<1>1. FatIInv => FatSound
  <2> SUFFICES ASSUME FatIInv PROVE FatSound
    OBVIOUS
  <2>1. TypeOK /\ tab.fat \in Table
    BY TypeFacts DEF FatIInv
  <2>2. found => WellFormed(tab.fat) /\ (honest => \A n \in Files : len[n] <= Room(n))
    BY <2>1, SoundWellFormed DEF FatIInv, Filed
  <2> QED BY <2>1, <2>2 DEF FatSound, ChainsSound
<1> QED BY FatInvariant, <1>1, PTL

-----------------------------------------------------------------------------
\* What is in the files.

\* The bytes up to l, or as far as there is room for r, that are in the clusters d of
\* the walk at.
Holds(c, at, d, l, r) ==
  [j \in 1 .. (IF l < r THEN l ELSE r) |-> d[at[(j - 1) \div c]][(j - 1) % c]]

LEMMA ContentsHold ==
  ASSUME NEW n
  PROVE  /\ Contents(n) = Holds(clsz, Walk(tab.fat, Inode[n]), data, len[n], RoomIn(tab.fat, n, clsz))
         /\ Contents(n)' = Holds(clsz', Walk(tab.fat', Inode[n]), data', len'[n],
                                 RoomIn(tab.fat', n, clsz'))
BY DEF Contents, Holds, Room

\* They are the same when the clusters of the chain have the same bytes.
\* The clusters d and e agree along the first m + 1 places of the walk at.
AgreeAlong(at, m, d, e) == \A k \in 0 .. m : e[at[k]] = d[at[k]]

\* The room for bytes in that many clusters.
RoomUpTo(m, c) == c * (m + 1)

LEMMA HoldsSame ==
  ASSUME NEW c \in Nat \ {0}, NEW at, NEW d, NEW e, NEW l \in Nat, NEW m \in 0 .. EOC - 1,
         NEW r, r = RoomUpTo(m, c), Ends(at, m), AgreeAlong(at, m, d, e)
  PROVE  Holds(c, at, d, l, r) = Holds(c, at, e, l, r)
<1> DEFINE k == IF l < r THEN l ELSE r
<1>1. m \in Nat /\ r \in Nat /\ k \in Nat /\ k <= r
  <2>1. m \in Nat
    BY Numbers
  <2>2. r \in Nat
    BY <2>1 DEF RoomUpTo
  <2> QED BY <2>1, <2>2
<1>2. ASSUME NEW j \in 1 .. k
      PROVE  d[at[(j - 1) \div c]] = e[at[(j - 1) \div c]]
  <2>1. r = c * m + c /\ c * m \in Nat
    BY <1>1 DEF RoomUpTo
  <2>2. j - 1 \in 0 .. (c * m + c) - 1
    <3> HIDE DEF k
    <3> QED BY <1>1, <2>1
  <2>3. (j - 1) \div c \in 0 .. m
    <3>1. c \in 0 .. c /\ m \in Nat
      BY <1>1
    <3> HIDE DEF k
    <3> QED BY <2>2, <3>1, PlaceOf
  <2> QED BY <2>3 DEF AgreeAlong
<1> HIDE DEF k
<1> QED BY <1>2 DEF Holds, k

LEMMA ContentsKept ==
  ASSUME TypeOK, Filed, NEW n \in Files, clsz' = clsz, len'[n] = len[n],
         Walk(tab.fat', Inode[n]) = Walk(tab.fat, Inode[n]),
         \A k \in 0 .. EOC : LET c == Walk(tab.fat, Inode[n])[k]
                             IN  c \in Clusters => data'[c] = data[c]
  PROVE  Contents(n)' = Contents(n)
<1> DEFINE at == Walk(tab.fat, Inode[n])
<1>1. clsz \in Nat \ {0} /\ tab.fat \in Table /\ len[n] \in Nat /\ EOC \in Nat
  BY TypeFacts, Numbers
<1>2. PICK m \in 0 .. EOC - 1 : Ends(at, m)
  BY HeadOf DEF Filed, Sound
<1>3. RoomIn(tab.fat, n, clsz) = clsz * (m + 1) /\ RoomIn(tab.fat', n, clsz') = clsz * (m + 1)
  <2>1. RoomIn(tab.fat, n, clsz) = clsz * (m + 1)
    BY <1>1, <1>2, HeadOf, ChainRoom DEF RoomIn
  <2>2. RoomIn(tab.fat', n, clsz') = RoomIn(tab.fat, n, clsz)
    BY DEF RoomIn, Chain
  <2> QED BY <2>1, <2>2
<1>4. \A k \in 0 .. m : data'[at[k]] = data[at[k]]
  <2>1. \A k \in 0 .. m : k \in 0 .. EOC /\ at[k] \in Clusters
    <3> HIDE DEF at
    <3> QED BY <1>1, <1>2 DEF Ends
  <2> QED BY <2>1
<1> DEFINE new == data'
           r == clsz * (m + 1)
<1>5. Contents(n) = Holds(clsz, at, data, len[n], r) /\ Contents(n)' = Holds(clsz, at, new, len[n], r)
  BY <1>3, ContentsHold
<1>6. Holds(clsz, at, data, len[n], r) = Holds(clsz, at, new, len[n], r)
  <2>1. AgreeAlong(at, m, data, new)
    BY <1>4 DEF AgreeAlong
  <2>2. clsz \in Nat \ {0} /\ len[n] \in Nat /\ m \in 0 .. EOC - 1 /\ Ends(at, m)
    BY <1>1, <1>2
  <2>3. r = RoomUpTo(m, clsz)
    BY DEF RoomUpTo
  <2> HIDE DEF at, new, r
  <2> QED BY <2>1, <2>2, <2>3, HoldsSame
<1> QED BY <1>5, <1>6

\* A write to one file leaves the chains and the lengths of the others, and of their
\* clusters the bytes.
LEMMA WriteOthers ==
  ASSUME FatIInv, NEW h \in Handles, fs_write(h), found', NEW n \in Files, n # fp[h].n
  PROVE  /\ Walk(tab.fat', Inode[n]) = Walk(tab.fat, Inode[n])
         /\ \A c \in Clusters : c # fp[h].cl => data'[c] = data[c]
         /\ found /\ clsz' = clsz /\ len' = len
<1> DEFINE f == fp[h]
           t == Load(tab, SectorOf(f.cl))
<1>0. TypeOK /\ TableOK(tab) /\ Linked(tab.fat) /\ (found => Filed) /\ Writes(h)
  BY DEF FatIInv, fs_write
<1>1. /\ f # NULL /\ f.n \in Files /\ f.cl \in Clusters /\ After(tab.fat, f.cl) # 0
      /\ data \in [Clusters -> [0 .. clsz - 1 -> Bytes]] /\ tab.fat \in Table
  BY <1>0, WriteFacts, TypeFacts
<1>2. TableOK(t) /\ t.fat = tab.fat /\ Ent(t, f.cl) = After(tab.fat, f.cl)
  BY <1>0, <1>1, NextCluster
<1>3. /\ clsz' = clsz /\ len' = len /\ (found' => found)
      /\ \A c \in Clusters : c # f.cl => data'[c] = data[c]
  BY <1>1 DEF fs_write, Flush
<1> HIDE DEF t
<1>4. CASE tab'.fat = tab.fat
  BY <1>3, <1>4
<1>5. CASE Ent(t, f.cl) >= EOC /\ \E p \in Unused(t) :
             tab' = Extend(t, f.cl, p) /\ found' = (found /\ After(tab.fat, p) = 0)
  <2>1. PICK p \in Unused(t) : tab' = Extend(t, f.cl, p) /\ After(tab.fat, p) = 0
    BY <1>5
  <2>2. p \in Clusters
    BY UnusedCluster
  <2> DEFINE new == tab.fat'
  <2>3. new \in Table /\ Grown(tab.fat, new, f.cl, p)
    BY <1>1, <1>2, <2>1, <2>2, ExtendGrown
  <2> HIDE DEF new
  <2>4. Filed
    BY <1>0, <1>3
  <2>5. PICK k \in 0 .. EOC, m \in 0 .. EOC - 1 :
          /\ Placed(clsz, honest, Walk(tab.fat, Inode[f.n]), data, f, k)
          /\ Ends(Walk(tab.fat, Inode[f.n]), m)
          /\ k \in 0 .. m
          /\ IF k = m THEN After(tab.fat, f.cl) = EOC ELSE After(tab.fat, f.cl) \in Clusters
    BY <1>0, <1>1, <2>4, NextPlace
  <2>6. k = m
    BY <1>2, <1>5, <2>5, Numbers
  <2>7. Grows(tab.fat, new, Inode[f.n], k, p)
    <3>1. Walk(tab.fat, Inode[f.n])[k] = f.cl
      BY <2>5 DEF Placed
    <3>2. Inode[f.n] \in Heads
      BY <1>1, HeadOf
    <3> QED BY <2>1, <2>2, <2>3, <2>4, <2>5, <2>6, <3>1, <3>2 DEF Grows, Filed
  <2>8. \A g \in Heads : g # Inode[f.n] => Walk(new, g) = Walk(tab.fat, g)
    <3> HIDE DEF f
    <3> QED BY <1>1, <2>3, <2>7, SoundGrown
  <2>9. Inode[n] \in Heads /\ Inode[n] # Inode[f.n]
    BY <1>1, HeadOf
  <2> QED BY <1>3, <2>8, <2>9 DEF new
<1>6. UNCHANGED tab \/ tab' = t
      \/ (Ent(t, f.cl) >= EOC /\ \E p \in Unused(t) :
             tab' = Extend(t, f.cl, p) /\ found' = (found /\ After(tab.fat, p) = 0))
  BY DEF fs_write, t
<1> QED BY <1>2, <1>4, <1>5, <1>6

\* No call on one file changes what is in another (fs_write and fs_close call
\* fat_write and fat_close, which write to clusters of their own chain).
THEOREM FatOthersUntouched == Spec => OthersUntouched
<1>1. ASSUME FatIInv, [Next]_vars, found', NEW n \in Files, Contents(n)' # Contents(n)
      PROVE  \E h \in Handles : Writes(h) /\ fp[h].n = n
  <2>0. TypeOK /\ (found => Filed)
    BY <1>1 DEF FatIInv
  <2>1. ASSUME found, clsz' = clsz, tab.fat' = tab.fat, data' = data, len' = len
        PROVE  FALSE
    <3>1. Contents(n)' = Contents(n)
      BY <2>0, <2>1, ContentsKept
    <3> QED BY <1>1, <3>1
  <2>2. CASE \E h \in Handles, m \in {"r", "w"}, k \in Files : fs_open(h, k, m)
    BY <1>1, <2>1, <2>2 DEF fs_open
  <2>3. CASE \E h \in Handles : fs_read(h)
    <3>1. /\ found /\ clsz' = clsz /\ data' = data /\ len' = len
          /\ \E h \in Handles : tab' = tab \/ tab' = Load(tab, SectorOf(fp[h].cl))
      BY <1>1, <2>3 DEF fs_read
    <3>2. \A s : Load(tab, s).fat = tab.fat
      BY DEF Load
    <3> QED BY <2>1, <3>1, <3>2
  <2>4. CASE \E h \in Handles : fs_write(h)
    <3>1. PICK h \in Handles : fs_write(h)
      BY <2>4
    <3>2. Writes(h) /\ fp[h] # NULL
      BY <3>1 DEF fs_write, Writes
    <3>3. ASSUME n # fp[h].n PROVE FALSE
      <4>1. /\ Walk(tab.fat', Inode[n]) = Walk(tab.fat, Inode[n])
            /\ \A c \in Clusters : c # fp[h].cl => data'[c] = data[c]
            /\ found /\ clsz' = clsz /\ len' = len
        BY <1>1, <3>1, <3>3, WriteOthers
      <4>2. \A k \in 0 .. EOC : Walk(tab.fat, Inode[n])[k] # fp[h].cl
        BY <2>0, <3>2, <3>3, <4>1, OwnCluster
      <4>3. Contents(n)' = Contents(n)
        BY <2>0, <4>1, <4>2, ContentsKept
      <4> QED BY <1>1, <4>3
    <3> QED BY <3>2, <3>3
  <2>5. CASE \E h \in Handles : fs_close(h)
    <3>1. PICK h \in Handles : fs_close(h)
      BY <2>5
    <3>2. found /\ clsz' = clsz /\ tab' = tab /\ fp[h] # NULL /\ Filed
      BY <1>1, <2>0, <3>1 DEF fs_close
    <3>3. CASE fp[h].m # "w"
      BY <2>1, <3>1, <3>2, <3>3 DEF fs_close
    <3>4. CASE fp[h].m = "w"
      <4>1. ASSUME n # fp[h].n PROVE FALSE
        <5>1. \A k \in 0 .. EOC : Walk(tab.fat, Inode[n])[k] # fp[h].cl
          BY <2>0, <3>2, <4>1, OwnCluster
        <5>2. /\ data' = IF Unwritten(fp[h]) THEN Flush(fp[h]) ELSE data
              /\ len' = [len EXCEPT ![fp[h].n] = fp[h].idx]
          BY <3>1, <3>4 DEF fs_close
        <5>3. len'[n] = len[n] /\ \A c \in Clusters : c # fp[h].cl => data'[c] = data[c]
          BY <2>0, <4>1, <5>2, TypeFacts DEF Flush
        <5>4. Contents(n)' = Contents(n)
          BY <2>0, <3>2, <5>1, <5>3, ContentsKept
        <5> QED BY <1>1, <5>4
      <4> QED BY <3>2, <3>4, <4>1 DEF Writes
    <3> QED BY <3>3, <3>4
  <2>6. CASE \E s \in Sectors : fat_filldir(s)
    <3>1. \A s : Load(tab, s).fat = tab.fat
      BY DEF Load
    <3> QED BY <1>1, <2>1, <2>6, <3>1 DEF fat_filldir
  <2>7. CASE UNCHANGED vars
    BY <1>1, <2>1, <2>7 DEF vars
  <2> QED BY <1>1, <2>2, <2>3, <2>4, <2>5, <2>6, <2>7 DEF Next
<1>2. FatIInv /\ [Next]_vars =>
        [found' => \A n \in Files :
           Contents(n)' # Contents(n) => \E h \in Handles : Writes(h) /\ fp[h].n = n]_vars
  BY <1>1
<1> QED BY FatInvariant, <1>2, PTL DEF Spec, OthersUntouched

\* Once it is closed, a file holds what was written to it, whatever else was open and
\* was written to in the meantime, as long as that was not the same file.
THEOREM FatWrittenIsKept == Spec => WrittenIsKept
<1>1. ASSUME FatIInv, NEW h \in Handles, NEW n \in Files,
             Writes(h), fp[h].n = n, fp[h].quiet, honest, found, fs_close(h)
      PROVE  Contents(n)' = fp[h].log
  <2> DEFINE f == fp[h]
             at == Walk(tab.fat, Inode[n])
             new == data'
             r == RoomIn(tab.fat, n, clsz)
  <2>0. TypeOK /\ Filed /\ f # NULL
    BY <1>1 DEF FatIInv, Writes
  <2>1. /\ clsz \in Nat \ {0} /\ data \in [Clusters -> [0 .. clsz - 1 -> Bytes]]
        /\ f \in FilesOf(clsz) /\ len \in [Files -> 0 .. MaxPos]
    BY <2>0, TypeFacts
  <2>2. /\ f.m = "w" /\ f.quiet /\ f.cl \in Clusters /\ f.i \in 0 .. clsz
        /\ f.buf \in [0 .. clsz - 1 -> Bytes] /\ f.log \in Seq(Bytes)
    BY <1>1, <2>1 DEF Writes, FilesOf
  <2>3. /\ clsz' = clsz /\ tab' = tab /\ len'[n] = f.idx
        /\ new = IF Unwritten(f) THEN Flush(f) ELSE data
    BY <1>1, <2>1, <2>2 DEF fs_close
  <2>4. f.idx \in Nat /\ r \in Nat /\ f.idx <= r
    BY <1>1, <2>0, PositionInRoom DEF Room
  <2>5. Contents(n)' = Holds(clsz, at, new, f.idx, r)
    BY <2>3, ContentsHold
  <2>6. PICK k \in 0 .. EOC, m \in 0 .. EOC - 1 :
          Placed(clsz, honest, at, data, f, k) /\ Ends(at, m) /\ k \in 0 .. m
    BY <1>1, <2>0, NextPlace
  <2>7. k \in Nat /\ at[k] = f.cl /\ f.idx = clsz * k + f.i /\ Logged(clsz, at, data, f, k)
    BY <1>1, <2>2, <2>6, Numbers DEF Placed
  <2>8. \A j \in 0 .. k : at[j] \in Clusters /\ (at[j] = at[k] => j = k)
    <3>1. Inode[n] \in Cell /\ EOC \in Nat
      BY HeadOf, Numbers
    <3>2. \A j \in 0 .. k : j \in 0 .. m /\ j \in 0 .. EOC /\ j <= m
      BY <2>6, <3>1
    <3>3. ASSUME NEW j \in 0 .. k, at[j] = at[k] PROVE j = k
      BY <2>0, <2>6, <3>1, <3>2, <3>3, NoneTwice, TypeFacts
    <3> HIDE DEF at
    <3> QED BY <2>6, <3>2, <3>3 DEF Ends
  <2>9. ASSUME NEW j \in 1 .. f.idx
        PROVE  new[at[(j - 1) \div clsz]][(j - 1) % clsz] = f.log[j]
    <3> DEFINE x == j - 1
               q == x \div clsz
    <3>0. x \in 0 .. f.idx - 1 /\ x \in Nat /\ x + 1 = j
      BY <2>4
    <3>1. q \in 0 .. k /\ x % clsz \in 0 .. clsz - 1 /\ (q = k => x % clsz < f.i)
      <4> HIDE DEF x, f
      <4> QED BY <2>1, <2>2, <2>7, <3>0, PlaceOf
    <3>2. f.log[x + 1] = IF q = k THEN f.buf[x % clsz] ELSE data[at[q]][x % clsz]
      BY <2>7, <3>0 DEF Logged
    <3>3. CASE q = k
      <4>1. x % clsz < f.i /\ x % clsz \in Nat /\ f.i \in Nat
        BY <2>2, <3>1, <3>3
      <4>2. Unwritten(f)
        BY <4>1 DEF Unwritten
      <4>3. new[f.cl] = f.buf
        BY <2>1, <2>2, <2>3, <4>2 DEF Flush
      <4>4. at[q] = f.cl /\ f.log[j] = f.buf[x % clsz]
        BY <2>7, <3>0, <3>2, <3>3
      <4> HIDE DEF new, at, f
      <4> QED BY <4>3, <4>4
    <3>4. CASE q # k
      <4>1. at[q] \in Clusters /\ at[q] # f.cl
        BY <2>7, <2>8, <3>1, <3>4
      <4>2. new[at[q]] = data[at[q]]
        BY <2>1, <2>2, <2>3, <4>1 DEF Flush
      <4>3. f.log[j] = data[at[q]][x % clsz]
        BY <3>0, <3>2, <3>4
      <4> HIDE DEF new, at, f
      <4> QED BY <4>2, <4>3
    <3> QED BY <3>3, <3>4
  <2> HIDE DEF new, at, r
  <2>10. Holds(clsz, at, new, f.idx, r) =
           [j \in 1 .. f.idx |-> new[at[(j - 1) \div clsz]][(j - 1) % clsz]]
    <3>1. (IF f.idx < r THEN f.idx ELSE r) = f.idx
      BY <2>4
    <3> QED BY <3>1 DEF Holds
  <2>11. f.log = [j \in 1 .. f.idx |-> f.log[j]]
    <3>1. Len(f.log) = f.idx
      BY <2>7 DEF Logged
    <3> QED BY <2>2, <3>1
  <2> QED BY <2>5, <2>9, <2>10, <2>11
<1>2. FatIInv /\ [Next]_vars =>
        [\A h \in Handles, n \in Files :
           Writes(h) /\ fp[h].n = n /\ fp[h].quiet /\ honest /\ found /\ fs_close(h)
             => Contents(n)' = fp[h].log]_vars
  BY <1>1
<1> QED BY FatInvariant, <1>2, PTL DEF Spec, WrittenIsKept

\* A read gives the byte of the file at the position of the open file, through the
\* buffer, the next cluster, or the end of the file (the loop of fat_read).
THEOREM FatReadsTheFile == Spec => ReadsTheFile
<1>1. ASSUME FatIInv, NEW h \in Handles, Reads(h), fp[h].quiet, honest, found, fs_read(h)
      PROVE  LET c == Contents(fp[h].n)
                 j == fp[h].idx + 1
             IN  got' = IF j > Len(c) THEN << >> ELSE << c[j] >>
  <2> DEFINE f == fp[h]
             at == Walk(tab.fat, Inode[f.n])
             r == RoomIn(tab.fat, f.n, clsz)
             l == len[f.n]
             t == Load(tab, SectorOf(f.cl))
             e == Ent(t, f.cl)
  <2>0. TypeOK /\ Filed /\ f # NULL
    BY <1>1 DEF FatIInv, Reads
  <2>1. /\ clsz \in Nat \ {0} /\ data \in [Clusters -> [0 .. clsz - 1 -> Bytes]]
        /\ f \in FilesOf(clsz) /\ len \in [Files -> 0 .. MaxPos] /\ tab.fat \in Table
    BY <2>0, TypeFacts
  <2>2. /\ f.m = "r" /\ f.quiet /\ f.cl \in Clusters /\ f.i \in 0 .. clsz /\ f.idx \in Nat
        /\ f.n \in Files /\ l \in Nat /\ After(tab.fat, f.cl) # 0
    BY <1>1, <2>1, ReadFacts DEF FilesOf
  <2>3. PICK k \in 0 .. EOC, m \in 0 .. EOC - 1 :
          /\ Placed(clsz, honest, at, data, f, k) /\ Ends(at, m) /\ k \in 0 .. m
          /\ at[k + 1] = After(tab.fat, f.cl)
          /\ IF k = m THEN After(tab.fat, f.cl) = EOC ELSE After(tab.fat, f.cl) \in Clusters
    BY <1>1, <2>0, NextPlace
  <2>4. k \in Nat /\ m \in Nat /\ k <= m /\ at[k] = f.cl /\ f.idx = clsz * k + f.i /\ f.buf = data[f.cl]
    BY <2>2, <2>3, Numbers DEF Placed
  <2>5. r = clsz * (m + 1) /\ r \in Nat /\ l <= r
    <3>1. r = clsz * (m + 1)
      BY <2>1, <2>2, <2>3, HeadOf, ChainRoom DEF RoomIn
    <3>2. l <= r
      BY <1>1, <2>0, <2>2 DEF Filed, Room
    <3>3. clsz * (m + 1) \in Nat
      BY <2>1, <2>4
    <3> HIDE DEF r
    <3> QED BY <3>1, <3>2, <3>3
  <2>6. Contents(f.n) = [j \in 1 .. l |-> data[at[(j - 1) \div clsz]][(j - 1) % clsz]]
    <3>1. Contents(f.n) = Holds(clsz, at, data, l, r)
      BY ContentsHold
    <3> HIDE DEF l, r, at
    <3>2. (IF l < r THEN l ELSE r) = l
      BY <2>2, <2>5
    <3> QED BY <3>1, <3>2 DEF Holds
  <2>7. Len(Contents(f.n)) = l
    <3> HIDE DEF l, at
    <3> QED BY <2>2, <2>6
  <2>8. ASSUME f.idx < l
        PROVE  Contents(f.n)[f.idx + 1] = data[at[f.idx \div clsz]][f.idx % clsz]
    <3>1. f.idx + 1 \in 1 .. l /\ (f.idx + 1) - 1 = f.idx
      BY <2>2, <2>8
    <3> HIDE DEF l, at, f
    <3> QED BY <2>6, <3>1
  <2>9. /\ e = After(tab.fat, f.cl)
    BY <1>1, <2>2, NextCluster DEF FatIInv
  <2> HIDE DEF at, r, t, e
  <2>10. CASE f.idx >= l /\ got' = << >>
    <3>1. f.idx + 1 > Len(Contents(f.n))
      <4> HIDE DEF l
      <4> QED BY <2>2, <2>7, <2>10
    <3> QED BY <2>10, <3>1
  <2>11. CASE /\ f.idx < l /\ AtEnd(f)
              /\ IF e >= EOC THEN got' = << >>
                 ELSE fp' = [fp EXCEPT ![h] = Taken(f, e)] /\ got' = << fp'[h].buf[0] >>
    <3>1. f.i = clsz /\ f.idx = clsz * (k + 1) + 0 /\ k + 1 \in Nat
      <4>1. f.i = clsz
        BY <2>1, <2>2, <2>11 DEF AtEnd
      <4>2. clsz * (k + 1) = clsz * k + clsz /\ clsz * k \in Nat
        BY <2>1, <2>4
      <4> QED BY <2>1, <2>4, <4>1, <4>2
    <3>2. f.idx \div clsz = k + 1 /\ f.idx % clsz = 0
      <4>1. 0 \in 0 .. clsz - 1
        BY <2>1
      <4> HIDE DEF f
      <4> QED BY <2>1, <3>1, <4>1, DivModIs
    <3>3. k # m
      <4> SUFFICES ASSUME k = m PROVE FALSE
        OBVIOUS
      <4>1. r = clsz * (k + 1) /\ f.idx = r
        <5>1. clsz * (k + 1) \in Nat
          BY <2>1, <2>4
        <5> QED BY <2>5, <3>1, <5>1
      <4> QED BY <2>2, <2>5, <2>11, <4>1
    <3>4. e \in Clusters /\ ~ (e >= EOC) /\ at[k + 1] = e
      BY <2>3, <2>9, <3>3, Numbers
    <3>5. got' = << data[e][0] >>
      <4>1. Taken(f, e) .buf = data[e]
        BY <2>1 DEF Taken, FilesOf
      <4>2. fp'[h] = Taken(f, e)
        BY <2>0, <2>11, <3>4, TypeFacts
      <4> QED BY <2>11, <3>4, <4>1, <4>2
    <3>6. Contents(f.n)[f.idx + 1] = data[e][0]
      BY <2>8, <2>11, <3>2, <3>4
    <3>7. ~ (f.idx + 1 > Len(Contents(f.n)))
      <4> HIDE DEF l
      <4> QED BY <2>2, <2>7, <2>11
    <3> QED BY <3>5, <3>6, <3>7
  <2>12. CASE f.idx < l /\ ~ AtEnd(f) /\ got' = << f.buf[f.i] >>
    <3>1. f.i \in 0 .. clsz - 1
      BY <2>1, <2>2, <2>12 DEF AtEnd
    <3>2. f.idx \div clsz = k /\ f.idx % clsz = f.i
      <4> HIDE DEF f
      <4>1. (clsz * k + f.i) \div clsz = k /\ (clsz * k + f.i) % clsz = f.i
        BY <2>1, <2>4, <3>1, DivModIs
      <4>2. f.idx = clsz * k + f.i
        BY <2>4
      <4> QED BY <4>1, <4>2, Zenon
    <3>3. Contents(f.n)[f.idx + 1] = f.buf[f.i]
      BY <2>4, <2>8, <2>12, <3>2
    <3>4. ~ (f.idx + 1 > Len(Contents(f.n)))
      <4> HIDE DEF l
      <4> QED BY <2>2, <2>7, <2>12
    <3> QED BY <2>12, <3>3, <3>4
  <2> QED BY <1>1, <2>10, <2>11, <2>12 DEF fs_read, t, e
<1>2. FatIInv /\ [Next]_vars =>
        [\A h \in Handles :
           Reads(h) /\ fp[h].quiet /\ honest /\ found /\ fs_read(h)
             => LET c == Contents(fp[h].n)
                    j == fp[h].idx + 1
                IN  got' = IF j > Len(c) THEN << >> ELSE << c[j] >>]_vars
  BY <1>1
<1> QED BY FatInvariant, <1>2, PTL DEF Spec, ReadsTheFile

-----------------------------------------------------------------------------
\* The search.  It sees the first sector of the table as it is, and gives the first
\* cluster that looks unused: one of that sector, when there is one.
LEMMA FirstSector ==
  ASSUME NEW t, TableOK(t), NEW c \in Clusters, SectorOf(c) = 0, After(t.fat, c) = 0,
         NEW p \in Unused(t)
  PROVE  After(t.fat, p) = 0
<1> DEFINE blank == { q \in Clusters : Blank(t, q) }
<1>1. ASSUME NEW q \in Clusters, SectorOf(q) = 0
      PROVE  Blank(t, q) <=> After(t.fat, q) = 0
  <2>1. 0 \in Sectors
    BY <1>1, SectorInTable DEF Clusters
  <2>2. Load(t, 0).cbuf = t.fat[0]
    <3>1. TableOK(Load(t, 0)) /\ Load(t, 0).cbufs = 0 /\ Load(t, 0).fat = t.fat
      BY <2>1, LoadOK
    <3> QED BY <3>1 DEF TableOK
  <2> QED BY <1>1, <2>2 DEF Blank, Seen, After
<1>2. c \in blank
  BY <1>1
<1>3. p \in Clusters /\ Blank(t, p) /\ p <= c
  BY <1>2 DEF Unused
<1>4. SectorOf(p) = 0
  <2>1. PerSector \in Nat \ {0} /\ c \in Nat /\ p \in Nat
    BY <1>3, FatAssumption, Numbers
  <2> DEFINE d == PerSector
             r == c % PerSector
  <2>2. c \div d = 0
    BY DEF SectorOf
  <2>3. r \in 0 .. d - 1 /\ c = d * (c \div d) + r
    BY <2>1, DivMod
  <2>4. d * 0 = 0 /\ d \in Nat \ {0}
    BY <2>1
  <2> HIDE DEF d, r
  <2>5. c = r
    BY <2>2, <2>3, <2>4
  <2>6. p \in 0 .. d - 1 /\ d * 0 + p = p
    BY <1>3, <2>1, <2>3, <2>4, <2>5
  <2>7. (d * 0 + p) \div d = 0
    BY <2>4, <2>6, DivModIs
  <2> QED BY <2>6, <2>7 DEF SectorOf, d
<1> QED BY <1>1, <1>3, <1>4

\* While a cluster of the first sector is unused, every search for an unused cluster
\* gives one: what the theorems above say under this condition, they say of every
\* volume that has not filled that sector.
THEOREM FatFirstSectorSearched == Spec => FirstSectorSearched
<1>1. ASSUME FatIInv, [Next]_vars, found, NEW c \in Clusters, SectorOf(c) = 0,
             After(tab.fat, c) = 0
      PROVE  found'
  <2>1. ASSUME NEW h \in Handles, fs_write(h) PROVE found'
    <3> DEFINE t == Load(tab, SectorOf(fp[h].cl))
    <3>1. fp[h].cl \in Clusters /\ TableOK(tab)
      BY <1>1, <2>1, WriteFacts DEF fs_write, FatIInv
    <3>2. TableOK(t) /\ t.fat = tab.fat
      BY <3>1, SectorInTable, LoadOK DEF Clusters
    <3> HIDE DEF t
    <3>3. UNCHANGED found \/ \E p \in Unused(t) : found' = (found /\ After(tab.fat, p) = 0)
      BY <2>1 DEF fs_write, t
    <3>4. \A p \in Unused(t) : After(tab.fat, p) = 0
      <4>1. After(t.fat, c) = 0
        BY <1>1, <3>2
      <4>2. \A p \in Unused(t) : After(t.fat, p) = 0
        BY <1>1, <3>2, <4>1, FirstSector
      <4> QED BY <3>2, <4>2
    <3> QED BY <1>1, <3>3, <3>4
  <2>2. ASSUME UNCHANGED found PROVE found'
    BY <1>1, <2>2
  <2> QED BY <1>1, <2>1, <2>2 DEF Next, fs_open, fs_read, fs_close, fat_filldir, vars
<1>2. FatIInv /\ [Next]_vars =>
        [found /\ (\E c \in Clusters : SectorOf(c) = 0 /\ After(tab.fat, c) = 0) => found']_vars
  BY <1>1
<1> QED BY FatInvariant, <1>2, PTL DEF Spec, FirstSectorSearched
=============================================================================
