------------------------------- MODULE VfsProofs -------------------------------
(***************************************************************************)
(* Theorems about the directories, for every volume that is well formed,   *)
(* every size of a cluster and of the volume, all paths and names, and any *)
(* number of files created.                                                *)
(*                                                                         *)
(* The lemmas go up from the table of the volume to the tree: chains; the  *)
(* places for entries along them; the entries of a directory; what keeps a *)
(* volume well formed; each write of _add_dirent; the reading of a         *)
(* directory; the search for a name, and along a path.  What is said of    *)
(* the order of a loop's turns is said of a function of the turn, such as  *)
(* the one that the definition in Vfs takes by recursion.                  *)
(***************************************************************************)
EXTENDS Vfs, RecursionLemmas, FiniteSetTheorems, SequenceTheorems, TLAPS

-----------------------------------------------------------------------------
\* The constants, and the clusters.
LEMMA Sizes ==
  /\ NSlots \in Nat /\ NSlots >= 2 /\ MaxCl \in Nat /\ MaxCl >= 2
  /\ RootCl \in 2 .. MaxCl /\ Clusters = 2 .. MaxCl /\ EOC = MaxCl + 1
<1>1. NSlots \in Nat \ {0, 1} /\ MaxCl \in Nat /\ RootCl \in Clusters
  BY VfsAssumption, Zenon
<1>2. Clusters = 2 .. MaxCl /\ EOC = MaxCl + 1
  BY DEF Clusters, EOC
<1>3. RootCl \in 2 .. MaxCl
  BY <1>1, <1>2, Zenon
<1> QED BY <1>1, <1>2, <1>3

\* Sequences: their elements, when two are equal, what Append makes of one.
LEMMA ElemIn ==
  ASSUME NEW S, NEW s \in Seq(S), NEW i \in 1 .. Len(s)
  PROVE  s[i] \in S
OBVIOUS

LEMMA SeqEq ==
  ASSUME NEW S, NEW s \in Seq(S), NEW t \in Seq(S), Len(s) = Len(t),
         \A i \in 1 .. Len(s) : s[i] = t[i]
  PROVE  s = t
<1>1. s = [i \in 1 .. Len(s) |-> s[i]] /\ t = [i \in 1 .. Len(t) |-> t[i]]
  OBVIOUS
<1> QED BY <1>1

LEMMA WholeSeq ==
  ASSUME NEW S, NEW s \in Seq(S)
  PROVE  SubSeq(s, 1, Len(s)) = s
<1>1. SubSeq(s, 1, Len(s)) \in Seq(S) /\ Len(SubSeq(s, 1, Len(s))) = Len(s)
  OBVIOUS
<1>2. \A i \in 1 .. Len(s) : SubSeq(s, 1, Len(s))[i] = s[i]
  OBVIOUS
<1> QED BY <1>1, <1>2, SeqEq

Chains == Seq(0 .. MaxCl) \ {<< >>}

\* The table of a volume, as far as a chain is concerned.
FatOK(f) == f \in [0 .. MaxCl -> {0, MaxCl + 1} \cup 2 .. MaxCl] /\ f[0] = MaxCl + 1 /\ f[1] = MaxCl + 1

\* A volume of the right type has such a table.
LEMMA TypedFat ==
  ASSUME NEW d, Typed(d) PROVE FatOK(d.fat)
BY Sizes DEF Typed, FatOK

\* One step along a chain, and the steps that ChainFrom takes.
Longer(f, s) == IF f[s[Len(s)]] = EOC THEN s ELSE Append(s, f[s[Len(s)]])

\* A step leads from a chain of clusters to one.
LEMMA LongerChain ==
  ASSUME NEW f, FatOK(f), NEW s \in Chains PROVE Longer(f, s) \in Chains
<1>1. s[Len(s)] \in 0 .. MaxCl
  BY Sizes DEF Chains
<1>2. f[s[Len(s)]] # EOC => f[s[Len(s)]] \in 0 .. MaxCl
  BY <1>1, Sizes DEF FatOK
<1> QED BY <1>2, Sizes DEF Chains, Longer

Walked(d, c, at) ==
  /\ at[0] = << c >>
  /\ \A k \in 1 .. MaxCl : at[k] = Longer(d.fat, at[k - 1])
  /\ \A k \in 0 .. MaxCl : at[k] \in Chains
  /\ ChainFrom(d, c) = at[MaxCl]

\* ChainFrom takes these steps, and each is such a chain.
LEMMA ChainSteps ==
  ASSUME NEW d, Typed(d), NEW c \in 0 .. MaxCl
  PROVE  \E at : Walked(d, c, at)
<1> DEFINE Is(e) == e = [k \in 0 .. MaxCl |-> IF k = 0 THEN << c >> ELSE LET s == e[k - 1] IN
                            IF d.fat[s[Len(s)]] = EOC THEN s ELSE Append(s, d.fat[s[Len(s)]])]
           T == [k \in 0 .. MaxCl |-> Chains]
           g == [k \in 1 .. MaxCl |-> [x \in Chains |-> Longer(d.fat, x)]]
<1>1. << c >> \in T[0] /\ \A k \in 1 .. MaxCl : \A x \in T[k - 1] : g[k][x] \in T[k]
  BY LongerChain, TypedFat, Sizes DEF Chains
<1>2. PICK f : Stepped(f, MaxCl, T, << c >>, g)
  <2> HIDE DEF T, g
  <2> QED BY <1>1, Iterated, Sizes
<1>3. \A k \in 1 .. MaxCl : f[k] = Longer(d.fat, f[k - 1])
  <2> TAKE k \in 1 .. MaxCl
  <2>1. k - 1 \in 0 .. MaxCl
    BY Sizes
  <2>2. f[k - 1] \in Chains
    BY <1>2, <2>1 DEF Stepped
  <2> QED BY <1>2, <2>2 DEF Stepped
<1>4. Is(f)
  <2> DEFINE h == [k \in 0 .. MaxCl |-> IF k = 0 THEN << c >> ELSE LET s == f[k - 1] IN
                            IF d.fat[s[Len(s)]] = EOC THEN s ELSE Append(s, d.fat[s[Len(s)]])]
  <2>1. \A k \in 0 .. MaxCl : f[k] = h[k]
    <3> TAKE k \in 0 .. MaxCl
    <3>1. CASE k = 0
      BY <3>1, <1>2 DEF Stepped
    <3>2. CASE k # 0
      <4>1. k \in 1 .. MaxCl
        BY <3>2, Sizes
      <4>2. f[k] = Longer(d.fat, f[k - 1])
        BY <4>1, <1>3
      <4> QED BY <4>2, <3>2 DEF Longer
    <3> QED BY <3>1, <3>2
  <2>2. h = [k \in 0 .. MaxCl |-> h[k]]
    OBVIOUS
  <2>3. f = h
    <3> HIDE DEF h
    <3> QED BY <2>1, <2>2, <1>2 DEF Stepped
  <2> QED BY <2>3
<1> DEFINE at == CHOOSE e : Is(e)
<1>5. Is(at)
  <2> HIDE DEF Is
  <2> QED BY <1>4, Zenon
<1>6. ChainFrom(d, c) = at[MaxCl]
  BY DEF ChainFrom
<1> HIDE DEF at
<1>7. at[0] = << c >> /\ \A k \in 1 .. MaxCl : at[k] = Longer(d.fat, at[k - 1])
  <2>1. 0 \in 0 .. MaxCl /\ \A k \in 1 .. MaxCl : k \in 0 .. MaxCl /\ k # 0
    BY Sizes
  <2>2. at[0] = << c >>
    BY <1>5, <2>1
  <2>3. ASSUME NEW k \in 1 .. MaxCl PROVE at[k] = Longer(d.fat, at[k - 1])
    BY <1>5, <2>1 DEF Longer
  <2> QED BY <2>2, <2>3
<1>8. \A k \in 0 .. MaxCl : at[k] \in Chains
  <2> DEFINE M == { k \in 0 .. MaxCl : at[k] \in Chains }
  <2>1. 0 \in M
    <3>1. 0 \in 0 .. MaxCl /\ << c >> \in Seq(0 .. MaxCl) /\ << c >> # << >>
      BY Sizes
    <3> QED BY <1>7, <3>1 DEF Chains
  <2>2. ASSUME NEW k \in 1 .. MaxCl, k - 1 \in M PROVE k \in M
    BY <2>2, <1>7, LongerChain, TypedFat
  <2>3. 0 .. MaxCl \subseteq M
    <3> HIDE DEF M
    <3> QED BY <2>1, <2>2, UpToAll, Sizes
  <2> QED BY <2>3
<1> QED BY <1>6, <1>7, <1>8 DEF Walked

-----------------------------------------------------------------------------
\* What a chain of a table is.
IsChain(f, c, s) ==
  /\ s \in Chains /\ s[1] = c /\ Len(s) <= MaxCl + 1
  /\ \A i \in 1 .. Len(s) - 1 : f[s[i]] = s[i + 1]
  /\ f[s[Len(s)]] = EOC

\* There is one only, and it is what the steps lead to.
LEMMA ChainIs ==
  ASSUME NEW d, Typed(d), NEW c \in 0 .. MaxCl, NEW s, IsChain(d.fat, c, s)
  PROVE  ChainFrom(d, c) = s
<1>1. PICK at : Walked(d, c, at)
  BY ChainSteps
<1> DEFINE Upto(k) == IF k + 1 < Len(s) THEN SubSeq(s, 1, k + 1) ELSE s
           M == { k \in 0 .. MaxCl : at[k] = Upto(k) }
<1>0. s \in Seq(0 .. MaxCl) /\ Len(s) \in Nat /\ Len(s) >= 1 /\ s[1] = c
  BY DEF IsChain, Chains
<1>2. 0 \in M
  <2>1. 0 \in 0 .. MaxCl /\ 0 + 1 = 1
    BY Sizes
  <2>2. CASE Len(s) = 1
    <3>1. Upto(0) = s /\ s = << c >>
      BY <1>0, <2>2
    <3> QED BY <3>1, <2>1, <1>1 DEF Walked
  <2>3. CASE Len(s) > 1
    <3>1. Upto(0) = SubSeq(s, 1, 1)
      BY <1>0, <2>3
    <3>2. SubSeq(s, 1, 1) = << c >>
      <4>1. SubSeq(s, 1, 1) \in Seq(0 .. MaxCl) /\ Len(SubSeq(s, 1, 1)) = 1 /\ SubSeq(s, 1, 1)[1] = c
        BY <1>0, <2>3
      <4>2. << c >> \in Seq(0 .. MaxCl) /\ Len(<< c >>) = 1 /\ << c >>[1] = c
        OBVIOUS
      <4>3. \A i \in 1 .. Len(SubSeq(s, 1, 1)) : SubSeq(s, 1, 1)[i] = << c >>[i]
        BY <4>1, <4>2
      <4> QED BY <4>1, <4>2, <4>3, SeqEq
    <3> QED BY <3>1, <3>2, <2>1, <1>1 DEF Walked
  <2>4. Len(s) = 1 \/ Len(s) > 1
    <3> DEFINE m == Len(s)
    <3>1. m \in Nat /\ m >= 1
      BY <1>0
    <3> HIDE DEF m
    <3>2. m = 1 \/ m > 1
      BY <3>1
    <3> QED BY <3>2 DEF m
  <2> HIDE DEF M
  <2> QED BY <2>4, <2>2, <2>3
<1>3. ASSUME NEW k \in 1 .. MaxCl, k - 1 \in M PROVE k \in M
  <2>1. at[k] = Longer(d.fat, Upto(k - 1))
    BY <1>1, <1>3 DEF Walked
  <2>2. CASE k < Len(s)
    <3>1. Upto(k - 1) = SubSeq(s, 1, k)
      BY <2>2, <1>0
    <3>2. Len(SubSeq(s, 1, k)) = k /\ SubSeq(s, 1, k)[k] = s[k]
      BY <2>2, <1>0
    <3>3. d.fat[s[k]] = s[k + 1] /\ s[k + 1] # EOC
      BY <2>2, <1>0, Sizes DEF IsChain
    <3>4. at[k] = Append(SubSeq(s, 1, k), s[k + 1])
      BY <2>1, <3>1, <3>2, <3>3 DEF Longer
    <3>5. Append(SubSeq(s, 1, k), s[k + 1]) = SubSeq(s, 1, k + 1)
      BY <2>2, <1>0
    <3>6. Upto(k) = SubSeq(s, 1, k + 1)
      <4>1. CASE k + 1 < Len(s)
        BY <4>1
      <4>2. CASE k + 1 = Len(s)
        <5>1. SubSeq(s, 1, k + 1) = s
          BY <4>2, <1>0, WholeSeq
        <5> QED BY <4>2, <5>1
      <4>3. k + 1 < Len(s) \/ k + 1 = Len(s)
        BY <2>2, <1>0
      <4> QED BY <4>1, <4>2, <4>3
    <3> HIDE DEF Upto
    <3> QED BY <3>4, <3>5, <3>6
  <2>3. CASE ~ (k < Len(s))
    <3>1. Upto(k - 1) = s /\ Upto(k) = s
      BY <2>3, <1>0
    <3> QED BY <3>1, <2>1 DEF Longer, IsChain
  <2> QED BY <2>2, <2>3, <1>0
<1>4. 0 .. MaxCl \subseteq M
  <2> HIDE DEF M
  <2> QED BY <1>2, <1>3, UpToAll, Sizes
<1>5. at[MaxCl] = Upto(MaxCl)
  BY <1>4, Sizes
<1>6. Upto(MaxCl) = s
  BY <1>0, Sizes DEF IsChain
<1> QED BY <1>1, <1>5, <1>6 DEF Walked

\* And if they lead to the end, they have gone along it.
LEMMA ChainFound ==
  ASSUME NEW d, Typed(d), NEW c \in 0 .. MaxCl, d.fat[Last(ChainFrom(d, c))] = EOC
  PROVE  IsChain(d.fat, c, ChainFrom(d, c))
<1>1. PICK at : Walked(d, c, at)
  BY ChainSteps
<1> DEFINE Goes(s, k) == /\ s \in Chains /\ s[1] = c /\ Len(s) <= k + 1
                         /\ \A i \in 1 .. Len(s) - 1 : d.fat[s[i]] = s[i + 1]
           M == { k \in 0 .. MaxCl : Goes(at[k], k) }
<1>2. 0 \in M
  <2>1. 0 \in 0 .. MaxCl /\ at[0] \in Chains /\ at[0] = << c >>
    BY <1>1, Sizes DEF Walked
  <2>2. Goes(<< c >>, 0)
    <3>1. Len(<< c >>) = 1 /\ << c >>[1] = c
      OBVIOUS
    <3> QED BY <2>1, <3>1
  <2> QED BY <2>1, <2>2
<1>3. ASSUME NEW k \in 1 .. MaxCl, k - 1 \in M PROVE k \in M
  <2> DEFINE s == at[k - 1]
  <2>1. s \in Seq(0 .. MaxCl) /\ Len(s) \in Nat /\ Len(s) >= 1 /\ s[1] = c /\ Len(s) <= k
    BY <1>3 DEF Chains
  <2>1a. \A i \in 1 .. Len(s) - 1 : d.fat[s[i]] = s[i + 1]
    BY <1>3
  <2>2. at[k] = Longer(d.fat, s) /\ at[k] \in Chains
    BY <1>1 DEF Walked
  <2> HIDE DEF s
  <2>3. CASE d.fat[s[Len(s)]] = EOC
    BY <2>1, <2>1a, <2>2, <2>3 DEF Longer, Chains
  <2>4. CASE d.fat[s[Len(s)]] # EOC
    <3>1. at[k] = Append(s, d.fat[s[Len(s)]])
      BY <2>4, <2>2 DEF Longer
    <3>2. Len(at[k]) = Len(s) + 1 /\ \A i \in 1 .. Len(s) : at[k][i] = s[i]
      BY <3>1, <2>1
    <3>3. at[k][Len(s) + 1] = d.fat[s[Len(s)]]
      BY <3>1, <2>1
    <3>4. ASSUME NEW i \in 1 .. Len(at[k]) - 1 PROVE d.fat[at[k][i]] = at[k][i + 1]
      <4>1. i \in 1 .. Len(s)
        BY <3>2, <2>1
      <4>2. CASE i = Len(s)
        BY <4>2, <3>2, <3>3, <2>1
      <4>3. CASE i # Len(s)
        <5>1. i \in 1 .. Len(s) - 1 /\ i + 1 \in 1 .. Len(s)
          BY <4>1, <4>3, <2>1
        <5> QED BY <5>1, <3>2, <2>1a
      <4> QED BY <4>2, <4>3
    <3> HIDE DEF M
    <3>5. Goes(at[k], k)
      BY <2>1, <2>2, <3>2, <3>4
    <3> QED BY <3>5 DEF M
  <2> QED BY <2>3, <2>4
<1>4. 0 .. MaxCl \subseteq M
  <2> HIDE DEF M
  <2> QED BY <1>2, <1>3, UpToAll, Sizes
<1>5. Goes(at[MaxCl], MaxCl)
  BY <1>4, Sizes
<1>6. Last(at[MaxCl]) = at[MaxCl][Len(at[MaxCl])]
  BY DEF Last
<1> QED BY <1>1, <1>5, <1>6 DEF IsChain, Walked

-----------------------------------------------------------------------------
\* Heads of chains in a table, one step back along which there is one way at most.
IsHead(f, c) == c \in Clusters /\ f[c] # 0 /\ \A b \in Clusters : f[b] # c
OneWay(f)  == \A b, c \in Clusters : f[b] = f[c] /\ f[b] \in Clusters => b = c
NoLoose(f) == \A c \in Clusters : f[c] \in Clusters => f[f[c]] # 0

\* What is in a chain is a cluster, or at its end the mark of an unused one.
LEMMA InChain ==
  ASSUME NEW f, FatOK(f), NEW c, IsHead(f, c), NEW s, IsChain(f, c, s)
  PROVE  \A i \in 1 .. Len(s) : s[i] \in Clusters \/ (s[i] = 0 /\ i = Len(s) /\ i > 1)
<1>0. s \in Seq(0 .. MaxCl) /\ Len(s) \in Nat /\ Len(s) >= 1 /\ s[1] = c
  BY DEF IsChain, Chains
<1>1. ASSUME NEW i \in 1 .. Len(s), i > 1 PROVE s[i] \in {0} \cup Clusters
  <2>0. i - 1 \in 1 .. Len(s) - 1 /\ i - 1 \in 1 .. Len(s) /\ (i - 1) + 1 = i
    BY <1>0, <1>1
  <2>1. s[i - 1] \in 0 .. MaxCl /\ s[i] \in 0 .. MaxCl
    <3> HIDE DEF Clusters
    <3>1. s \in Seq(0 .. MaxCl)
      BY <1>0
    <3> QED BY <3>1, <2>0, ElemIn
  <2>2. f[s[i - 1]] = s[i]
    BY <2>0 DEF IsChain
  <2> QED BY <2>1, <2>2, Sizes DEF FatOK
<1>2. ASSUME NEW i \in 1 .. Len(s), i < Len(s) PROVE s[i] # 0
  <2>0. i \in 1 .. Len(s) - 1 /\ i + 1 \in 1 .. Len(s)
    BY <1>0, <1>2
  <2>1. i \in 1 .. Len(s) - 1 /\ s[i + 1] \in 0 .. MaxCl /\ s[i] \in 0 .. MaxCl
    <3> HIDE DEF Clusters
    <3>1. s \in Seq(0 .. MaxCl)
      BY <1>0
    <3> QED BY <3>1, <2>0, ElemIn
  <2>2. f[s[i]] = s[i + 1]
    BY <2>1 DEF IsChain
  <2> QED BY <2>1, <2>2, Sizes DEF FatOK
<1>3. c \in Clusters
  BY DEF IsHead
<1>4. ASSUME NEW i \in 1 .. Len(s) PROVE s[i] \in Clusters \/ (s[i] = 0 /\ i = Len(s) /\ i > 1)
  <2>1. CASE i = 1
    BY <2>1, <1>0, <1>3
  <2>2. CASE i > 1
    <3>1. CASE i < Len(s)
      BY <3>1, <2>2, <1>1, <1>2
    <3>2. CASE i = Len(s)
      BY <3>2, <2>2, <1>1
    <3> QED BY <3>1, <3>2, <1>0
  <2> QED BY <2>1, <2>2, <1>0
<1> QED BY <1>4

\* Two chains have no cluster in common, nor has one a cluster twice.
LEMMA ChainsApart ==
  ASSUME NEW f, FatOK(f), OneWay(f), NEW c, IsHead(f, c), NEW e, IsHead(f, e),
         NEW s, IsChain(f, c, s), NEW t, IsChain(f, e, t),
         NEW i \in 1 .. Len(s), NEW j \in 1 .. Len(t), s[i] = t[j], s[i] \in Clusters
  PROVE  c = e /\ i = j
<1>0. /\ s \in Seq(0 .. MaxCl) /\ Len(s) \in Nat /\ Len(s) >= 1 /\ s[1] = c
      /\ t \in Seq(0 .. MaxCl) /\ Len(t) \in Nat /\ Len(t) >= 1 /\ t[1] = e
  BY DEF IsChain, Chains
<1>1. \A k \in 1 .. Len(s) - 1 : s[k] \in Clusters /\ f[s[k]] = s[k + 1]
  <2> TAKE k \in 1 .. Len(s) - 1
  <2>1. k \in 1 .. Len(s) /\ k # Len(s)
    BY <1>0
  <2> QED BY <2>1, InChain DEF IsChain
<1>2. \A k \in 1 .. Len(t) - 1 : t[k] \in Clusters /\ f[t[k]] = t[k + 1]
  <2> TAKE k \in 1 .. Len(t) - 1
  <2>1. k \in 1 .. Len(t) /\ k # Len(t)
    BY <1>0
  <2> QED BY <2>1, InChain DEF IsChain
<1>3. c \in Clusters /\ e \in Clusters /\ (\A b \in Clusters : f[b] # c /\ f[b] # e)
  BY DEF IsHead
<1> DEFINE Same(k) == \A l \in 1 .. Len(t) : s[k + 1] = t[l] /\ s[k + 1] \in Clusters => c = e /\ l = k + 1
           M == { k \in 0 .. Len(s) - 1 : Same(k) }
<1>4. 0 \in M
  <2>1. ASSUME NEW l \in 1 .. Len(t), s[1] = t[l] PROVE c = e /\ l = 1
    <3>1. CASE l = 1
      BY <3>1, <2>1, <1>0
    <3>2. CASE l > 1
      <4>1. l - 1 \in 1 .. Len(t) - 1 /\ (l - 1) + 1 = l
        BY <3>2, <1>0
      <4>2. t[l - 1] \in Clusters /\ f[t[l - 1]] = t[l]
        BY <4>1, <1>2
      <4> QED BY <4>2, <2>1, <1>0, <1>3
    <3> QED BY <3>1, <3>2, <1>0
  <2>2. 0 \in 0 .. Len(s) - 1 /\ 0 + 1 = 1
    BY <1>0
  <2> QED BY <2>1, <2>2
<1>5. ASSUME NEW k \in 1 .. Len(s) - 1, k - 1 \in M PROVE k \in M
  <2>1. ASSUME NEW l \in 1 .. Len(t), s[k + 1] = t[l], s[k + 1] \in Clusters PROVE c = e /\ l = k + 1
    <3>1. s[k] \in Clusters /\ f[s[k]] = s[k + 1]
      BY <1>1
    <3>2. CASE l = 1
      BY <3>1, <3>2, <2>1, <1>0, <1>3
    <3>3. CASE l > 1
      <4>1. l - 1 \in 1 .. Len(t) - 1 /\ (l - 1) + 1 = l /\ (k - 1) + 1 = k /\ l - 1 \in 1 .. Len(t)
        BY <3>3, <1>0
      <4>2. t[l - 1] \in Clusters /\ f[t[l - 1]] = t[l]
        BY <4>1, <1>2
      <4>3. s[k] = t[l - 1]
        BY <4>2, <3>1, <2>1 DEF OneWay
      <4>4. Same(k - 1)
        BY <1>5
      <4>5. c = e /\ l - 1 = k
        BY <4>1, <4>3, <4>4, <3>1
      <4> QED BY <4>5, <1>0
    <3> QED BY <3>2, <3>3, <1>0
  <2> QED BY <2>1
<1>6. 0 .. Len(s) - 1 \subseteq M
  <2>1. Len(s) - 1 \in Nat
    BY <1>0
  <2> HIDE DEF M
  <2> QED BY <1>4, <1>5, <2>1, UpToAll
<1>7. i - 1 \in 0 .. Len(s) - 1 /\ (i - 1) + 1 = i
  BY <1>0
<1>8. Same(i - 1)
  BY <1>6, <1>7
<1> QED BY <1>7, <1>8

\* If no chain leads to an unused cluster, this one has clusters only, in use.
LEMMA ChainUsed ==
  ASSUME NEW f, FatOK(f), NEW c, IsHead(f, c), NEW s, IsChain(f, c, s), NoLoose(f)
  PROVE  s \in Seq(Clusters) /\ \A i \in 1 .. Len(s) : f[s[i]] # 0
<1>0. s \in Seq(0 .. MaxCl) /\ Len(s) \in Nat /\ Len(s) >= 1 /\ s[1] = c
  BY DEF IsChain, Chains
<1> DEFINE M == { k \in 0 .. Len(s) - 1 : s[k + 1] \in Clusters /\ f[s[k + 1]] # 0 }
<1>1. 0 \in M
  BY <1>0 DEF IsHead
<1>2. ASSUME NEW k \in 1 .. Len(s) - 1, k - 1 \in M PROVE k \in M
  <2>1. (k - 1) + 1 = k /\ k + 1 \in 1 .. Len(s) /\ k \in 0 .. Len(s) - 1
    BY <1>0
  <2>2. s[k] \in Clusters /\ f[s[k]] # 0 /\ f[s[k]] = s[k + 1]
    BY <1>2, <2>1 DEF IsChain
  <2>3. s[k + 1] \in Clusters
    BY <2>1, <2>2, InChain
  <2>4. f[s[k + 1]] # 0
    BY <2>2, <2>3 DEF NoLoose
  <2> QED BY <2>1, <2>3, <2>4
<1>3. 0 .. Len(s) - 1 \subseteq M
  <2>1. Len(s) - 1 \in Nat
    BY <1>0
  <2> HIDE DEF M
  <2> QED BY <1>1, <1>2, <2>1, UpToAll
<1>4. ASSUME NEW i \in 1 .. Len(s) PROVE s[i] \in Clusters /\ f[s[i]] # 0
  <2>1. i - 1 \in 0 .. Len(s) - 1 /\ (i - 1) + 1 = i
    BY <1>0
  <2>2. i - 1 \in M
    BY <2>1, <1>3
  <2> QED BY <2>1, <2>2
<1>5. s \in Seq(Clusters)
  BY <1>0, <1>4
<1> QED BY <1>4, <1>5

\* With a cluster unused, there is room for two more in what is taken as a chain.
LEMMA ChainRoom ==
  ASSUME NEW f, FatOK(f), OneWay(f), NEW c, IsHead(f, c), NEW s, IsChain(f, c, s), NoLoose(f),
         NEW u \in Clusters, f[u] = 0
  PROVE  Len(s) + 2 <= MaxCl
<1> DEFINE D == 1 .. Len(s)
           B == Clusters \ {u}
           h == [i \in D |-> s[i]]
<1>0. s \in Seq(Clusters) /\ Len(s) \in Nat /\ \A i \in 1 .. Len(s) : f[s[i]] # 0
  BY ChainUsed
<1>1. h \in [D -> B] /\ \A i, j \in D : h[i] = h[j] => i = j
  <2>1. \A i \in D : s[i] \in Clusters /\ s[i] # u
    BY <1>0
  <2>2. \A i, j \in D : s[i] = s[j] => i = j
    BY <2>1, ChainsApart
  <2> QED BY <2>1, <2>2
<1>2. IsFiniteSet(Clusters) /\ Cardinality(Clusters) = MaxCl - 1
  BY Sizes, FS_Interval
<1>3. IsFiniteSet(B) /\ Cardinality(B) = MaxCl - 2
  <2>1. Cardinality(B) = Cardinality(Clusters) - 1
    BY <1>2, FS_RemoveElement
  <2>2. IsFiniteSet(B)
    BY <1>2, FS_RemoveElement
  <2> QED BY <2>1, <2>2, <1>2, Sizes
<1>4. IsFiniteSet(D) /\ Cardinality(D) = Len(s)
  <2>1. 1 \in Int /\ Len(s) \in Int /\ Len(s) - 1 + 1 = Len(s) /\ (1 > Len(s) => Len(s) = 0)
    BY <1>0
  <2>2. IsFiniteSet(D) /\ Cardinality(D) = IF 1 > Len(s) THEN 0 ELSE Len(s) - 1 + 1
    BY <2>1, FS_Interval
  <2> QED BY <2>1, <2>2
<1>5. h \in Injection(D, B)
  <2> HIDE DEF h, D, B
  <2> QED BY <1>1 DEF Injection, IsInjective
<1>6. Cardinality(D) <= Cardinality(B)
  <2> HIDE DEF h, D, B
  <2> QED BY <1>3, <1>5, FS_Injection
<1> QED BY <1>3, <1>4, <1>6, <1>0, Sizes

-----------------------------------------------------------------------------
\* What is done to a table: a cluster u that is not used is linked to the end of a
\* chain, or marked as an end.
OneChain(f) == FatOK(f) /\ OneWay(f)

\* A chain stays one in a table that is the same along it.
LEMMA SameChain ==
  ASSUME NEW f, NEW c, NEW s, IsChain(f, c, s), NEW f2, \A i \in 1 .. Len(s) : f2[s[i]] = f[s[i]]
  PROVE  IsChain(f2, c, s)
<1>1. s \in Seq(0 .. MaxCl) /\ Len(s) \in Nat /\ Len(s) >= 1
  BY DEF IsChain, Chains
<1>2. \A i \in 1 .. Len(s) - 1 : i \in 1 .. Len(s)
  BY <1>1
<1>3. Len(s) \in 1 .. Len(s)
  BY <1>1
<1> QED BY <1>2, <1>3 DEF IsChain

\* What Append makes of a sequence.
LEMMA Appended ==
  ASSUME NEW S, NEW s \in Seq(S), NEW x \in S
  PROVE  /\ Append(s, x) \in Seq(S) /\ Len(Append(s, x)) = Len(s) + 1
         /\ \A i \in 1 .. Len(s) : Append(s, x)[i] = s[i]
         /\ Append(s, x)[Len(s) + 1] = x
OBVIOUS

\* Linked: the chain has the new cluster, and what is in its place in the table after.
LEMMA LinkChain ==
  ASSUME NEW f, OneChain(f), NoLoose(f), NEW u \in Clusters, f[u] = 0,
         NEW c, IsHead(f, c), NEW s, IsChain(f, c, s),
         NEW f1, f1 = [f EXCEPT ![s[Len(s)]] = u]
  PROVE  /\ OneChain(f1) /\ f1[u] = 0
         /\ IsChain(f1, c, Append(Append(s, u), 0))
         /\ \A e : IsHead(f, e) => IsHead(f1, e)
         /\ \A e, t : e # c /\ IsHead(f, e) /\ IsChain(f, e, t) => IsChain(f1, e, t)
<1> DEFINE p == s[Len(s)]
<1>0. s \in Seq(Clusters) /\ Len(s) \in Nat /\ Len(s) >= 1 /\ s \in Seq(0 .. MaxCl) /\ s[1] = c
  BY ChainUsed DEF IsChain, Chains, OneChain
<1>1. Len(s) \in 1 .. Len(s)
  BY <1>0
<1>2. p \in Clusters /\ f[p] = MaxCl + 1 /\ p # u
  BY <1>1, ChainUsed, ElemIn, Sizes DEF IsChain, OneChain
<1>3. f \in [0 .. MaxCl -> {0, MaxCl + 1} \cup 2 .. MaxCl] /\ f[0] = MaxCl + 1 /\ f[1] = MaxCl + 1
  BY DEF OneChain, FatOK
<1>4. f1[p] = u /\ \A b \in 0 .. MaxCl : b # p => f1[b] = f[b]
  BY <1>2, <1>3, Sizes
<1>5. u \in 2 .. MaxCl /\ p \in 2 .. MaxCl
  BY <1>2, Sizes
<1>6. FatOK(f1)
  <2>1. f1 \in [0 .. MaxCl -> {0, MaxCl + 1} \cup 2 .. MaxCl]
    BY <1>3, <1>5
  <2>2. 0 \in 0 .. MaxCl /\ 1 \in 0 .. MaxCl /\ p # 0 /\ p # 1
    BY <1>5, Sizes
  <2> QED BY <2>1, <2>2, <1>3, <1>4 DEF FatOK
<1>7. \A b \in Clusters : b \in 0 .. MaxCl /\ f[b] # u
  <2> TAKE b \in Clusters
  <2>1. b \in 0 .. MaxCl
    BY Sizes
  <2>2. f[b] # u
    BY DEF NoLoose
  <2> QED BY <2>1, <2>2
<1>8. OneWay(f1)
  <2> SUFFICES ASSUME NEW b \in Clusters, NEW e \in Clusters, f1[b] = f1[e], f1[b] \in Clusters
               PROVE  b = e
    BY DEF OneWay
  <2>1. CASE b # p /\ e # p
    BY <2>1, <1>4, <1>7 DEF OneChain, OneWay
  <2>2. CASE b = p \/ e = p
    BY <2>2, <1>4, <1>7
  <2> QED BY <2>1, <2>2
<1>9. ASSUME NEW e, IsHead(f, e) PROVE IsHead(f1, e)
  <2>1. e \in Clusters /\ f[e] # 0 /\ e # u
    BY <1>9 DEF IsHead
  <2>2. f1[e] # 0
    BY <2>1, <1>4, <1>7, <1>5
  <2>3. \A b \in Clusters : f1[b] # e
    BY <2>1, <1>9, <1>4, <1>7 DEF IsHead
  <2> QED BY <2>1, <2>2, <2>3 DEF IsHead
<1>10. ASSUME NEW e, NEW t, e # c, IsHead(f, e), IsChain(f, e, t) PROVE IsChain(f1, e, t)
  <2>1. ASSUME NEW i \in 1 .. Len(t) PROVE t[i] # p /\ t[i] \in 0 .. MaxCl
    <3>1. t[i] # p
      BY <2>1, <1>10, <1>1, <1>2, ChainsApart DEF OneChain
    <3>2. t[i] \in 0 .. MaxCl
      BY <1>10, <2>1, ElemIn DEF IsChain, Chains
    <3> QED BY <3>1, <3>2
  <2>2. \A i \in 1 .. Len(t) : f1[t[i]] = f[t[i]]
    BY <2>1, <1>4
  <2> QED BY <2>2, <1>10, SameChain
<1>11. IsChain(f1, c, Append(Append(s, u), 0))
  <2> DEFINE s1 == Append(s, u)
             s2 == Append(s1, 0)
  <2>0. 0 \in 0 .. MaxCl /\ u \in 0 .. MaxCl /\ u # p
    BY <1>2, <1>5, Sizes
  <2>1. /\ s1 \in Seq(0 .. MaxCl) /\ Len(s1) = Len(s) + 1
        /\ (\A i \in 1 .. Len(s) : s1[i] = s[i]) /\ s1[Len(s) + 1] = u
    BY <1>0, <2>0, Appended
  <2> HIDE DEF s1
  <2>2. /\ s2 \in Seq(0 .. MaxCl) /\ Len(s2) = Len(s1) + 1
        /\ (\A i \in 1 .. Len(s1) : s2[i] = s1[i]) /\ s2[Len(s1) + 1] = 0
    BY <2>0, <2>1, Appended
  <2> HIDE DEF s2
  <2>3. /\ Len(s2) = Len(s) + 2 /\ s2[Len(s) + 1] = u /\ s2[Len(s) + 2] = 0
        /\ \A i \in 1 .. Len(s) : s2[i] = s[i]
    <3>1. Len(s2) = Len(s) + 2 /\ Len(s1) + 1 = Len(s) + 2
      BY <2>1, <2>2, <1>0
    <3>2. Len(s) + 1 \in 1 .. Len(s1) /\ \A i \in 1 .. Len(s) : i \in 1 .. Len(s1)
      BY <2>1, <1>0
    <3> QED BY <3>1, <3>2, <2>1, <2>2
  <2>4. Len(s2) <= MaxCl + 1
    <3>1. Len(s) + 2 <= MaxCl
      BY ChainRoom DEF OneChain
    <3> QED BY <3>1, <2>3, <1>0, Sizes
  <2>5. f1[s2[Len(s2)]] = EOC
    BY <2>3, <1>6, Sizes DEF FatOK
  <2>6. ASSUME NEW i \in 1 .. Len(s2) - 1 PROVE f1[s2[i]] = s2[i + 1]
    <3>1. CASE i = Len(s) + 1
      <4>1. f1[u] = 0
        BY <1>4, <2>0
      <4>2. i + 1 = Len(s) + 2
        BY <3>1, <1>0
      <4> QED BY <4>1, <4>2, <3>1, <2>3
    <3>2. CASE i = Len(s)
      <4>1. s2[i] = p /\ i + 1 = Len(s) + 1
        BY <3>2, <2>3, <1>1
      <4> QED BY <4>1, <2>3, <1>4
    <3>3. CASE i < Len(s)
      <4>1. i \in 1 .. Len(s) /\ i + 1 \in 1 .. Len(s) /\ i \in 1 .. Len(s) - 1
        BY <3>3, <1>0
      <4>2. f[s[i]] = s[i + 1] /\ s2[i] = s[i] /\ s2[i + 1] = s[i + 1]
        BY <4>1, <2>3 DEF IsChain
      <4>3. s[i + 1] # EOC
        <5>1. s[i + 1] \in 0 .. MaxCl
          BY <4>1, <1>0, ElemIn
        <5> QED BY <5>1, Sizes
      <4>4. s[i] # p /\ s[i] \in 0 .. MaxCl
        BY <4>1, <4>2, <4>3, <1>0, <1>2, ElemIn, Sizes
      <4> QED BY <4>2, <4>4, <1>4
    <3> QED BY <3>1, <3>2, <3>3, <2>3, <1>0
  <2>7. s2[1] = c /\ s2 # << >>
    <3>1. 1 \in 1 .. Len(s)
      BY <1>0
    <3> QED BY <3>1, <2>3, <1>0
  <2> QED BY <2>2, <2>4, <2>5, <2>6, <2>7 DEF IsChain, Chains, s2, s1
<1>12. f1[u] = 0
  <2>1. u \in 0 .. MaxCl /\ u # p
    BY <1>2, Sizes
  <2> QED BY <2>1, <1>4
<1> QED BY <1>6, <1>8, <1>9, <1>10, <1>11, <1>12 DEF OneChain

\* Then marked: the chain has the new cluster at its end.
LEMMA MarkChain ==
  ASSUME NEW f, OneChain(f), NoLoose(f), NEW u \in Clusters, f[u] = 0,
         NEW c, IsHead(f, c), NEW s, IsChain(f, c, s),
         NEW f2, f2 = [[f EXCEPT ![s[Len(s)]] = u] EXCEPT ![u] = EOC]
  PROVE  /\ OneChain(f2) /\ NoLoose(f2)
         /\ IsChain(f2, c, Append(s, u))
         /\ \A e : IsHead(f, e) => IsHead(f2, e)
         /\ \A e, t : e # c /\ IsHead(f, e) /\ IsChain(f, e, t) => IsChain(f2, e, t)
<1> DEFINE p == s[Len(s)]
           f1 == [f EXCEPT ![p] = u]
<1>0. s \in Seq(Clusters) /\ Len(s) \in Nat /\ Len(s) >= 1 /\ s \in Seq(0 .. MaxCl) /\ s[1] = c
  BY ChainUsed DEF IsChain, Chains, OneChain
<1>1. Len(s) \in 1 .. Len(s)
  BY <1>0
<1>2. p \in Clusters /\ f[p] = MaxCl + 1 /\ p # u
  BY <1>1, ChainUsed, ElemIn, Sizes DEF IsChain, OneChain
<1>3. f \in [0 .. MaxCl -> {0, MaxCl + 1} \cup 2 .. MaxCl] /\ f[0] = MaxCl + 1 /\ f[1] = MaxCl + 1
  BY DEF OneChain, FatOK
<1>5. u \in 2 .. MaxCl /\ p \in 2 .. MaxCl /\ u \in 0 .. MaxCl /\ p \in 0 .. MaxCl
  BY <1>2, Sizes
<1>4. /\ f2[p] = u /\ f2[u] = MaxCl + 1
      /\ \A b \in 0 .. MaxCl : b # p /\ b # u => f2[b] = f[b]
  BY <1>2, <1>3, <1>5, Sizes
<1>6. FatOK(f2)
  <2>1. f2 \in [0 .. MaxCl -> {0, MaxCl + 1} \cup 2 .. MaxCl]
    BY <1>3, <1>5, Sizes
  <2>2. 0 \in 0 .. MaxCl /\ 1 \in 0 .. MaxCl /\ p # 0 /\ p # 1 /\ u # 0 /\ u # 1
    BY <1>5, Sizes
  <2> QED BY <2>1, <2>2, <1>3, <1>4 DEF FatOK
<1>7. \A b \in Clusters : b \in 0 .. MaxCl /\ f[b] # u
  <2> TAKE b \in Clusters
  <2>1. b \in 0 .. MaxCl
    BY Sizes
  <2>2. f[b] # u
    BY DEF NoLoose
  <2> QED BY <2>1, <2>2
<1>7a. MaxCl + 1 \notin Clusters /\ 0 \notin Clusters
  BY Sizes
<1>8. OneWay(f2)
  <2> SUFFICES ASSUME NEW b \in Clusters, NEW e \in Clusters, f2[b] = f2[e], f2[b] \in Clusters
               PROVE  b = e
    BY DEF OneWay
  <2>0. b # u /\ e # u
    BY <1>4, <1>7a
  <2>1. CASE b # p /\ e # p
    BY <2>0, <2>1, <1>4, <1>7 DEF OneChain, OneWay
  <2>2. CASE b = p \/ e = p
    BY <2>0, <2>2, <1>4, <1>7
  <2> QED BY <2>1, <2>2
<1>9. ASSUME NEW e, IsHead(f, e) PROVE IsHead(f2, e)
  <2>1. e \in Clusters /\ f[e] # 0 /\ e # u
    BY <1>9 DEF IsHead
  <2>2. f2[e] # 0
    BY <2>1, <1>4, <1>7, <1>5
  <2>3. \A b \in Clusters : f2[b] # e
    BY <2>1, <1>9, <1>4, <1>7, <1>7a DEF IsHead
  <2> QED BY <2>1, <2>2, <2>3 DEF IsHead
<1>10. ASSUME NEW e, NEW t, e # c, IsHead(f, e), IsChain(f, e, t) PROVE IsChain(f2, e, t)
  <2>1. ASSUME NEW i \in 1 .. Len(t) PROVE t[i] # p /\ t[i] # u /\ t[i] \in 0 .. MaxCl
    <3>1. t[i] # p
      BY <2>1, <1>10, <1>1, <1>2, ChainsApart DEF OneChain
    <3>2. t[i] \in 0 .. MaxCl
      BY <1>10, <2>1, ElemIn DEF IsChain, Chains
    <3>3. f[t[i]] # 0
      BY <1>10, <2>1, ChainUsed DEF OneChain
    <3> QED BY <3>1, <3>2, <3>3
  <2>2. \A i \in 1 .. Len(t) : f2[t[i]] = f[t[i]]
    BY <2>1, <1>4
  <2> QED BY <2>2, <1>10, SameChain
<1>12. NoLoose(f2)
  <2> SUFFICES ASSUME NEW b \in Clusters, f2[b] \in Clusters
               PROVE  f2[f2[b]] # 0
    BY DEF NoLoose
  <2>1. b # u /\ b \in 0 .. MaxCl
    BY <1>4, <1>7, <1>7a
  <2>2. CASE b = p
    BY <2>2, <1>4, Sizes
  <2>3. CASE b # p
    <3>1. f2[b] = f[b] /\ f[f[b]] # 0 /\ f[b] # u /\ f[b] \in Clusters
      BY <2>1, <2>3, <1>4, <1>7 DEF NoLoose
    <3>2. f[b] \in 0 .. MaxCl /\ u # 0
      BY <3>1, <1>7, <1>5
    <3> QED BY <3>1, <3>2, <1>4
  <2> QED BY <2>2, <2>3
<1>11. IsChain(f2, c, Append(s, u))
  <2> DEFINE s1 == Append(s, u)
  <2>1. /\ s1 \in Seq(0 .. MaxCl) /\ Len(s1) = Len(s) + 1
        /\ (\A i \in 1 .. Len(s) : s1[i] = s[i]) /\ s1[Len(s) + 1] = u
    BY <1>0, <1>5, Appended
  <2> HIDE DEF s1
  <2>4. Len(s1) <= MaxCl + 1
    <3>1. Len(s) + 2 <= MaxCl
      BY ChainRoom DEF OneChain
    <3> QED BY <3>1, <2>1, <1>0, Sizes
  <2>5. f2[s1[Len(s1)]] = EOC
    BY <2>1, <1>4, Sizes
  <2>6. ASSUME NEW i \in 1 .. Len(s1) - 1 PROVE f2[s1[i]] = s1[i + 1]
    <3>2. CASE i = Len(s)
      <4>1. s1[i] = p /\ i + 1 = Len(s) + 1
        BY <3>2, <2>1, <1>1
      <4> QED BY <4>1, <2>1, <1>4
    <3>3. CASE i < Len(s)
      <4>1. i \in 1 .. Len(s) /\ i + 1 \in 1 .. Len(s) /\ i \in 1 .. Len(s) - 1
        BY <3>3, <1>0
      <4>2. f[s[i]] = s[i + 1] /\ s1[i] = s[i] /\ s1[i + 1] = s[i + 1]
        BY <4>1, <2>1 DEF IsChain
      <4>3. s[i + 1] # EOC /\ s[i + 1] \in 0 .. MaxCl
        <5>1. s[i + 1] \in 0 .. MaxCl
          BY <4>1, <1>0, ElemIn
        <5> QED BY <5>1, Sizes
      <4>4. s[i] # p /\ s[i] \in 0 .. MaxCl /\ s[i] # u
        <5>1. s[i] # p
          BY <4>2, <4>3, <1>2, Sizes
        <5>2. s[i] \in 0 .. MaxCl
          BY <4>1, <1>0, ElemIn
        <5>3. f[s[i]] # 0
          BY <4>1, ChainUsed DEF OneChain
        <5> QED BY <5>1, <5>2, <5>3
      <4> QED BY <4>2, <4>4, <1>4
    <3> QED BY <3>2, <3>3, <2>1, <1>0
  <2>7. s1[1] = c /\ s1 # << >>
    <3>1. 1 \in 1 .. Len(s)
      BY <1>0
    <3> QED BY <3>1, <2>1, <1>0
  <2> QED BY <2>1, <2>4, <2>5, <2>6, <2>7 DEF IsChain, Chains, s1
<1> QED BY <1>6, <1>8, <1>9, <1>10, <1>11, <1>12 DEF OneChain

\* Marked only: a chain of its own.
LEMMA OwnChain ==
  ASSUME NEW f, OneChain(f), NoLoose(f), NEW u \in Clusters, f[u] = 0,
         NEW f1, f1 = [f EXCEPT ![u] = EOC]
  PROVE  /\ OneChain(f1) /\ NoLoose(f1) /\ IsHead(f1, u) /\ IsChain(f1, u, << u >>)
         /\ \A e : IsHead(f, e) => IsHead(f1, e)
         /\ \A e, t : IsHead(f, e) /\ IsChain(f, e, t) => IsChain(f1, e, t)
<1>3. f \in [0 .. MaxCl -> {0, MaxCl + 1} \cup 2 .. MaxCl] /\ f[0] = MaxCl + 1 /\ f[1] = MaxCl + 1
  BY DEF OneChain, FatOK
<1>5. u \in 2 .. MaxCl /\ u \in 0 .. MaxCl
  BY Sizes
<1>4. f1[u] = MaxCl + 1 /\ \A b \in 0 .. MaxCl : b # u => f1[b] = f[b]
  BY <1>3, <1>5, Sizes
<1>6. FatOK(f1)
  <2>1. f1 \in [0 .. MaxCl -> {0, MaxCl + 1} \cup 2 .. MaxCl]
    BY <1>3, <1>5, Sizes
  <2>2. 0 \in 0 .. MaxCl /\ 1 \in 0 .. MaxCl /\ u # 0 /\ u # 1
    BY <1>5, Sizes
  <2> QED BY <2>1, <2>2, <1>3, <1>4 DEF FatOK
<1>7. \A b \in Clusters : b \in 0 .. MaxCl /\ f[b] # u
  <2> TAKE b \in Clusters
  <2>1. b \in 0 .. MaxCl
    BY Sizes
  <2>2. f[b] # u
    BY DEF NoLoose
  <2> QED BY <2>1, <2>2
<1>7a. MaxCl + 1 \notin Clusters /\ 0 \notin Clusters /\ MaxCl + 1 # 0
  BY Sizes
<1>8. OneWay(f1)
  BY <1>4, <1>7, <1>7a DEF OneWay, OneChain
<1>9. ASSUME NEW e, IsHead(f, e) PROVE IsHead(f1, e)
  BY <1>9, <1>4, <1>7, <1>7a DEF IsHead
<1>10. ASSUME NEW e, NEW t, IsHead(f, e), IsChain(f, e, t) PROVE IsChain(f1, e, t)
  <2>1. ASSUME NEW i \in 1 .. Len(t) PROVE t[i] # u /\ t[i] \in 0 .. MaxCl
    <3>2. t[i] \in 0 .. MaxCl
      BY <1>10, <2>1, ElemIn DEF IsChain, Chains
    <3>3. f[t[i]] # 0
      BY <1>10, <2>1, ChainUsed DEF OneChain
    <3> QED BY <3>2, <3>3
  <2>2. \A i \in 1 .. Len(t) : f1[t[i]] = f[t[i]]
    BY <2>1, <1>4
  <2> QED BY <2>2, <1>10, SameChain
<1>11. NoLoose(f1)
  BY <1>4, <1>7, <1>7a DEF NoLoose
<1>12. IsHead(f1, u)
  BY <1>4, <1>7, <1>7a DEF IsHead
<1>13. IsChain(f1, u, << u >>)
  <2>1. << u >> \in Seq(0 .. MaxCl) /\ Len(<< u >>) = 1 /\ << u >>[1] = u
    BY <1>5
  <2>2. << u >> # << >> /\ 1 <= MaxCl + 1 /\ 1 .. 1 - 1 = {}
    BY Sizes
  <2> QED BY <2>1, <2>2, <1>4, Sizes DEF IsChain, Chains
<1> QED BY <1>6, <1>8, <1>9, <1>10, <1>11, <1>12, <1>13 DEF OneChain

-----------------------------------------------------------------------------
\* The places for entries along a chain.
Spots == (0 .. MaxCl) \X (0 .. NSlots - 1)
Pos(q, r) == NSlots * (q - 1) + r + 1

LaidOut(pls, s) ==
  /\ s \in Chains /\ pls \in Seq(Spots) /\ Len(pls) = NSlots * Len(s)
  /\ \A q \in 1 .. Len(s), r \in 0 .. NSlots - 1 :
       Pos(q, r) \in 1 .. Len(pls) /\ pls[Pos(q, r)] = << s[q], r >>
  /\ \A j \in 1 .. Len(pls) : \E q \in 1 .. Len(s), r \in 0 .. NSlots - 1 : j = Pos(q, r)

\* Products, and the number of a place in a directory, of the cluster in the chain
\* and the entry in that.
LEMMA Times ==
  ASSUME NEW n \in Nat, NEW q \in Nat, NEW m \in Nat, q <= m
  PROVE  n * q \in Nat /\ n * m \in Nat /\ n * q <= n * m
<1>1. PICK k \in Nat : m = q + k
  <2>1. m - q \in Nat /\ m = q + (m - q)
    OBVIOUS
  <2> QED BY <2>1
<1>2. n * m = n * q + n * k /\ n * k \in Nat /\ n * q \in Nat
  BY <1>1
<1> QED BY <1>2

\* The place number of an entry, and back.
LEMMA PosIn ==
  ASSUME NEW m \in Nat, NEW q \in 1 .. m, NEW r \in 0 .. NSlots - 1
  PROVE  /\ Pos(q, r) \in 1 .. NSlots * m /\ (Pos(q, r) - 1) \div NSlots = q - 1
         /\ (Pos(q, r) - 1) % NSlots = r
<1>1. q - 1 \in Nat /\ q \in Nat /\ q <= m /\ NSlots \in Nat \ {0}
  BY Sizes
<1>2. NSlots * (q - 1) \in Nat /\ NSlots * q = NSlots * (q - 1) + NSlots
  BY <1>1
<1>3. NSlots * q <= NSlots * m /\ NSlots * q \in Nat /\ NSlots * m \in Nat
  BY <1>1, Times
<1> DEFINE x == NSlots * (q - 1)
           y == NSlots * q
           z == NSlots * m
<1>4. x + r + 1 \in 1 .. z
  <2>1. x \in Nat /\ y \in Nat /\ z \in Nat /\ y = x + NSlots /\ y <= z
    BY <1>2, <1>3
  <2> HIDE DEF x, y, z
  <2> QED BY <2>1, Sizes
<1>5. Pos(q, r) \in 1 .. NSlots * m
  BY <1>4 DEF Pos
<1>6. Pos(q, r) - 1 = NSlots * (q - 1) + r
  <2>1. x \in Nat
    BY <1>2
  <2> HIDE DEF x
  <2>2. x + r + 1 - 1 = x + r
    BY <2>1, Sizes
  <2>3. Pos(q, r) = x + r + 1
    BY DEF Pos, x
  <2>4. Pos(q, r) - 1 = x + r
    BY <2>1, <2>2, <2>3, Sizes
  <2> QED BY <2>4 DEF x
<1>7. (NSlots * (q - 1) + r) \div NSlots = q - 1 /\ (NSlots * (q - 1) + r) % NSlots = r
  BY <1>1, DivModIs
<1> QED BY <1>5, <1>6, <1>7

\* Every place number is that of an entry.
LEMMA IsPos ==
  ASSUME NEW m \in Nat, NEW j \in 1 .. NSlots * m
  PROVE  /\ (j - 1) \div NSlots + 1 \in 1 .. m /\ (j - 1) % NSlots \in 0 .. NSlots - 1
         /\ j = Pos((j - 1) \div NSlots + 1, (j - 1) % NSlots)
<1> DEFINE p == (j - 1) \div NSlots
           r == (j - 1) % NSlots
           z == NSlots * m
<1>1. NSlots \in Nat \ {0} /\ z \in Nat
  BY Sizes
<1>2. j \in Nat /\ j >= 1 /\ j - 1 \in Nat /\ j <= z
  <2>1. j \in 1 .. z
    OBVIOUS
  <2> HIDE DEF z
  <2> QED BY <1>1, <2>1
<1>3. p \in Nat /\ r \in 0 .. NSlots - 1 /\ j - 1 = NSlots * p + r
  BY <1>1, <1>2, DivMod
<1> HIDE DEF p, r
<1>4. p + 1 <= m
  <2> SUFFICES ASSUME ~ (p + 1 <= m) PROVE FALSE
    OBVIOUS
  <2>1. m <= p
    BY <1>3
  <2>2. NSlots * m <= NSlots * p /\ NSlots * p \in Nat
    BY <2>1, <1>1, <1>3, Times
  <2> DEFINE y == NSlots * p
  <2>3. j - 1 = y + r /\ z <= y /\ y \in Nat
    BY <2>2, <1>3
  <2> HIDE DEF y, z
  <2> QED BY <2>3, <1>1, <1>2, <1>3
<1>5. j = Pos(p + 1, r)
  <2>1. (p + 1) - 1 = p
    BY <1>3
  <2> DEFINE y == NSlots * p
  <2>2. j - 1 = y + r /\ y \in Nat
    BY <1>3, Sizes
  <2> HIDE DEF y
  <2>3. j = y + r + 1
    BY <2>2, <1>2, <1>3, Sizes
  <2> QED BY <2>1, <2>3 DEF Pos, y
<1>6. p + 1 \in 1 .. m
  BY <1>3, <1>4
<1> QED BY <1>3, <1>5, <1>6 DEF p, r

\* Places has every entry of every cluster of the chain, in their order.
LEMMA PlacesAre ==
  ASSUME NEW d, Typed(d), NEW c \in 0 .. MaxCl
  PROVE  LaidOut(Places(d, c), ChainFrom(d, c))
<1> DEFINE s == ChainFrom(d, c)
           pls == Places(d, c)
<1>1. s \in Chains
  BY ChainSteps, Sizes DEF Walked
<1>2. Len(s) \in Nat /\ s \in Seq(0 .. MaxCl) /\ NSlots * Len(s) \in Nat
  <2>1. Len(s) \in Nat /\ s \in Seq(0 .. MaxCl)
    BY <1>1 DEF Chains
  <2> QED BY <2>1, Sizes
<1>3. pls = [j \in 1 .. NSlots * Len(s) |-> << s[((j - 1) \div NSlots) + 1], (j - 1) % NSlots >>]
  BY DEF Places
<1> HIDE DEF s, pls
<1>4. ASSUME NEW j \in 1 .. NSlots * Len(s)
      PROVE  pls[j] \in Spots /\ \E q \in 1 .. Len(s), r \in 0 .. NSlots - 1 : j = Pos(q, r)
  <2> DEFINE q == (j - 1) \div NSlots + 1
             r == (j - 1) % NSlots
  <2>1. q \in 1 .. Len(s) /\ r \in 0 .. NSlots - 1 /\ j = Pos(q, r)
    BY <1>2, IsPos
  <2>2. pls[j] = << s[q], r >>
    BY <1>3
  <2> HIDE DEF q, r
  <2>3. s[q] \in 0 .. MaxCl
    BY <2>1, <1>2, ElemIn
  <2> QED BY <2>1, <2>2, <2>3 DEF Spots
<1>5. pls \in Seq(Spots) /\ Len(pls) = NSlots * Len(s)
  <2> DEFINE z == NSlots * Len(s)
  <2>1. z \in Nat /\ DOMAIN pls = 1 .. z /\ pls = [j \in 1 .. z |-> pls[j]]
    BY <1>2, <1>3
  <2>2. \A j \in 1 .. z : pls[j] \in Spots
    BY <1>4
  <2> HIDE DEF z
  <2>3. pls \in [1 .. z -> Spots]
    BY <2>1, <2>2
  <2>4. pls \in Seq(Spots) /\ Len(pls) = z
    BY <2>1, <2>3
  <2> QED BY <2>4 DEF z
<1>6. ASSUME NEW q \in 1 .. Len(s), NEW r \in 0 .. NSlots - 1
      PROVE  Pos(q, r) \in 1 .. Len(pls) /\ pls[Pos(q, r)] = << s[q], r >>
  <2>1. /\ Pos(q, r) \in 1 .. NSlots * Len(s) /\ (Pos(q, r) - 1) \div NSlots = q - 1
        /\ (Pos(q, r) - 1) % NSlots = r
    BY <1>2, PosIn
  <2>2. pls[Pos(q, r)] = << s[(q - 1) + 1], r >>
    BY <2>1, <1>3
  <2>3. (q - 1) + 1 = q
    BY <1>2
  <2> QED BY <2>1, <2>2, <2>3, <1>5
<1>7. \A j \in 1 .. Len(pls) : \E q \in 1 .. Len(s), r \in 0 .. NSlots - 1 : j = Pos(q, r)
  BY <1>4, <1>5
<1>8. LaidOut(pls, s)
  BY <1>1, <1>5, <1>6, <1>7 DEF LaidOut
<1> QED BY <1>8 DEF pls, s

\* The place after one that is not the last of its cluster, and the one before.
LEMMA NextPlace ==
  ASSUME NEW pls, NEW s, LaidOut(pls, s), NEW j \in 1 .. Len(pls), pls[j][2] + 1 < NSlots
  PROVE  j + 1 \in 1 .. Len(pls) /\ pls[j + 1] = << pls[j][1], pls[j][2] + 1 >>
<1>1. PICK q \in 1 .. Len(s), r \in 0 .. NSlots - 1 : j = Pos(q, r)
  BY DEF LaidOut
<1>2. pls[j] = << s[q], r >>
  BY <1>1 DEF LaidOut
<1>3. r + 1 \in 0 .. NSlots - 1
  BY <1>2, Sizes
<1>4. Pos(q, r + 1) = j + 1
  <2> DEFINE x == NSlots * (q - 1)
  <2>1. q \in Nat
    BY DEF LaidOut, Chains
  <2>2. x \in Int
    BY <2>1, Sizes
  <2>3. j = x + r + 1 /\ Pos(q, r + 1) = x + (r + 1) + 1
    BY <1>1 DEF Pos
  <2> HIDE DEF x
  <2> QED BY <2>2, <2>3, Sizes
<1>5. pls[Pos(q, r + 1)] = << s[q], r + 1 >> /\ Pos(q, r + 1) \in 1 .. Len(pls)
  BY <1>3 DEF LaidOut
<1> QED BY <1>2, <1>4, <1>5

\* Each place of each of the clusters, and no other; each once, if each cluster is.
LEMMA PlaceIn ==
  ASSUME NEW pls, NEW s, LaidOut(pls, s)
  PROVE  /\ \A j \in 1 .. Len(pls) : /\ pls[j] \in Spots /\ pls[j] = << pls[j][1], pls[j][2] >>
                                     /\ \E q \in 1 .. Len(s) : pls[j][1] = s[q]
         /\ \A q \in 1 .. Len(s), r \in 0 .. NSlots - 1 : \E j \in 1 .. Len(pls) : pls[j] = << s[q], r >>
         /\ Len(pls) \in Nat /\ Len(pls) >= 2 /\ pls[Len(pls)] = << s[Len(s)], NSlots - 1 >>
<1>0. s \in Seq(0 .. MaxCl) /\ Len(s) \in Nat /\ Len(s) >= 1
  BY DEF LaidOut, Chains
<1>1. ASSUME NEW j \in 1 .. Len(pls)
      PROVE  /\ pls[j] \in Spots /\ pls[j] = << pls[j][1], pls[j][2] >>
             /\ \E q \in 1 .. Len(s) : pls[j][1] = s[q]
  <2>1. PICK q \in 1 .. Len(s), r \in 0 .. NSlots - 1 : j = Pos(q, r)
    BY DEF LaidOut
  <2>2. pls[j] = << s[q], r >>
    BY <2>1 DEF LaidOut
  <2>3. pls[j] \in Spots
    BY ElemIn DEF LaidOut
  <2> QED BY <2>2, <2>3
<1>2. ASSUME NEW q \in 1 .. Len(s), NEW r \in 0 .. NSlots - 1
      PROVE  \E j \in 1 .. Len(pls) : pls[j] = << s[q], r >>
  BY DEF LaidOut
<1>3. Len(pls) \in Nat /\ Len(pls) >= 2 /\ pls[Len(pls)] = << s[Len(s)], NSlots - 1 >>
  <2>1. Len(s) \in 1 .. Len(s) /\ NSlots - 1 \in 0 .. NSlots - 1 /\ Len(s) - 1 \in Nat
    BY <1>0, Sizes
  <2>2. Pos(Len(s), NSlots - 1) = NSlots * Len(s)
    <3>1. NSlots * Len(s) = NSlots * (Len(s) - 1) + NSlots
      BY <1>0, Sizes
    <3> DEFINE x == NSlots * (Len(s) - 1)
    <3>2. x \in Nat
      BY <2>1, Sizes
    <3>3. NSlots * Len(s) = x + NSlots
      BY <3>1
    <3> HIDE DEF x
    <3>4. x + NSlots = x + (NSlots - 1) + 1
      BY <3>2, Sizes
    <3> QED BY <3>3, <3>4 DEF Pos, x
  <2>3. NSlots * 1 <= NSlots * Len(s) /\ NSlots * Len(s) \in Nat
    BY <1>0, Sizes, Times
  <2>4. Len(pls) = NSlots * Len(s) /\ pls[Pos(Len(s), NSlots - 1)] = << s[Len(s)], NSlots - 1 >>
    BY <2>1 DEF LaidOut
  <2> QED BY <2>2, <2>3, <2>4, Sizes
<1> QED BY <1>1, <1>2, <1>3

\* No place comes twice, if no cluster does.
LEMMA OnePlace ==
  ASSUME NEW pls, NEW s, LaidOut(pls, s), \A i, k \in 1 .. Len(s) : s[i] = s[k] => i = k,
         NEW i \in 1 .. Len(pls), NEW j \in 1 .. Len(pls), pls[i] = pls[j]
  PROVE  i = j
<1>1. PICK q \in 1 .. Len(s), r \in 0 .. NSlots - 1 : i = Pos(q, r)
  BY DEF LaidOut
<1>2. PICK p \in 1 .. Len(s), t \in 0 .. NSlots - 1 : j = Pos(p, t)
  BY DEF LaidOut
<1>3. pls[i] = << s[q], r >> /\ pls[j] = << s[p], t >>
  BY <1>1, <1>2 DEF LaidOut
<1> QED BY <1>1, <1>2, <1>3

\* The places along a longer chain begin with those along the shorter.
LEMMA MorePlaces ==
  ASSUME NEW pls, NEW s, LaidOut(pls, s), NEW pls2, NEW s2, LaidOut(pls2, s2),
         Len(s) < Len(s2), \A i \in 1 .. Len(s) : s2[i] = s[i]
  PROVE  /\ Len(pls) < Len(pls2) /\ \A j \in 1 .. Len(pls) : pls2[j] = pls[j]
         /\ \A j \in 1 .. Len(pls2) : j > Len(pls) => \E q \in Len(s) + 1 .. Len(s2) : pls2[j][1] = s2[q]
         /\ pls2[Len(pls) + 1] = << s2[Len(s) + 1], 0 >>
<1>0. Len(s) \in Nat /\ Len(s2) \in Nat /\ Len(s) + 1 <= Len(s2) /\ Len(s) >= 1
  BY DEF LaidOut, Chains
<1>1. Len(pls) = NSlots * Len(s) /\ Len(pls2) = NSlots * Len(s2) /\ Len(pls) \in Nat /\ Len(pls2) \in Nat
  BY PlaceIn DEF LaidOut
<1>2. Len(pls) < Len(pls2)
  <2>1. NSlots * (Len(s) + 1) <= NSlots * Len(s2)
    BY <1>0, Sizes, Times
  <2>2. NSlots * (Len(s) + 1) = NSlots * Len(s) + NSlots
    BY <1>0, Sizes
  <2>3. Len(pls) + NSlots <= Len(pls2)
    BY <2>1, <2>2, <1>1
  <2> QED BY <2>3, <1>1, Sizes
<1>3. ASSUME NEW j \in 1 .. Len(pls) PROVE pls2[j] = pls[j]
  <2>1. PICK q \in 1 .. Len(s), r \in 0 .. NSlots - 1 : j = Pos(q, r)
    BY DEF LaidOut
  <2>2. q \in 1 .. Len(s2) /\ s2[q] = s[q]
    BY <1>0
  <2>3. pls[j] = << s[q], r >>
    BY <2>1 DEF LaidOut
  <2>4. pls2[j] = << s2[q], r >>
    BY <2>1, <2>2 DEF LaidOut
  <2> QED BY <2>2, <2>3, <2>4
<1>4. ASSUME NEW j \in 1 .. Len(pls2), j > Len(pls)
      PROVE  \E q \in Len(s) + 1 .. Len(s2) : pls2[j][1] = s2[q]
  <2>1. PICK q \in 1 .. Len(s2), r \in 0 .. NSlots - 1 : j = Pos(q, r)
    BY DEF LaidOut
  <2>2. pls2[j] = << s2[q], r >>
    BY <2>1 DEF LaidOut
  <2>3. q > Len(s)
    <3> SUFFICES ASSUME ~ (q > Len(s)) PROVE FALSE
      OBVIOUS
    <3>1. q \in 1 .. Len(s)
      BY <1>0
    <3>2. Pos(q, r) \in 1 .. Len(pls)
      BY <3>1 DEF LaidOut
    <3> QED BY <3>2, <2>1, <1>4, <1>1
  <2> QED BY <2>2, <2>3, <1>0
<1>5. pls2[Len(pls) + 1] = << s2[Len(s) + 1], 0 >>
  <2>1. Len(s) + 1 \in 1 .. Len(s2) /\ 0 \in 0 .. NSlots - 1
    BY <1>0, Sizes
  <2>2. Pos(Len(s) + 1, 0) = Len(pls) + 1
    <3>1. (Len(s) + 1) - 1 = Len(s) /\ NSlots * Len(s) + 0 + 1 = NSlots * Len(s) + 1
      BY <1>0, <1>1
    <3> QED BY <3>1, <1>1 DEF Pos
  <2> QED BY <2>1, <2>2 DEF LaidOut
<1> QED BY <1>2, <1>3, <1>4, <1>5

-----------------------------------------------------------------------------
\* What is at a place.
LEMMA SlotIs ==
  ASSUME NEW e \in Slot
  PROVE  \/ e = Free /\ e.t = "free"
         \/ e.t = "long" /\ e.name \in Names /\ e = Long(e.name)
         \/ /\ e.t = "short" /\ e.dir \in BOOLEAN /\ e.cl \in {0} \cup Clusters /\ e.sz \in Nat
            /\ e = Short(e.dir, e.cl, e.sz)
<1>1. CASE e \in {Free}
  BY <1>1 DEF Free
<1>2. CASE e \in [t : {"long"}, name : Names]
  BY <1>2 DEF Long
<1>3. CASE e \in [t : {"short"}, dir : BOOLEAN, cl : {0} \cup Clusters, sz : Nat]
  BY <1>3 DEF Short
<1> QED BY <1>1, <1>2, <1>3 DEF Slot

\* What is at a place is unused, a name or an entry.
LEMMA AtSlot ==
  ASSUME NEW d, Typed(d), NEW pl \in Spots
  PROVE  At(d, pl) \in Slot
<1>1. pl[1] \in 0 .. MaxCl /\ pl[2] \in 0 .. NSlots - 1
  BY DEF Spots
<1>2. d.ent \in [0 .. MaxCl -> [0 .. NSlots - 1 -> Slot]]
  BY DEF Typed
<1> QED BY <1>1, <1>2 DEF At

\* The entries that have a name before them.
LEMMA NamedAt ==
  ASSUME NEW d, Typed(d), NEW pl \in Named(d)
  PROVE  /\ pl \in Clusters \X (1 .. NSlots - 1) /\ pl \in Spots /\ << pl[1], pl[2] - 1 >> \in Spots
         /\ At(d, pl).t = "short" /\ At(d, << pl[1], pl[2] - 1 >>).t = "long"
         /\ At(d, pl).dir \in BOOLEAN /\ At(d, pl).cl \in {0} \cup Clusters /\ At(d, pl).sz \in Nat
         /\ At(d, pl) = Short(At(d, pl).dir, At(d, pl).cl, At(d, pl).sz)
<1>1. /\ pl \in Clusters \X (1 .. NSlots - 1) /\ At(d, pl).t = "short"
      /\ At(d, << pl[1], pl[2] - 1 >>).t = "long"
  BY DEF Named
<1>2. pl \in Spots /\ << pl[1], pl[2] - 1 >> \in Spots
  BY <1>1, Sizes DEF Spots
<1>3. At(d, pl) \in Slot
  BY <1>2, AtSlot
<1> HIDE DEF Named
<1> QED BY <1>1, <1>2, <1>3, SlotIs DEF Free

-----------------------------------------------------------------------------
\* The steps that Entries takes.
Dirents == [name : Names, at : SUBSET Spots]
IsShort(d, pls, j) == j \in DOMAIN pls /\ At(d, pls[j]).t = "short"
EntryOf(d, pls, k) == [name |-> At(d, pls[k]).name,
                       at   |-> { pls[j] : j \in { i \in {k + 1} : IsShort(d, pls, i) } }]
NextUp(d, pls, k, es) ==
  IF At(d, pls[k]).t # "long" THEN es ELSE Append(es, EntryOf(d, pls, k))

Listing(d, pls, up) ==
  /\ up[0] = << >> /\ \A k \in 1 .. Len(pls) : up[k] = NextUp(d, pls, k, up[k - 1])
  /\ \A k \in 0 .. Len(pls) : up[k] \in Seq(Dirents)

\* What Entries notes for a name.
LEMMA EntryOfIs ==
  ASSUME NEW d, Typed(d), NEW pls \in Seq(Spots), NEW k \in 1 .. Len(pls), At(d, pls[k]).t = "long"
  PROVE  /\ EntryOf(d, pls, k) \in Dirents
         /\ EntryOf(d, pls, k).at = IF IsShort(d, pls, k + 1) THEN {pls[k + 1]} ELSE {}
<1>1. At(d, pls[k]) \in Slot
  BY ElemIn, AtSlot
<1>2. At(d, pls[k]).name \in Names
  BY <1>1, SlotIs DEF Free
<1>3. EntryOf(d, pls, k).at = IF IsShort(d, pls, k + 1) THEN {pls[k + 1]} ELSE {}
  BY DEF EntryOf
<1>4. IsShort(d, pls, k + 1) => pls[k + 1] \in Spots
  <2>1. IsShort(d, pls, k + 1) => k + 1 \in 1 .. Len(pls)
    BY DEF IsShort
  <2> QED BY <2>1, ElemIn
<1> QED BY <1>2, <1>3, <1>4 DEF EntryOf, Dirents

\* Entries takes these steps.
LEMMA EntrySteps ==
  ASSUME NEW d, Typed(d), NEW c \in 0 .. MaxCl
  PROVE  \E up : Listing(d, Places(d, c), up) /\ Entries(d, c) = up[Len(Places(d, c))]
<1> DEFINE pls == Places(d, c)
           Is(e) == e = [k \in 0 .. Len(pls) |->
                           IF k = 0 THEN << >>
                           ELSE IF At(d, pls[k]).t # "long" THEN e[k - 1]
                           ELSE Append(e[k - 1], [name |-> At(d, pls[k]).name,
                                  at |-> { pls[j] : j \in { i \in {k + 1} :
                                             i \in DOMAIN pls /\ At(d, pls[i]).t = "short" } }])]
           T == [k \in 0 .. Len(pls) |-> Seq(Dirents)]
           g == [k \in 1 .. Len(pls) |-> [x \in Seq(Dirents) |-> NextUp(d, pls, k, x)]]
<1>1. pls \in Seq(Spots) /\ Len(pls) \in Nat
  BY PlacesAre DEF LaidOut
<1>2. Entries(d, c) = (CHOOSE e : Is(e))[Len(pls)]
  BY DEF Entries
<1> HIDE DEF pls
<1>3. ASSUME NEW k \in 1 .. Len(pls), NEW x \in Seq(Dirents) PROVE NextUp(d, pls, k, x) \in Seq(Dirents)
  <2>1. CASE At(d, pls[k]).t # "long"
    BY <2>1 DEF NextUp
  <2>2. CASE At(d, pls[k]).t = "long"
    <3>1. EntryOf(d, pls, k) \in Dirents
      BY <2>2, <1>1, EntryOfIs
    <3> QED BY <3>1, <2>2, Appended DEF NextUp
  <2> QED BY <2>1, <2>2
<1>4. << >> \in T[0] /\ \A k \in 1 .. Len(pls) : \A x \in T[k - 1] : g[k][x] \in T[k]
  <2>1. \A k \in 1 .. Len(pls) : k - 1 \in 0 .. Len(pls) /\ k \in 0 .. Len(pls)
    BY <1>1
  <2>2. 0 \in 0 .. Len(pls)
    BY <1>1
  <2> QED BY <2>1, <2>2, <1>3
<1>5. PICK f : Stepped(f, Len(pls), T, << >>, g)
  <2> DEFINE a == << >>
  <2>1. a \in T[0] /\ \A k \in 1 .. Len(pls) : \A x \in T[k - 1] : g[k][x] \in T[k]
    BY <1>4
  <2> HIDE DEF T, g, a
  <2>2. \E f : Stepped(f, Len(pls), T, a, g)
    BY <1>1, <2>1, Iterated
  <2> QED BY <2>2 DEF a
<1>6. /\ f = [k \in 0 .. Len(pls) |-> f[k]] /\ f[0] = << >>
      /\ \A k \in 1 .. Len(pls) : f[k] = NextUp(d, pls, k, f[k - 1])
  <2>1. \A k \in 1 .. Len(pls) : k - 1 \in 0 .. Len(pls)
    BY <1>1
  <2>2. \A k \in 0 .. Len(pls) : f[k] \in Seq(Dirents)
    BY <1>5 DEF Stepped
  <2>3. \A k \in 1 .. Len(pls) : f[k] = NextUp(d, pls, k, f[k - 1])
    BY <2>1, <2>2, <1>5 DEF Stepped
  <2>4. f = [k \in 0 .. Len(pls) |-> f[k]] /\ f[0] = << >>
    BY <1>5 DEF Stepped
  <2> QED BY <2>3, <2>4
<1>7. Is(f)
  <2> DEFINE h == [k \in 0 .. Len(pls) |->
                     IF k = 0 THEN << >>
                     ELSE IF At(d, pls[k]).t # "long" THEN f[k - 1]
                     ELSE Append(f[k - 1], [name |-> At(d, pls[k]).name,
                            at |-> { pls[j] : j \in { i \in {k + 1} :
                                       i \in DOMAIN pls /\ At(d, pls[i]).t = "short" } }])]
  <2>1. \A k \in 0 .. Len(pls) : f[k] = h[k]
    <3> TAKE k \in 0 .. Len(pls)
    <3>1. CASE k = 0
      BY <3>1, <1>6
    <3>2. CASE k # 0
      <4>1. k \in 1 .. Len(pls)
        BY <3>2, <1>1
      <4>2. f[k] = NextUp(d, pls, k, f[k - 1])
        BY <4>1, <1>6
      <4> QED BY <4>2, <3>2, Zenon DEF NextUp, EntryOf, IsShort
    <3> QED BY <3>1, <3>2
  <2>2. h = [k \in 0 .. Len(pls) |-> h[k]]
    OBVIOUS
  <2>3. f = h
    <3> HIDE DEF h
    <3> QED BY <2>1, <2>2, <1>6
  <2> QED BY <2>3
<1> DEFINE up == CHOOSE e : Is(e)
<1>8. Is(up)
  <2> HIDE DEF Is
  <2> QED BY <1>7, Zenon
<1>9. Entries(d, c) = up[Len(pls)]
  BY <1>2
<1> HIDE DEF up
<1>10. up[0] = << >> /\ \A k \in 1 .. Len(pls) : up[k] = NextUp(d, pls, k, up[k - 1])
  <2>1. 0 \in 0 .. Len(pls) /\ \A k \in 1 .. Len(pls) : k \in 0 .. Len(pls) /\ k # 0
    BY <1>1
  <2>2. up[0] = << >>
    BY <1>8, <2>1
  <2>3. ASSUME NEW k \in 1 .. Len(pls) PROVE up[k] = NextUp(d, pls, k, up[k - 1])
    <3>1. k \in 0 .. Len(pls) /\ k # 0
      BY <2>1
    <3>2. up[k] = IF k = 0 THEN << >>
                  ELSE IF At(d, pls[k]).t # "long" THEN up[k - 1]
                  ELSE Append(up[k - 1], [name |-> At(d, pls[k]).name,
                         at |-> { pls[j] : j \in { i \in {k + 1} :
                                    i \in DOMAIN pls /\ At(d, pls[i]).t = "short" } }])
      BY <3>1, <1>8, Zenon
    <3> QED BY <3>1, <3>2, Zenon DEF NextUp, EntryOf, IsShort
  <2> QED BY <2>2, <2>3
<1>11. \A k \in 0 .. Len(pls) : up[k] \in Seq(Dirents)
  <2> DEFINE M == { k \in 0 .. Len(pls) : up[k] \in Seq(Dirents) }
  <2>1. 0 \in M
    <3>1. 0 \in 0 .. Len(pls) /\ << >> \in Seq(Dirents)
      BY <1>1
    <3> QED BY <3>1, <1>10
  <2>2. ASSUME NEW k \in 1 .. Len(pls), k - 1 \in M PROVE k \in M
    BY <2>2, <1>1, <1>3, <1>10
  <2>3. 0 .. Len(pls) \subseteq M
    <3> HIDE DEF M
    <3> QED BY <2>1, <2>2, UpToAll, <1>1
  <2> QED BY <2>3
<1> QED BY <1>9, <1>10, <1>11 DEF Listing, pls

-----------------------------------------------------------------------------
\* Where an entry comes from.
LEMMA EntryFrom ==
  ASSUME NEW d, Typed(d), NEW pls \in Seq(Spots), NEW up, Listing(d, pls, up)
  PROVE  \A k \in 0 .. Len(pls) : \A i \in 1 .. Len(up[k]) :
           \E j \in 1 .. k : At(d, pls[j]).t = "long" /\ up[k][i] = EntryOf(d, pls, j)
<1> DEFINE P(k) == \A i \in 1 .. Len(up[k]) :
                     \E j \in 1 .. k : At(d, pls[j]).t = "long" /\ up[k][i] = EntryOf(d, pls, j)
           M == { k \in 0 .. Len(pls) : P(k) }
<1>0. Len(pls) \in Nat
  OBVIOUS
<1>1. 0 \in M
  <2>1. up[0] = << >> /\ 0 \in 0 .. Len(pls)
    BY <1>0 DEF Listing
  <2>2. 1 .. Len(<< >>) = {}
    OBVIOUS
  <2> QED BY <2>1, <2>2
<1>2. ASSUME NEW k \in 1 .. Len(pls), k - 1 \in M PROVE k \in M
  <2>1. k \in Nat /\ k - 1 \in 0 .. Len(pls) /\ k \in 0 .. Len(pls)
    BY <1>0
  <2>2. up[k] = NextUp(d, pls, k, up[k - 1]) /\ up[k - 1] \in Seq(Dirents)
    BY <2>1 DEF Listing
  <2>3. P(k - 1)
    BY <1>2
  <2>4. ASSUME NEW i \in 1 .. Len(up[k])
        PROVE  \E j \in 1 .. k : At(d, pls[j]).t = "long" /\ up[k][i] = EntryOf(d, pls, j)
    <3>1. CASE At(d, pls[k]).t # "long"
      <4>1. up[k] = up[k - 1]
        BY <3>1, <2>2 DEF NextUp
      <4>2. PICK j \in 1 .. k - 1 : At(d, pls[j]).t = "long" /\ up[k][i] = EntryOf(d, pls, j)
        BY <4>1, <2>3
      <4>3. j \in 1 .. k
        BY <2>1
      <4> QED BY <4>2, <4>3
    <3>2. CASE At(d, pls[k]).t = "long"
      <4>1. up[k] = Append(up[k - 1], EntryOf(d, pls, k))
        BY <3>2, <2>2 DEF NextUp
      <4>0. EntryOf(d, pls, k) \in Dirents
        BY <3>2, EntryOfIs
      <4>2. /\ Len(up[k]) = Len(up[k - 1]) + 1 /\ Len(up[k - 1]) \in Nat
            /\ \A l \in 1 .. Len(up[k - 1]) : up[k][l] = up[k - 1][l]
            /\ up[k][Len(up[k - 1]) + 1] = EntryOf(d, pls, k)
        <5>1. Len(up[k - 1]) \in Nat
          BY <2>2
        <5> DEFINE es == up[k - 1]
                   x == EntryOf(d, pls, k)
        <5>2. es \in Seq(Dirents) /\ x \in Dirents /\ up[k] = Append(es, x)
          BY <4>0, <4>1, <2>2
        <5> HIDE DEF es, x
        <5>3. /\ Len(up[k]) = Len(es) + 1 /\ (\A l \in 1 .. Len(es) : up[k][l] = es[l])
              /\ up[k][Len(es) + 1] = x
          BY <5>2, Appended
        <5> QED BY <5>1, <5>3 DEF es, x
      <4>3. CASE i = Len(up[k])
        <5>1. up[k][i] = EntryOf(d, pls, k)
          BY <4>2, <4>3
        <5>2. k \in 1 .. k
          BY <2>1
        <5> QED BY <5>1, <5>2, <3>2
      <4>4. CASE i # Len(up[k])
        <5>1. i \in 1 .. Len(up[k - 1])
          BY <4>2, <4>4
        <5>2. up[k][i] = up[k - 1][i]
          BY <4>2, <5>1
        <5>3. PICK j \in 1 .. k - 1 : At(d, pls[j]).t = "long" /\ up[k - 1][i] = EntryOf(d, pls, j)
          BY <5>1, <2>3
        <5>4. j \in 1 .. k
          BY <2>1
        <5> QED BY <5>2, <5>3, <5>4
      <4> QED BY <4>3, <4>4
    <3> QED BY <3>1, <3>2
  <2> QED BY <2>1, <2>4
<1>3. 0 .. Len(pls) \subseteq M
  <2> HIDE DEF M
  <2> QED BY <1>0, <1>1, <1>2, UpToAll
<1> QED BY <1>3

\* A name is in a cluster of the volume, and has what belongs to it after it.
LEMMA LongAt ==
  ASSUME NEW d, Typed(d), Blanks(d), Followed(d), NEW pls, NEW s, LaidOut(pls, s),
         NEW j \in 1 .. Len(pls), At(d, pls[j]).t = "long"
  PROVE  /\ j + 1 \in 1 .. Len(pls) /\ pls[j + 1] = << pls[j][1], pls[j][2] + 1 >>
         /\ pls[j][1] \in Clusters /\ At(d, pls[j + 1]).t \in {"long", "short"}
         /\ At(d, pls[j + 1]).t = "short" => pls[j + 1] \in Named(d)
<1>1. pls[j] \in Spots /\ pls[j] = << pls[j][1], pls[j][2] >>
  BY PlaceIn
<1> DEFINE e == pls[j][1]
           i == pls[j][2]
<1>2. e \in 0 .. MaxCl /\ i \in 0 .. NSlots - 1
  BY <1>1 DEF Spots
<1>3. e \in Clusters
  <2> SUFFICES ASSUME e \notin Clusters PROVE FALSE
    OBVIOUS
  <2>1. e < 2
    BY <1>2, Sizes
  <2>2. d.ent[e] = Blank
    BY <2>1, <1>2 DEF Blanks
  <2>3. At(d, pls[j]) = Free
    BY <2>2, <1>2 DEF At, Blank
  <2> QED BY <2>3 DEF Free
<1>4. i + 1 < NSlots /\ At(d, << e, i + 1 >>) # Free
  <2>1. At(d, << e, i >>).t = "long"
    BY <1>1
  <2> QED BY <2>1, <1>2, <1>3 DEF Followed
<1>5. j + 1 \in 1 .. Len(pls) /\ pls[j + 1] = << e, i + 1 >>
  BY <1>4, NextPlace
<1>6. At(d, pls[j + 1]) \in Slot /\ pls[j + 1] \in Spots
  BY <1>5, PlaceIn, AtSlot
<1>7. At(d, pls[j + 1]).t \in {"long", "short"}
  BY <1>4, <1>5, <1>6, SlotIs
<1>8. ASSUME At(d, pls[j + 1]).t = "short" PROVE pls[j + 1] \in Named(d)
  <2>1. i + 1 \in 1 .. NSlots - 1 /\ (i + 1) - 1 = i
    BY <1>2, <1>4, Sizes
  <2>2. << e, i + 1 >> \in Clusters \X (1 .. NSlots - 1)
    BY <2>1, <1>3
  <2>3. << e, i + 1 >>[1] = e /\ << e, i + 1 >>[2] = i + 1
    OBVIOUS
  <2>4. At(d, << << e, i + 1 >>[1], << e, i + 1 >>[2] - 1 >>).t = "long"
    BY <2>1, <2>3, <1>1
  <2> HIDE DEF e, i
  <2> QED BY <2>2, <2>4, <1>8, <1>5 DEF Named
<1> QED BY <1>3, <1>5, <1>7, <1>8

\* What an entry of a directory can be.
PlaceAlong(d, c, pl) == pl \in Named(d) /\ \E q \in 1 .. Len(ChainFrom(d, c)) : pl[1] = ChainFrom(d, c)[q]
PlaceOfEntry(d, c, e) == e.at = {} \/ \E pl \in Named(d) : e.at = {pl} /\ PlaceAlong(d, c, pl)

\* Each entry has a name, and a place with an entry along the chain, or none.
LEMMA EntryPlace ==
  ASSUME NEW d, Typed(d), Blanks(d), Followed(d), NEW c \in 0 .. MaxCl,
         NEW i \in 1 .. Len(Entries(d, c))
  PROVE  /\ Entries(d, c) \in Seq(Dirents) /\ Entries(d, c)[i] \in Dirents
         /\ PlaceOfEntry(d, c, Entries(d, c)[i])
<1> DEFINE pls == Places(d, c)
           s == ChainFrom(d, c)
           es == Entries(d, c)
<1>1. LaidOut(pls, s)
  BY PlacesAre
<1>2. PICK up : Listing(d, pls, up) /\ es = up[Len(pls)]
  BY EntrySteps
<1> HIDE DEF pls, s, es
<1>3. pls \in Seq(Spots) /\ Len(pls) \in Nat /\ Len(pls) \in 0 .. Len(pls)
  BY <1>1 DEF LaidOut
<1>4. es \in Seq(Dirents)
  BY <1>2, <1>3 DEF Listing
<1>5. i \in 1 .. Len(es)
  BY DEF es
<1>6. PICK j \in 1 .. Len(pls) : At(d, pls[j]).t = "long" /\ es[i] = EntryOf(d, pls, j)
  BY <1>2, <1>3, <1>5, EntryFrom
<1>7. es[i] \in Dirents /\ es[i].at = IF IsShort(d, pls, j + 1) THEN {pls[j + 1]} ELSE {}
  BY <1>6, <1>3, EntryOfIs
<1>8. /\ j + 1 \in 1 .. Len(pls) /\ pls[j + 1] = << pls[j][1], pls[j][2] + 1 >>
      /\ At(d, pls[j + 1]).t = "short" => pls[j + 1] \in Named(d)
  BY <1>1, <1>6, LongAt
<1>9. \E q \in 1 .. Len(s) : pls[j + 1][1] = s[q]
  BY <1>1, <1>8, PlaceIn
<1>10. IsShort(d, pls, j + 1) => At(d, pls[j + 1]).t = "short"
  BY DEF IsShort
<1>11. PlaceOfEntry(d, c, es[i])
  <2>1. CASE es[i].at = {}
    BY <2>1 DEF PlaceOfEntry
  <2>2. CASE es[i].at # {}
    <3>1. es[i].at = {pls[j + 1]} /\ pls[j + 1] \in Named(d)
      BY <2>2, <1>7, <1>8, <1>10
    <3>2. PlaceAlong(d, c, pls[j + 1])
      BY <3>1, <1>9 DEF PlaceAlong, s
    <3> QED BY <3>1, <3>2 DEF PlaceOfEntry
  <2> QED BY <2>1, <2>2
<1> QED BY <1>4, <1>7, <1>11 DEF es

-----------------------------------------------------------------------------
\* Two volumes with the same entries, but for lengths.
Alike(d, e) == \A x \in Spots :
  /\ At(e, x).t = At(d, x).t
  /\ At(d, x).t = "long" => At(e, x).name = At(d, x).name
  /\ At(d, x).t = "short" => At(e, x).dir = At(d, x).dir /\ At(e, x).cl = At(d, x).cl

\* Places that go on, in blank clusters.
GoesOn(d, pls, pls2) ==
  /\ Len(pls) <= Len(pls2) /\ \A j \in 1 .. Len(pls) : pls2[j] = pls[j]
  /\ \A j \in 1 .. Len(pls2) : j > Len(pls) => At(d, pls2[j]) = Free

\* Entries are the same along a chain that goes on, in blank clusters.
LEMMA ListingSame ==
  ASSUME NEW d, Typed(d), Blanks(d), Followed(d), NEW e, Typed(e), Alike(d, e),
         NEW pls, NEW s, LaidOut(pls, s), NEW pls2, NEW s2, LaidOut(pls2, s2), GoesOn(d, pls, pls2),
         NEW up, Listing(d, pls, up), NEW up2, Listing(e, pls2, up2)
  PROVE  up2[Len(pls2)] = up[Len(pls)]
<1>0. /\ Len(pls) \in Nat /\ Len(pls2) \in Nat /\ Len(pls) <= Len(pls2)
      /\ pls \in Seq(Spots) /\ pls2 \in Seq(Spots)
  BY DEF LaidOut, GoesOn
<1>1. \A j \in 1 .. Len(pls) : /\ j \in 1 .. Len(pls2) /\ pls2[j] = pls[j] /\ pls[j] \in Spots
                               /\ At(e, pls2[j]).t = At(d, pls[j]).t
  <2> TAKE j \in 1 .. Len(pls)
  <2>1. j \in 1 .. Len(pls2) /\ pls2[j] = pls[j] /\ pls[j] \in Spots
    BY <1>0, ElemIn DEF GoesOn
  <2> QED BY <2>1 DEF Alike
<1>2. ASSUME NEW k \in 1 .. Len(pls), At(d, pls[k]).t = "long" PROVE EntryOf(e, pls2, k) = EntryOf(d, pls, k)
  <2>1. k + 1 \in 1 .. Len(pls)
    BY <1>2, LongAt
  <2>2. pls2[k + 1] = pls[k + 1] /\ At(e, pls2[k + 1]).t = At(d, pls[k + 1]).t
    BY <2>1, <1>1
  <2>3. k + 1 \in DOMAIN pls /\ k + 1 \in DOMAIN pls2
    BY <2>1, <1>0, <1>1
  <2>4. IsShort(e, pls2, k + 1) <=> IsShort(d, pls, k + 1)
    BY <2>2, <2>3 DEF IsShort
  <2>5. At(e, pls2[k]).name = At(d, pls[k]).name
    BY <1>1, <1>2 DEF Alike
  <2>6. { pls2[j] : j \in { i \in {k + 1} : IsShort(e, pls2, i) } }
          = { pls[j] : j \in { i \in {k + 1} : IsShort(d, pls, i) } }
    BY <2>2, <2>4
  <2> QED BY <2>5, <2>6 DEF EntryOf
<1> DEFINE M == { k \in 0 .. Len(pls) : up2[k] = up[k] }
<1>3. 0 \in M
  BY <1>0 DEF Listing
<1>4. ASSUME NEW k \in 1 .. Len(pls), k - 1 \in M PROVE k \in M
  <2>1. k \in 1 .. Len(pls2) /\ k \in 0 .. Len(pls) /\ At(e, pls2[k]).t = At(d, pls[k]).t
    BY <1>0, <1>1
  <2>2. up2[k] = NextUp(e, pls2, k, up[k - 1]) /\ up[k] = NextUp(d, pls, k, up[k - 1])
    BY <1>4, <2>1 DEF Listing
  <2>3. NextUp(e, pls2, k, up[k - 1]) = NextUp(d, pls, k, up[k - 1])
    BY <2>1, <1>2 DEF NextUp
  <2> QED BY <2>1, <2>2, <2>3
<1>5. 0 .. Len(pls) \subseteq M
  <2> HIDE DEF M
  <2> QED BY <1>0, <1>3, <1>4, UpToAll
<1>6. up2[Len(pls)] = up[Len(pls)]
  BY <1>0, <1>5
<1> DEFINE n == Len(pls2) - Len(pls)
           N == { m \in 0 .. n : up2[Len(pls) + m] = up[Len(pls)] }
<1>7. n \in Nat /\ Len(pls) + n = Len(pls2) /\ Len(pls) + 0 = Len(pls)
  BY <1>0
<1>8. 0 \in N
  BY <1>6, <1>7
<1>9. ASSUME NEW m \in 1 .. n, m - 1 \in N PROVE m \in N
  <2>1. /\ Len(pls) + m \in 1 .. Len(pls2) /\ Len(pls) + m > Len(pls) /\ m \in 0 .. n
        /\ (Len(pls) + m) - 1 = Len(pls) + (m - 1)
    BY <1>0, <1>7
  <2> DEFINE k == Len(pls) + m
  <2>2. At(d, pls2[k]) = Free /\ pls2[k] \in Spots
    BY <2>1, <1>0, ElemIn DEF GoesOn
  <2>3. At(e, pls2[k]).t = "free"
    BY <2>2 DEF Alike, Free
  <2>4. up2[k] = NextUp(e, pls2, k, up2[k - 1])
    BY <2>1 DEF Listing
  <2>5. up2[k] = up2[k - 1]
    BY <2>3, <2>4 DEF NextUp
  <2>6. up2[k - 1] = up[Len(pls)]
    BY <1>9, <2>1
  <2> QED BY <2>1, <2>5, <2>6
<1>10. 0 .. n \subseteq N
  <2> HIDE DEF N, n
  <2> QED BY <1>7, <1>8, <1>9, UpToAll
<1>11. n \in N
  <2> HIDE DEF N, n
  <2> QED BY <1>7, <1>10
<1> QED BY <1>7, <1>11

-----------------------------------------------------------------------------
\* Volume d has what volume w has: but for lengths, and followed by what was added.
Extends(w, d) ==
  /\ \A pl \in Named(w) : /\ pl \in Named(d) /\ At(d, pl).dir = At(w, pl).dir
                          /\ At(d, pl).cl = At(w, pl).cl
  /\ \A c \in Dirs(w) : LET es == Entries(w, c) IN
       Len(es) <= Len(Entries(d, c)) /\ \A i \in DOMAIN es : Entries(d, c)[i] = es[i]

\* A volume that is formed, by its chains.
LEMMA FormedChains ==
  ASSUME NEW d, Typed(d), Chained(d)
  PROVE  /\ OneChain(d.fat) /\ Dirs(d) \subseteq Heads(d) /\ RootCl \in Dirs(d)
         /\ \A h \in Heads(d) : /\ IsHead(d.fat, h) /\ IsChain(d.fat, h, ChainFrom(d, h))
                                /\ h \in 0 .. MaxCl /\ h \in Clusters
<1>1. OneChain(d.fat)
  BY TypedFat DEF OneChain, OneWay, Chained
<1>2. ASSUME NEW h \in Heads(d)
      PROVE  /\ IsHead(d.fat, h) /\ IsChain(d.fat, h, ChainFrom(d, h))
             /\ h \in 0 .. MaxCl /\ h \in Clusters
  <2>1. h \in Clusters
    <3>1. CASE h = RootCl
      BY <3>1, Sizes
    <3>2. CASE h # RootCl
      <4>1. PICK pl \in Named(d) : h = At(d, pl).cl /\ h # 0
        BY <3>2 DEF Heads
      <4> QED BY <4>1, NamedAt
    <3> QED BY <3>1, <3>2
  <2>2. h \in 0 .. MaxCl
    BY <2>1, Sizes
  <2>3. d.fat[h] # 0 /\ (\A c \in Clusters : d.fat[c] # h) /\ d.fat[Last(ChainFrom(d, h))] = EOC
    BY DEF Chained
  <2>4. IsChain(d.fat, h, ChainFrom(d, h))
    BY <2>2, <2>3, ChainFound
  <2> QED BY <2>1, <2>2, <2>3, <2>4 DEF IsHead
<1>3. Dirs(d) \subseteq Heads(d) /\ RootCl \in Dirs(d)
  <2>1. \A pl \in Named(d) : At(d, pl).dir => At(d, pl).cl # 0
    BY DEF Chained
  <2> QED BY <2>1 DEF Dirs, Heads
<1> QED BY <1>1, <1>2, <1>3

\* Each file and directory has an entry of its own.
OwnHead(d) == \A pl, ql \in Named(d) :
  /\ At(d, pl).cl # RootCl /\ (At(d, pl).dir => At(d, pl).cl # 0)
  /\ At(d, pl).cl = At(d, ql).cl /\ At(d, pl).cl # 0 => pl = ql

\* What makes the files and directories of a volume have chains of their own.
LEMMA ChainedIf ==
  ASSUME NEW d, Typed(d), OneWay(d.fat), OwnHead(d),
         \A h \in Heads(d) : IsHead(d.fat, h) /\ \E s : IsChain(d.fat, h, s)
  PROVE  Chained(d)
<1>1. ASSUME NEW h \in Heads(d)
      PROVE  d.fat[h] # 0 /\ (\A c \in Clusters : d.fat[c] # h) /\ d.fat[Last(ChainFrom(d, h))] = EOC
  <2>1. PICK s : IsChain(d.fat, h, s)
    OBVIOUS
  <2>2. h \in 0 .. MaxCl
    BY Sizes DEF IsHead
  <2>3. ChainFrom(d, h) = s
    BY <2>1, <2>2, ChainIs
  <2>4. d.fat[Last(s)] = EOC
    BY <2>1 DEF IsChain, Last
  <2> QED BY <2>3, <2>4 DEF IsHead
<1> QED BY <1>1 DEF Chained, OneWay, OwnHead

\* A chain that goes on, in blank clusters.
Reaches(d, s, s2) ==
  \/ s2 = s
  \/ /\ Len(s) < Len(s2) /\ \A i \in 1 .. Len(s) : s2[i] = s[i]
     /\ \A q \in Len(s) + 1 .. Len(s2) : d.ent[s2[q]] = Blank

\* Along a chain that goes on, the places do.
LEMMA ReachesOn ==
  ASSUME NEW d, Typed(d), NEW pls, NEW s, LaidOut(pls, s), NEW pls2, NEW s2, LaidOut(pls2, s2),
         Reaches(d, s, s2), pls2 = pls \/ s2 # s
  PROVE  GoesOn(d, pls, pls2)
<1>0. Len(pls) \in Nat /\ Len(pls2) \in Nat
  BY PlaceIn
<1>1. CASE s2 = s
  BY <1>0, <1>1 DEF GoesOn
<1>2. CASE s2 # s
  <2>1. Len(s) < Len(s2) /\ \A i \in 1 .. Len(s) : s2[i] = s[i]
    BY <1>2 DEF Reaches
  <2>2. /\ Len(pls) < Len(pls2) /\ \A j \in 1 .. Len(pls) : pls2[j] = pls[j]
        /\ \A j \in 1 .. Len(pls2) : j > Len(pls) => \E q \in Len(s) + 1 .. Len(s2) : pls2[j][1] = s2[q]
    BY <2>1, MorePlaces
  <2>3. ASSUME NEW j \in 1 .. Len(pls2), j > Len(pls) PROVE At(d, pls2[j]) = Free
    <3>1. PICK q \in Len(s) + 1 .. Len(s2) : pls2[j][1] = s2[q]
      BY <2>2, <2>3
    <3>2. d.ent[pls2[j][1]] = Blank
      BY <3>1, <1>2 DEF Reaches
    <3>3. pls2[j][2] \in 0 .. NSlots - 1
      BY PlaceIn DEF Spots
    <3> QED BY <3>2, <3>3 DEF At, Blank
  <2> QED BY <2>2, <2>3, <1>0 DEF GoesOn
<1> QED BY <1>1, <1>2

\* Where the named entries of two such volumes are.
LEMMA NamedSame ==
  ASSUME NEW d, Typed(d), NEW e, Typed(e), Alike(d, e)
  PROVE  /\ Named(e) = Named(d) /\ Dirs(e) = Dirs(d) /\ Heads(e) = Heads(d)
         /\ \A pl \in Named(d) : At(e, pl).dir = At(d, pl).dir /\ At(e, pl).cl = At(d, pl).cl
<1>1. \A pl \in Clusters \X (1 .. NSlots - 1) : pl \in Spots /\ << pl[1], pl[2] - 1 >> \in Spots
  BY Sizes DEF Spots
<1>2. Named(e) = Named(d)
  BY <1>1 DEF Named, Alike
<1>3. \A pl \in Named(d) : At(e, pl).dir = At(d, pl).dir /\ At(e, pl).cl = At(d, pl).cl
  BY NamedAt DEF Alike
<1>4. Dirs(e) = Dirs(d)
  BY <1>2, <1>3 DEF Dirs
<1>5. Heads(e) = Heads(d)
  BY <1>2, <1>3 DEF Heads
<1> QED BY <1>2, <1>3, <1>4, <1>5

\* What is unused in one is in the other.
LEMMA FreeAlike ==
  ASSUME NEW d, Typed(d), NEW e, Typed(e), Alike(d, e), NEW x \in Spots
  PROVE  At(e, x) = Free <=> At(d, x) = Free
<1>1. At(e, x) \in Slot /\ At(d, x) \in Slot /\ At(e, x).t = At(d, x).t
  BY AtSlot DEF Alike
<1>2. At(e, x) = Free <=> At(e, x).t = "free"
  BY <1>1, SlotIs DEF Free
<1>3. At(d, x) = Free <=> At(d, x).t = "free"
  BY <1>1, SlotIs DEF Free
<1> QED BY <1>1, <1>2, <1>3

\* And what has room for an entry.
LEMMA RoomAlike ==
  ASSUME NEW d, Typed(d), NEW e, Typed(e), Alike(d, e), NEW x \in Spots
  PROVE  RoomAt(e, x) <=> RoomAt(d, x)
<1>1. x[2] + 1 < NSlots => << x[1], x[2] + 1 >> \in Spots
  BY Sizes DEF Spots
<1>2. At(e, x) = Free <=> At(d, x) = Free
  BY FreeAlike
<1>3. x[2] + 1 < NSlots => (At(e, << x[1], x[2] + 1 >>) = Free <=> At(d, << x[1], x[2] + 1 >>) = Free)
  BY <1>1, FreeAlike
<1> QED BY <1>2, <1>3 DEF RoomAt

\* Entries and their order in a directory the chain of which goes on.
LEMMA DirectoryKept ==
  ASSUME NEW d, Typed(d), Blanks(d), Followed(d), NEW e, Typed(e), Alike(d, e),
         NEW c \in 0 .. MaxCl, Reaches(d, ChainFrom(d, c), ChainFrom(e, c))
  PROVE  /\ Entries(e, c) = Entries(d, c)
         /\ GoesOn(d, Places(d, c), Places(e, c))
<1> DEFINE pls == Places(d, c)
           s == ChainFrom(d, c)
           pls2 == Places(e, c)
           s2 == ChainFrom(e, c)
<1>1. LaidOut(pls, s) /\ LaidOut(pls2, s2)
  BY PlacesAre
<1>2. s2 = s => pls2 = pls
  BY DEF Places
<1>3. PICK up : Listing(d, pls, up) /\ Entries(d, c) = up[Len(pls)]
  BY EntrySteps
<1>4. PICK up2 : Listing(e, pls2, up2) /\ Entries(e, c) = up2[Len(pls2)]
  BY EntrySteps
<1>5. GoesOn(d, pls, pls2)
  <2> HIDE DEF pls, s, pls2, s2
  <2>1. Reaches(d, s, s2)
    BY DEF s, s2
  <2> QED BY <1>1, <1>2, <2>1, ReachesOn
<1>6. up2[Len(pls2)] = up[Len(pls)]
  <2> HIDE DEF pls, s, pls2, s2
  <2> QED BY <1>1, <1>3, <1>4, <1>5, ListingSame
<1> QED BY <1>3, <1>4, <1>5, <1>6

PackedDir(d, pls) == \A j, k \in DOMAIN pls : j < k /\ RoomAt(d, pls[j]) => At(d, pls[k]).t # "long"

\* A directory stays packed if its chain goes on.
LEMMA PackedKept ==
  ASSUME NEW d, Typed(d), NEW e, Typed(e), Alike(d, e),
         NEW pls, NEW s, LaidOut(pls, s), NEW pls2, NEW s2, LaidOut(pls2, s2),
         GoesOn(d, pls, pls2), PackedDir(d, pls)
  PROVE  PackedDir(e, pls2)
<1>0. Len(pls) \in Nat /\ Len(pls2) \in Nat /\ DOMAIN pls = 1 .. Len(pls) /\ DOMAIN pls2 = 1 .. Len(pls2)
  BY PlaceIn DEF LaidOut
<1> SUFFICES ASSUME NEW j \in 1 .. Len(pls2), NEW k \in 1 .. Len(pls2), j < k, RoomAt(e, pls2[j])
             PROVE  At(e, pls2[k]).t # "long"
  BY <1>0 DEF PackedDir
<1>1. pls2[j] \in Spots /\ pls2[k] \in Spots
  BY PlaceIn
<1>2. RoomAt(d, pls2[j]) /\ At(e, pls2[k]).t = At(d, pls2[k]).t
  BY <1>1, RoomAlike DEF Alike
<1>3. CASE k > Len(pls)
  BY <1>2, <1>3 DEF GoesOn, Free
<1>4. CASE k <= Len(pls)
  <2>1. j \in 1 .. Len(pls) /\ k \in 1 .. Len(pls)
    BY <1>0, <1>4
  <2>2. pls2[j] = pls[j] /\ pls2[k] = pls[k]
    BY <2>1 DEF GoesOn
  <2> QED BY <2>1, <2>2, <1>0, <1>2 DEF PackedDir
<1> QED BY <1>0, <1>3, <1>4

\* Formed is kept by what changes chains only by letting them go on, and lengths.
LEMMA FormedKept ==
  ASSUME NEW d, Formed(d), NEW e, Typed(e), Alike(d, e), OneWay(e.fat),
         \A h \in Heads(d) : /\ IsHead(e.fat, h)
                             /\ \E s2 : IsChain(e.fat, h, s2) /\ Reaches(d, ChainFrom(d, h), s2),
         \A x \in 0 .. MaxCl : e.fat[x] = 0 => d.fat[x] = 0
  PROVE  /\ Formed(e) /\ Extends(d, e) /\ Named(e) = Named(d) /\ Dirs(e) = Dirs(d)
         /\ \A c \in Dirs(d) : Entries(e, c) = Entries(d, c)
<1>0. Typed(d) /\ Blanks(d) /\ Chained(d) /\ Followed(d) /\ Packed(d)
  BY DEF Formed
<1>1. /\ Named(e) = Named(d) /\ Dirs(e) = Dirs(d) /\ Heads(e) = Heads(d)
      /\ \A pl \in Named(d) : At(e, pl).dir = At(d, pl).dir /\ At(e, pl).cl = At(d, pl).cl
  BY <1>0, NamedSame
<1>2. /\ Dirs(d) \subseteq Heads(d)
      /\ \A h \in Heads(d) : h \in 0 .. MaxCl
  BY <1>0, FormedChains
<1>3. ASSUME NEW h \in Heads(d) PROVE Reaches(d, ChainFrom(d, h), ChainFrom(e, h))
  <2>1. PICK s2 : IsChain(e.fat, h, s2) /\ Reaches(d, ChainFrom(d, h), s2)
    OBVIOUS
  <2>2. ChainFrom(e, h) = s2
    BY <2>1, <1>2, ChainIs
  <2> QED BY <2>1, <2>2
<1>4. \A c \in Dirs(d) : /\ Entries(e, c) = Entries(d, c)
                         /\ GoesOn(d, Places(d, c), Places(e, c)) /\ c \in 0 .. MaxCl
  BY <1>0, <1>2, <1>3, DirectoryKept
<1>5. Extends(d, e)
  <2>1. ASSUME NEW c \in Dirs(d)
        PROVE  Len(Entries(d, c)) <= Len(Entries(e, c))
    <3>1. \E up : Listing(d, Places(d, c), up) /\ Entries(d, c) = up[Len(Places(d, c))]
      BY <1>0, <1>4, EntrySteps
    <3>2. Len(Places(d, c)) \in Nat
      BY <1>0, <1>4, PlacesAre, PlaceIn
    <3>3. Entries(d, c) \in Seq(Dirents)
      BY <3>1, <3>2 DEF Listing
    <3> QED BY <3>3, <1>4
  <2> QED BY <1>1, <1>4, <2>1 DEF Extends
<1>6. Blanks(e)
  <2> SUFFICES ASSUME NEW x \in 0 .. MaxCl, x < 2 \/ e.fat[x] = 0 PROVE e.ent[x] = Blank
    BY DEF Blanks
  <2>1. d.ent[x] = Blank
    BY <1>0 DEF Blanks
  <2>2. \A i \in 0 .. NSlots - 1 : e.ent[x][i] = Free
    <3> TAKE i \in 0 .. NSlots - 1
    <3>1. << x, i >> \in Spots /\ At(d, << x, i >>) = Free
      BY <2>1 DEF Spots, At, Blank
    <3>2. At(e, << x, i >>) = Free
      BY <3>1, <1>0, FreeAlike
    <3> QED BY <3>2 DEF At
  <2>3. e.ent[x] \in [0 .. NSlots - 1 -> Slot]
    BY DEF Typed
  <2> QED BY <2>2, <2>3 DEF Blank
<1>7. Chained(e)
  <2>1. OwnHead(e)
    BY <1>0, <1>1 DEF OwnHead, Chained
  <2>2. \A h \in Heads(e) : IsHead(e.fat, h) /\ \E s : IsChain(e.fat, h, s)
    BY <1>1
  <2> QED BY <2>1, <2>2, ChainedIf
<1>8. Followed(e)
  <2> SUFFICES ASSUME NEW c \in Clusters, NEW i \in 0 .. NSlots - 1, At(e, << c, i >>).t = "long"
               PROVE  i + 1 < NSlots /\ At(e, << c, i + 1 >>) # Free
    BY DEF Followed
  <2>1. << c, i >> \in Spots
    BY Sizes DEF Spots
  <2>2. At(d, << c, i >>).t = "long"
    BY <2>1 DEF Alike
  <2>3. i + 1 < NSlots /\ At(d, << c, i + 1 >>) # Free
    BY <2>2, <1>0 DEF Followed
  <2>4. << c, i + 1 >> \in Spots
    BY <2>3, Sizes DEF Spots
  <2> QED BY <2>3, <2>4, <1>0, FreeAlike
<1>9. Packed(e)
  <2>1. ASSUME NEW c \in Dirs(d) PROVE PackedDir(e, Places(e, c))
    <3>1. LaidOut(Places(d, c), ChainFrom(d, c)) /\ LaidOut(Places(e, c), ChainFrom(e, c))
      BY <1>0, <1>4, PlacesAre
    <3>2. PackedDir(d, Places(d, c))
      BY <1>0 DEF Packed, PackedDir
    <3> QED BY <3>1, <3>2, <1>0, <1>4, PackedKept
  <2> QED BY <2>1, <1>1 DEF Packed, PackedDir
<1> QED BY <1>1, <1>4, <1>5, <1>6, <1>7, <1>8, <1>9 DEF Formed

-----------------------------------------------------------------------------
\* The writes to a volume, one by one.  First those that leave its entries.

\* The volume has everything that d has, and its entries too.
Grows(d, e) == Extends(d, e) /\ \A pl \in Named(d) : At(e, pl) = At(d, pl)

\* The parts of a volume.
LEMMA VolumeParts ==
  ASSUME NEW d, Typed(d)
  PROVE  /\ d = [fat |-> d.fat, ent |-> d.ent]
         /\ d.fat \in [0 .. MaxCl -> {0, EOC} \cup Clusters]
         /\ d.ent \in [0 .. MaxCl -> [0 .. NSlots - 1 -> Slot]]
         /\ d.fat[0] = EOC /\ d.fat[1] = EOC
BY DEF Typed

\* With the same entries, the same is at each place.
LEMMA SameEntries ==
  ASSUME NEW d, NEW e, e.ent = d.ent
  PROVE  Alike(d, e) /\ \A x : At(e, x) = At(d, x)
<1>1. \A x : At(e, x) = At(d, x)
  BY DEF At
<1> QED BY <1>1, Zenon DEF Alike

\* A volume with another table.
LEMMA Refatted ==
  ASSUME NEW d, Typed(d), NEW f, FatOK(f), NEW e, e = [d EXCEPT !.fat = f]
  PROVE  Typed(e) /\ e.fat = f /\ e.ent = d.ent
<1>1. f \in [0 .. MaxCl -> {0, EOC} \cup Clusters] /\ f[0] = EOC /\ f[1] = EOC
  BY Sizes DEF FatOK
<1>2. e = [fat |-> f, ent |-> d.ent]
  BY VolumeParts
<1> QED BY <1>1, <1>2, VolumeParts DEF Typed

\* Linked, said of the table.
LEMMA LinkedNoLoose ==
  ASSUME NEW d PROVE Linked(d) <=> NoLoose(d.fat)
BY DEF Linked, NoLoose

\* The end of a directory's chain linked to an unused cluster.
LEMMA LinkKept ==
  ASSUME NEW d, Formed(d), Linked(d), NEW c \in Dirs(d), NEW u \in Clusters, d.fat[u] = 0,
         NEW p, p = Last(ChainFrom(d, c)), NEW e, e = [d EXCEPT !.fat[p] = u]
  PROVE  Formed(e) /\ Grows(d, e)
<1>0. Typed(d) /\ Chained(d) /\ Blanks(d) /\ NoLoose(d.fat)
  BY LinkedNoLoose DEF Formed
<1>1. /\ OneChain(d.fat) /\ c \in Heads(d)
      /\ \A h \in Heads(d) : /\ IsHead(d.fat, h) /\ IsChain(d.fat, h, ChainFrom(d, h))
                             /\ h \in 0 .. MaxCl /\ h \in Clusters
  BY <1>0, FormedChains
<1> DEFINE s == ChainFrom(d, c)
           f == [d.fat EXCEPT ![p] = u]
<1>2. p = s[Len(s)] /\ s \in Seq(0 .. MaxCl) /\ Len(s) \in Nat
  BY <1>1 DEF Last, IsChain, Chains
<1>3. /\ OneChain(f) /\ f[u] = 0 /\ IsChain(f, c, Append(Append(s, u), 0))
      /\ \A h : IsHead(d.fat, h) => IsHead(f, h)
      /\ \A h, t : h # c /\ IsHead(d.fat, h) /\ IsChain(d.fat, h, t) => IsChain(f, h, t)
  <2> HIDE DEF s
  <2>1. f = [d.fat EXCEPT ![s[Len(s)]] = u]
    BY <1>2
  <2>2. IsHead(d.fat, c) /\ IsChain(d.fat, c, s)
    BY <1>1 DEF s
  <2> HIDE DEF f
  <2> QED BY <2>1, <2>2, <1>0, <1>1, LinkChain
<1>4. e = [d EXCEPT !.fat = f]
  BY <1>0, VolumeParts
<1>5. Typed(e) /\ e.fat = f /\ e.ent = d.ent
  <2> HIDE DEF f
  <2>1. FatOK(f)
    BY <1>3 DEF OneChain
  <2> QED BY <2>1, <1>0, <1>4, Refatted
<1>6. Reaches(d, s, Append(Append(s, u), 0))
  <2>1. d.ent[u] = Blank /\ d.ent[0] = Blank
    BY <1>0, Sizes DEF Blanks
  <2> DEFINE s2 == Append(Append(s, u), 0)
  <2> HIDE DEF s
  <2>2. /\ Len(s2) = Len(s) + 2 /\ \A i \in 1 .. Len(s) : s2[i] = s[i]
        /\ s2[Len(s) + 1] = u /\ s2[Len(s) + 2] = 0
    <3> DEFINE s1 == Append(s, u)
    <3>0. u \in 0 .. MaxCl /\ 0 \in 0 .. MaxCl
      BY Sizes
    <3>1. s1 \in Seq(0 .. MaxCl) /\ Len(s1) = Len(s) + 1 /\ (\A i \in 1 .. Len(s) : s1[i] = s[i]) /\ s1[Len(s) + 1] = u
      BY <1>2, <3>0, Appended
    <3> HIDE DEF s1
    <3>2. /\ Len(Append(s1, 0)) = Len(s1) + 1 /\ (\A i \in 1 .. Len(s1) : Append(s1, 0)[i] = s1[i])
          /\ Append(s1, 0)[Len(s1) + 1] = 0
      BY <3>0, <3>1, Appended
    <3>3. Len(s1) + 1 = Len(s) + 2 /\ Len(s) + 1 \in 1 .. Len(s1) /\ \A i \in 1 .. Len(s) : i \in 1 .. Len(s1)
      BY <3>1, <1>2
    <3> QED BY <3>1, <3>2, <3>3 DEF s1
  <2> HIDE DEF s2
  <2>3. Len(s) < Len(s2) /\ \A q \in Len(s) + 1 .. Len(s2) : q = Len(s) + 1 \/ q = Len(s) + 2
    BY <2>2, <1>2
  <2>4. \A q \in Len(s) + 1 .. Len(s2) : d.ent[s2[q]] = Blank
    BY <2>1, <2>2, <2>3
  <2> QED BY <2>2, <2>3, <2>4 DEF Reaches, s2
<1>7. Alike(d, e) /\ \A x : At(e, x) = At(d, x)
  <2>1. e.ent = d.ent
    BY <1>5
  <2> HIDE DEF f
  <2> QED BY <2>1, SameEntries
<1> HIDE DEF f, s
<1>8. ASSUME NEW h \in Heads(d)
      PROVE  /\ IsHead(e.fat, h)
             /\ \E s2 : IsChain(e.fat, h, s2) /\ Reaches(d, ChainFrom(d, h), s2)
  <2>1. CASE h = c
    BY <2>1, <1>1, <1>3, <1>5, <1>6 DEF s
  <2>2. CASE h # c
    BY <2>2, <1>1, <1>3, <1>5 DEF Reaches
  <2> QED BY <2>1, <2>2
<1>9. \A x \in 0 .. MaxCl : e.fat[x] = 0 => d.fat[x] = 0
  BY <1>0, <1>5, VolumeParts, Sizes DEF f
<1>10. OneWay(e.fat)
  BY <1>3, <1>5 DEF OneChain
<1> QED BY <1>5, <1>7, <1>8, <1>9, <1>10, FormedKept DEF Grows

\* And then marked.
Marked(d, p, u) == [[d EXCEPT !.fat[p] = u] EXCEPT !.fat[u] = EOC]

\* The new cluster linked to its directory and marked as the end, both.
LEMMA MarkKept ==
  ASSUME NEW d, Formed(d), Linked(d), NEW c \in Dirs(d), NEW u \in Clusters, d.fat[u] = 0,
         NEW p, p = Last(ChainFrom(d, c)), NEW e, e = Marked(d, p, u)
  PROVE  /\ Formed(e) /\ Linked(e) /\ Grows(d, e) /\ Dirs(e) = Dirs(d) /\ e.ent = d.ent
         /\ ChainFrom(e, c) = Append(ChainFrom(d, c), u)
         /\ \A x \in Clusters : x # u => (e.fat[x] = 0 <=> d.fat[x] = 0)
<1>0. Typed(d) /\ Chained(d) /\ Blanks(d) /\ NoLoose(d.fat)
  BY LinkedNoLoose DEF Formed
<1>1. /\ OneChain(d.fat) /\ c \in Heads(d)
      /\ \A h \in Heads(d) : /\ IsHead(d.fat, h) /\ IsChain(d.fat, h, ChainFrom(d, h))
                             /\ h \in 0 .. MaxCl /\ h \in Clusters
  BY <1>0, FormedChains
<1> DEFINE s == ChainFrom(d, c)
           f == [[d.fat EXCEPT ![p] = u] EXCEPT ![u] = EOC]
<1>2. p = s[Len(s)] /\ s \in Seq(0 .. MaxCl) /\ Len(s) \in Nat
  BY <1>1 DEF Last, IsChain, Chains
<1>3. /\ OneChain(f) /\ NoLoose(f) /\ IsChain(f, c, Append(s, u))
      /\ \A h : IsHead(d.fat, h) => IsHead(f, h)
      /\ \A h, t : h # c /\ IsHead(d.fat, h) /\ IsChain(d.fat, h, t) => IsChain(f, h, t)
  <2> HIDE DEF s
  <2>1. f = [[d.fat EXCEPT ![s[Len(s)]] = u] EXCEPT ![u] = EOC]
    BY <1>2
  <2>2. IsHead(d.fat, c) /\ IsChain(d.fat, c, s)
    BY <1>1 DEF s
  <2> HIDE DEF f
  <2> QED BY <2>1, <2>2, <1>0, <1>1, MarkChain
<1>4. e = [d EXCEPT !.fat = f]
  <2>1. [d EXCEPT !.fat[p] = u] = [fat |-> [d.fat EXCEPT ![p] = u], ent |-> d.ent]
    BY <1>0, VolumeParts
  <2> QED BY <2>1, <1>0, VolumeParts DEF Marked
<1>5. Typed(e) /\ e.fat = f /\ e.ent = d.ent
  <2> HIDE DEF f
  <2>1. FatOK(f)
    BY <1>3 DEF OneChain
  <2> QED BY <2>1, <1>0, <1>4, Refatted
<1>6. Reaches(d, s, Append(s, u))
  <2>1. d.ent[u] = Blank /\ u \in 0 .. MaxCl
    BY <1>0, Sizes DEF Blanks
  <2> HIDE DEF s
  <2>2. Len(Append(s, u)) = Len(s) + 1 /\ (\A i \in 1 .. Len(s) : Append(s, u)[i] = s[i]) /\ Append(s, u)[Len(s) + 1] = u
    BY <1>2, <2>1, Appended
  <2>3. Len(s) < Len(Append(s, u)) /\ \A q \in Len(s) + 1 .. Len(Append(s, u)) : q = Len(s) + 1
    BY <2>2, <1>2
  <2>4. \A q \in Len(s) + 1 .. Len(Append(s, u)) : d.ent[Append(s, u)[q]] = Blank
    BY <2>1, <2>2, <2>3
  <2> QED BY <2>2, <2>3, <2>4 DEF Reaches
<1>7. Alike(d, e) /\ \A x : At(e, x) = At(d, x)
  <2>1. e.ent = d.ent
    BY <1>5
  <2> HIDE DEF f
  <2> QED BY <2>1, SameEntries
<1>8. p \in 0 .. MaxCl /\ d.fat[p] = EOC
  <2> HIDE DEF f
  <2>1. IsChain(d.fat, c, s)
    BY <1>1
  <2> HIDE DEF s
  <2>2. d.fat[s[Len(s)]] = EOC /\ s # << >>
    BY <2>1 DEF IsChain, Chains
  <2>3. Len(s) \in 1 .. Len(s)
    BY <2>2, <1>2
  <2> QED BY <2>2, <2>3, <1>2, ElemIn
<1>9. \A x \in 0 .. MaxCl : x # u => (f[x] = 0 <=> d.fat[x] = 0)
  BY <1>0, <1>8, VolumeParts, Sizes
<1>9a. f[u] # 0
  BY <1>0, VolumeParts, Sizes
<1> HIDE DEF f, s
<1>10. ASSUME NEW h \in Heads(d)
      PROVE  /\ IsHead(e.fat, h)
             /\ \E s2 : IsChain(e.fat, h, s2) /\ Reaches(d, ChainFrom(d, h), s2)
  <2>1. CASE h = c
    BY <2>1, <1>1, <1>3, <1>5, <1>6 DEF s
  <2>2. CASE h # c
    BY <2>2, <1>1, <1>3, <1>5 DEF Reaches
  <2> QED BY <2>1, <2>2
<1>11. \A x \in 0 .. MaxCl : e.fat[x] = 0 => d.fat[x] = 0
  BY <1>5, <1>9, <1>9a
<1>12. OneWay(e.fat)
  BY <1>3, <1>5 DEF OneChain
<1>13. Formed(e) /\ Grows(d, e) /\ Dirs(e) = Dirs(d)
  BY <1>5, <1>7, <1>10, <1>11, <1>12, FormedKept DEF Grows
<1>14. ChainFrom(e, c) = Append(s, u)
  BY <1>1, <1>3, <1>5, ChainIs
<1>15. \A x \in Clusters : x # u => (e.fat[x] = 0 <=> d.fat[x] = 0)
  <2>1. \A x \in Clusters : x \in 0 .. MaxCl
    BY Sizes
  <2> QED BY <2>1, <1>5, <1>9
<1>16. Linked(e)
  BY <1>3, <1>5, LinkedNoLoose
<1> QED BY <1>5, <1>13, <1>14, <1>15, <1>16 DEF s

\* An unused cluster marked, for a file that is made.
LEMMA OwnKept ==
  ASSUME NEW d, Formed(d), Linked(d), NEW u \in Clusters, d.fat[u] = 0,
         NEW e, e = [d EXCEPT !.fat[u] = EOC]
  PROVE  /\ Formed(e) /\ Linked(e) /\ Grows(d, e) /\ Dirs(e) = Dirs(d) /\ e.ent = d.ent
         /\ e.ent[u] = Blank /\ IsHead(e.fat, u) /\ IsChain(e.fat, u, << u >>) /\ u \notin Heads(e)
         /\ \A c \in Dirs(d) : ChainFrom(e, c) = ChainFrom(d, c)
<1>0. Typed(d) /\ Chained(d) /\ Blanks(d) /\ NoLoose(d.fat)
  BY LinkedNoLoose DEF Formed
<1>1. /\ OneChain(d.fat) /\ Dirs(d) \subseteq Heads(d)
      /\ \A h \in Heads(d) : /\ IsHead(d.fat, h) /\ IsChain(d.fat, h, ChainFrom(d, h))
                             /\ h \in 0 .. MaxCl /\ h \in Clusters
  BY <1>0, FormedChains
<1> DEFINE f == [d.fat EXCEPT ![u] = EOC]
<1>3. /\ OneChain(f) /\ NoLoose(f) /\ IsHead(f, u) /\ IsChain(f, u, << u >>)
      /\ \A h : IsHead(d.fat, h) => IsHead(f, h)
      /\ \A h, t : IsHead(d.fat, h) /\ IsChain(d.fat, h, t) => IsChain(f, h, t)
  BY <1>0, <1>1, OwnChain
<1>4. e = [d EXCEPT !.fat = f]
  BY <1>0, VolumeParts
<1>5. Typed(e) /\ e.fat = f /\ e.ent = d.ent
  <2> HIDE DEF f
  <2>1. FatOK(f)
    BY <1>3 DEF OneChain
  <2> QED BY <2>1, <1>0, <1>4, Refatted
<1>7. Alike(d, e) /\ \A x : At(e, x) = At(d, x)
  <2>1. e.ent = d.ent
    BY <1>5
  <2> HIDE DEF f
  <2> QED BY <2>1, SameEntries
<1>9. \A x \in 0 .. MaxCl : f[x] = 0 => d.fat[x] = 0
  BY <1>0, VolumeParts, Sizes
<1> HIDE DEF f
<1>10. ASSUME NEW h \in Heads(d)
      PROVE  /\ IsHead(e.fat, h)
             /\ \E s2 : IsChain(e.fat, h, s2) /\ Reaches(d, ChainFrom(d, h), s2)
    BY <1>1, <1>3, <1>5 DEF Reaches
<1>12. OneWay(e.fat)
  BY <1>3, <1>5 DEF OneChain
<1>13. Formed(e) /\ Grows(d, e) /\ Dirs(e) = Dirs(d)
  BY <1>5, <1>7, <1>9, <1>10, <1>12, FormedKept DEF Grows
<1>14. \A c \in Dirs(d) : ChainFrom(e, c) = ChainFrom(d, c)
  BY <1>1, <1>3, <1>5, ChainIs
<1>15. u \notin Heads(e)
  <2>1. Heads(e) = Heads(d)
    BY <1>0, <1>5, <1>7, NamedSame
  <2>2. u \notin Heads(d)
    BY <1>1 DEF IsHead
  <2> QED BY <2>1, <2>2
<1>16. e.ent[u] = Blank
  BY <1>0, <1>5, Sizes DEF Blanks
<1>17. Linked(e)
  BY <1>3, <1>5, LinkedNoLoose
<1> QED BY <1>3, <1>5, <1>13, <1>14, <1>15, <1>16, <1>17

\* The length of a file.
Sized(d, pl, l) == [d EXCEPT !.ent[pl[1]][pl[2]].sz = l]

\* Only the length of one file is another.
LEMMA SizeKept ==
  ASSUME NEW d, Formed(d), NEW pl \in Named(d), NEW l \in Nat, NEW e, e = Sized(d, pl, l)
  PROVE  /\ Formed(e) /\ (Linked(d) => Linked(e)) /\ Extends(d, e) /\ Dirs(e) = Dirs(d) /\ Named(e) = Named(d)
         /\ \A c \in Dirs(d) : Entries(e, c) = Entries(d, c)
         /\ At(e, pl) = Short(At(d, pl).dir, At(d, pl).cl, l)
         /\ \A x \in Spots : x # pl => At(e, x) = At(d, x)
<1>0. Typed(d) /\ Chained(d) /\ Blanks(d)
  BY DEF Formed
<1>1. /\ OneChain(d.fat)
      /\ \A h \in Heads(d) : IsHead(d.fat, h) /\ IsChain(d.fat, h, ChainFrom(d, h))
  BY <1>0, FormedChains
<1> DEFINE a == pl[1]
           i == pl[2]
<1>2. /\ pl \in Spots /\ a \in 0 .. MaxCl /\ i \in 0 .. NSlots - 1 /\ pl = << a, i >>
      /\ At(d, pl).t = "short" /\ At(d, pl).dir \in BOOLEAN /\ At(d, pl).cl \in {0} \cup Clusters
      /\ At(d, pl) = Short(At(d, pl).dir, At(d, pl).cl, At(d, pl).sz)
  <2>1. /\ pl \in Spots
        /\ At(d, pl).t = "short" /\ At(d, pl).dir \in BOOLEAN /\ At(d, pl).cl \in {0} \cup Clusters
        /\ At(d, pl) = Short(At(d, pl).dir, At(d, pl).cl, At(d, pl).sz)
    BY <1>0, NamedAt
  <2>2. a \in 0 .. MaxCl /\ i \in 0 .. NSlots - 1 /\ pl = << a, i >>
    BY <2>1 DEF Spots
  <2> HIDE DEF a, i
  <2> QED BY <2>1, <2>2
<1> DEFINE r == [d.ent[a][i] EXCEPT !.sz = l]
           v == [d.ent EXCEPT ![a] = [d.ent[a] EXCEPT ![i] = r]]
<1>3. r = Short(At(d, pl).dir, At(d, pl).cl, l) /\ r \in Slot
  <2>1. d.ent[a][i] = At(d, pl)
    BY DEF At
  <2>2. r = Short(At(d, pl).dir, At(d, pl).cl, l)
    BY <2>1, <1>2 DEF Short
  <2>3. Short(At(d, pl).dir, At(d, pl).cl, l) \in [t : {"short"}, dir : BOOLEAN, cl : {0} \cup Clusters, sz : Nat]
    BY <1>2 DEF Short
  <2> QED BY <2>2, <2>3 DEF Slot
<1>4. e = [fat |-> d.fat, ent |-> v]
  BY <1>0, VolumeParts DEF Sized
<1>5. e.fat = d.fat /\ e.ent = v
  BY <1>4
<1>6. d.ent \in [0 .. MaxCl -> [0 .. NSlots - 1 -> Slot]]
  BY <1>0, VolumeParts
<1> HIDE DEF r, a, i
<1>7. v \in [0 .. MaxCl -> [0 .. NSlots - 1 -> Slot]]
  BY <1>2, <1>3, <1>6
<1>8. Typed(e)
  BY <1>0, <1>4, <1>7, VolumeParts DEF Typed
<1>9. At(e, pl) = r
  <2>1. v[a][i] = r
    BY <1>2, <1>6
  <2>2. At(e, pl) = v[a][i]
    BY <1>5 DEF At, a, i
  <2> QED BY <2>1, <2>2
<1>10. ASSUME NEW x \in Spots, x # pl PROVE At(e, x) = At(d, x)
  <2>1. x = << x[1], x[2] >> /\ x[1] \in 0 .. MaxCl /\ x[2] \in 0 .. NSlots - 1
    BY DEF Spots
  <2>2. x[1] # a \/ x[2] # i
    BY <2>1, <1>10, <1>2
  <2>3. v[x[1]][x[2]] = d.ent[x[1]][x[2]]
    BY <2>1, <2>2, <1>2, <1>6
  <2> QED BY <2>3, <1>5 DEF At
<1>11. Alike(d, e)
  <2> SUFFICES ASSUME NEW x \in Spots
               PROVE  /\ At(e, x).t = At(d, x).t
                      /\ At(d, x).t = "long" => At(e, x).name = At(d, x).name
                      /\ At(d, x).t = "short" => At(e, x).dir = At(d, x).dir /\ At(e, x).cl = At(d, x).cl
    BY DEF Alike
  <2>1. CASE x = pl
    BY <2>1, <1>2, <1>3, <1>9 DEF Short
  <2>2. CASE x # pl
    BY <2>2, <1>10
  <2> QED BY <2>1, <2>2
<1>12. /\ Formed(e) /\ Extends(d, e) /\ Named(e) = Named(d) /\ Dirs(e) = Dirs(d)
       /\ \A c \in Dirs(d) : Entries(e, c) = Entries(d, c)
  <2>1. ASSUME NEW h \in Heads(d)
        PROVE  /\ IsHead(e.fat, h)
               /\ \E s2 : IsChain(e.fat, h, s2) /\ Reaches(d, ChainFrom(d, h), s2)
    BY <1>1, <1>5 DEF Reaches
  <2>2. OneWay(e.fat)
    BY <1>1, <1>5 DEF OneChain
  <2>3. \A x \in 0 .. MaxCl : e.fat[x] = 0 => d.fat[x] = 0
    BY <1>5
  <2> QED BY <2>1, <2>2, <2>3, <1>8, <1>11, FormedKept
<1>13. Linked(d) => Linked(e)
  BY <1>5 DEF Linked
<1> QED BY <1>3, <1>9, <1>10, <1>12, <1>13

-----------------------------------------------------------------------------
\* The write that enters a file: the two entries.
LEMMA EnteredAt ==
  ASSUME NEW d, Typed(d), NEW a \in 0 .. MaxCl, NEW i \in 0 .. NSlots - 1, i + 1 < NSlots,
         NEW fn \in Names, NEW dir \in BOOLEAN, NEW u \in Clusters,
         NEW e, e = Entered(d, a, i, fn, dir, u)
  PROVE  /\ Typed(e) /\ e.fat = d.fat /\ \A x \in 0 .. MaxCl : x # a => e.ent[x] = d.ent[x]
         /\ At(e, << a, i >>) = Long(fn) /\ At(e, << a, i + 1 >>) = Short(dir, u, 10)
         /\ << a, i >> \in Spots /\ << a, i + 1 >> \in Spots
         /\ \A x \in Spots : x # << a, i >> /\ x # << a, i + 1 >> => At(e, x) = At(d, x)
<1> DEFINE m == d.ent[a]
           r == [j \in DOMAIN m |-> CASE j = i     -> Long(fn)
                                      [] j = i + 1 -> Short(dir, u, 10)
                                      [] OTHER     -> m[j]]
           v == [d.ent EXCEPT ![a] = r]
<1>1. i + 1 \in 0 .. NSlots - 1 /\ i # i + 1
  BY Sizes
<1>2. d.ent \in [0 .. MaxCl -> [0 .. NSlots - 1 -> Slot]]
  BY VolumeParts
<1>3. e = [d EXCEPT !.ent = v]
  BY VolumeParts DEF Entered
<1>4. e = [fat |-> d.fat, ent |-> v]
  <2> HIDE DEF v
  <2> QED BY <1>3, VolumeParts
<1>5. e.fat = d.fat /\ e.ent = v
  <2> HIDE DEF v
  <2> QED BY <1>4
<1>6. m \in [0 .. NSlots - 1 -> Slot]
  BY <1>2
<1>7. Long(fn) \in Slot /\ Short(dir, u, 10) \in Slot
  <2>1. Long(fn) \in [t : {"long"}, name : Names]
    BY DEF Long
  <2>2. Short(dir, u, 10) \in [t : {"short"}, dir : BOOLEAN, cl : {0} \cup Clusters, sz : Nat]
    BY DEF Short
  <2> QED BY <2>1, <2>2 DEF Slot
<1> HIDE DEF m
<1>8. /\ r \in [0 .. NSlots - 1 -> Slot] /\ r[i] = Long(fn) /\ r[i + 1] = Short(dir, u, 10)
      /\ \A j \in 0 .. NSlots - 1 : j # i /\ j # i + 1 => r[j] = m[j]
  <2>1. DOMAIN m = 0 .. NSlots - 1
    BY <1>6
  <2>2. r[i] = Long(fn)
    BY <2>1
  <2>3. r[i + 1] = Short(dir, u, 10)
    BY <2>1, <1>1
  <2>4. \A j \in 0 .. NSlots - 1 : j # i /\ j # i + 1 => r[j] = m[j]
    BY <2>1
  <2>5. \A j \in 0 .. NSlots - 1 : r[j] \in Slot
    BY <1>6, <1>7, <2>2, <2>3, <2>4
  <2>6. r = [j \in 0 .. NSlots - 1 |-> r[j]]
    BY <2>1
  <2> HIDE DEF r
  <2> QED BY <2>2, <2>3, <2>4, <2>5, <2>6
<1> HIDE DEF r
<1>9. v \in [0 .. MaxCl -> [0 .. NSlots - 1 -> Slot]] /\ v[a] = r /\ \A x \in 0 .. MaxCl : x # a => v[x] = d.ent[x]
  BY <1>2, <1>8
<1> HIDE DEF v
<1>10. Typed(e)
  BY <1>4, <1>9, VolumeParts DEF Typed
<1>11. At(e, << a, i >>) = Long(fn) /\ At(e, << a, i + 1 >>) = Short(dir, u, 10)
  BY <1>5, <1>8, <1>9 DEF At
<1>12. << a, i >> \in Spots /\ << a, i + 1 >> \in Spots
  BY <1>1 DEF Spots
<1>13. ASSUME NEW x \in Spots, x # << a, i >>, x # << a, i + 1 >> PROVE At(e, x) = At(d, x)
  <2>1. x = << x[1], x[2] >> /\ x[1] \in 0 .. MaxCl /\ x[2] \in 0 .. NSlots - 1
    BY DEF Spots
  <2>2. At(e, x) = v[x[1]][x[2]] /\ At(d, x) = d.ent[x[1]][x[2]]
    BY <1>5 DEF At
  <2>3. CASE x[1] = a
    <3>1. x[2] # i /\ x[2] # i + 1
      BY <2>1, <2>3, <1>13
    <3>2. At(e, x) = r[x[2]] /\ At(d, x) = m[x[2]]
      BY <2>2, <2>3, <1>9 DEF m
    <3> QED BY <3>1, <3>2, <2>1, <1>8
  <2>4. CASE x[1] # a
    BY <2>1, <2>2, <2>4, <1>9
  <2> QED BY <2>3, <2>4
<1> QED BY <1>5, <1>9, <1>10, <1>11, <1>12, <1>13

-----------------------------------------------------------------------------
\* Listings that agree as far as n, and one that has nothing after m.
Agree(d, e, pls, n) ==
  \A k \in 1 .. n : /\ At(e, pls[k]).t = At(d, pls[k]).t
                    /\ At(d, pls[k]).t = "long" => EntryOf(e, pls, k) = EntryOf(d, pls, k)
Quiet(d, pls, m) == \A k \in 1 .. Len(pls) : k > m => At(d, pls[k]).t # "long"

\* Where two volumes have the same up to a place, so do their entries.
LEMMA ListingPart ==
  ASSUME NEW d, NEW e, NEW pls \in Seq(Spots), NEW up, Listing(d, pls, up), NEW up2, Listing(e, pls, up2),
         NEW n \in 0 .. Len(pls), Agree(d, e, pls, n)
  PROVE  up2[n] = up[n]
<1> DEFINE M == { k \in 0 .. n : up2[k] = up[k] }
<1>0. n \in Nat /\ n <= Len(pls) /\ Len(pls) \in Nat
  OBVIOUS
<1>1. 0 \in M
  BY <1>0 DEF Listing
<1>2. ASSUME NEW k \in 1 .. n, k - 1 \in M PROVE k \in M
  <2>1. k \in 1 .. Len(pls) /\ k \in 0 .. n
    BY <1>0
  <2>2. up2[k] = NextUp(e, pls, k, up[k - 1]) /\ up[k] = NextUp(d, pls, k, up[k - 1])
    BY <1>2, <2>1 DEF Listing
  <2>3. NextUp(e, pls, k, up[k - 1]) = NextUp(d, pls, k, up[k - 1])
    BY DEF NextUp, Agree
  <2> QED BY <2>1, <2>2, <2>3
<1>3. 0 .. n \subseteq M
  <2> HIDE DEF M
  <2> QED BY <1>0, <1>1, <1>2, UpToAll
<1>4. n \in M
  <2> HIDE DEF M
  <2> QED BY <1>0, <1>3
<1> QED BY <1>4

\* Where no names come after a place, no entries do.
LEMMA ListingQuiet ==
  ASSUME NEW d, NEW pls \in Seq(Spots), NEW up, Listing(d, pls, up), NEW m \in 0 .. Len(pls), Quiet(d, pls, m)
  PROVE  up[Len(pls)] = up[m]
<1> DEFINE n == Len(pls) - m
           N == { l \in 0 .. n : up[m + l] = up[m] }
<1>0. /\ m \in Nat /\ m <= Len(pls) /\ Len(pls) \in Nat /\ n \in Nat /\ m + n = Len(pls) /\ m + 0 = m
  OBVIOUS
<1>1. 0 \in N
  BY <1>0
<1>2. ASSUME NEW l \in 1 .. n, l - 1 \in N PROVE l \in N
  <2>1. m + l \in 1 .. Len(pls) /\ m + l > m /\ l \in 0 .. n /\ (m + l) - 1 = m + (l - 1)
    BY <1>0
  <2>2. up[m + l] = NextUp(d, pls, m + l, up[(m + l) - 1])
    BY <2>1 DEF Listing
  <2>3. up[m + l] = up[(m + l) - 1]
    BY <2>1, <2>2 DEF NextUp, Quiet
  <2>4. up[m + (l - 1)] = up[m]
    BY <1>2
  <2> QED BY <2>1, <2>3, <2>4
<1>3. 0 .. n \subseteq N
  <2> HIDE DEF N, n
  <2> QED BY <1>0, <1>1, <1>2, UpToAll
<1>4. n \in N
  <2> HIDE DEF N, n
  <2> QED BY <1>0, <1>3
<1> QED BY <1>0, <1>4

-----------------------------------------------------------------------------
\* The file is entered where the first two entries are free.
FirstRoom(d, pls, k) == /\ k \in 1 .. Len(pls) /\ RoomAt(d, pls[k])
                        /\ \A j \in 1 .. Len(pls) : j < k => ~ RoomAt(d, pls[j])

\* Volume e is d with a name and an entry in the first room, the places k and after it.
Put(d, e, pls, k) ==
  /\ FirstRoom(d, pls, k) /\ k + 1 \in 1 .. Len(pls)
  /\ At(e, pls[k]).t = "long" /\ At(e, pls[k + 1]).t = "short"
  /\ \A j \in 1 .. Len(pls) : j # k /\ j # k + 1 => At(e, pls[j]) = At(d, pls[j])

\* A name and its entry where the first room was: one entry more, at the end.
LEMMA EntryAdded ==
  ASSUME NEW d, NEW e, Typed(d), Blanks(d), Followed(d), Typed(e), NEW pls, NEW s, LaidOut(pls, s),
         \A i, j \in 1 .. Len(pls) : pls[i] = pls[j] => i = j,
         PackedDir(d, pls), NEW k, Put(d, e, pls, k),
         NEW up, Listing(d, pls, up), NEW up2, Listing(e, pls, up2)
  PROVE  /\ up2[Len(pls)] = Append(up[Len(pls)], EntryOf(e, pls, k))
         /\ PackedDir(e, pls)
<1> SUFFICES ASSUME FirstRoom(d, pls, k), k + 1 \in 1 .. Len(pls),
                    At(e, pls[k]).t = "long", At(e, pls[k + 1]).t = "short",
                    \A j \in 1 .. Len(pls) : j # k /\ j # k + 1 => At(e, pls[j]) = At(d, pls[j])
             PROVE  /\ up2[Len(pls)] = Append(up[Len(pls)], EntryOf(e, pls, k))
                    /\ PackedDir(e, pls)
  BY DEF Put
<1>0. k \in 1 .. Len(pls) /\ Len(pls) \in Nat /\ pls \in Seq(Spots) /\ RoomAt(d, pls[k])
  BY PlaceIn DEF LaidOut, FirstRoom
<1>1. At(d, pls[k]) = Free /\ At(d, pls[k]).t = "free"
  BY <1>0 DEF RoomAt, Free
<1>2. \A j \in 1 .. Len(pls) : j >= k => At(d, pls[j]).t # "long"
  <2> TAKE j \in 1 .. Len(pls)
  <2>1. CASE j = k
    BY <2>1, <1>1
  <2>2. CASE j > k
    BY <2>2, <1>0 DEF PackedDir
  <2> QED BY <2>1, <2>2, <1>0
<1>3. k - 1 \in 0 .. Len(pls) /\ k \in 0 .. Len(pls) /\ k - 1 + 1 = k
  BY <1>0
<1>4. up[Len(pls)] = up[k - 1]
  <2>1. \A j \in 1 .. Len(pls) : j > k - 1 => At(d, pls[j]).t # "long"
    BY <1>0, <1>2
  <2>2. Quiet(d, pls, k - 1)
    BY <2>1 DEF Quiet
  <2> QED BY <2>2, <1>0, <1>3, ListingQuiet
<1>5. up2[k - 1] = up[k - 1]
  <2>1. ASSUME NEW j \in 1 .. k - 1
        PROVE  /\ At(e, pls[j]).t = At(d, pls[j]).t
               /\ At(d, pls[j]).t = "long" => EntryOf(e, pls, j) = EntryOf(d, pls, j)
    <3>1. j \in 1 .. Len(pls) /\ j # k /\ j # k + 1 /\ j + 1 \in 1 .. Len(pls) /\ j + 1 # k + 1
      BY <1>0
    <3>2. At(e, pls[j]) = At(d, pls[j])
      BY <3>1
    <3>3. IsShort(e, pls, j + 1) <=> IsShort(d, pls, j + 1)
      <4>1. CASE j + 1 = k
        BY <4>1, <1>1 DEF IsShort
      <4>2. CASE j + 1 # k
        BY <4>2, <3>1 DEF IsShort
      <4> QED BY <4>1, <4>2
    <3>4. { i \in {j + 1} : IsShort(e, pls, i) } = { i \in {j + 1} : IsShort(d, pls, i) }
      BY <3>3
    <3>5. EntryOf(e, pls, j) = EntryOf(d, pls, j)
      BY <3>2, <3>4 DEF EntryOf
    <3> QED BY <3>2, <3>5
  <2>2. Agree(d, e, pls, k - 1)
    BY <2>1 DEF Agree
  <2> QED BY <2>2, <1>0, <1>3, ListingPart
<1>6. up2[k] = Append(up2[k - 1], EntryOf(e, pls, k))
  <2>1. up2[k] = NextUp(e, pls, k, up2[k - 1])
    BY <1>0 DEF Listing
  <2> QED BY <2>1 DEF NextUp
<1>7. \A j \in 1 .. Len(pls) : j > k => At(e, pls[j]).t # "long"
  <2> TAKE j \in 1 .. Len(pls)
  <2>1. CASE j = k + 1
    BY <2>1
  <2>2. CASE j # k + 1 /\ j > k
    BY <2>2, <1>0, <1>2
  <2> QED BY <2>1, <2>2
<1>8. up2[Len(pls)] = up2[k]
  <2>1. Quiet(e, pls, k)
    BY <1>7 DEF Quiet
  <2> QED BY <2>1, <1>0, <1>3, ListingQuiet
<1>9. ASSUME NEW i \in 1 .. Len(pls), NEW j \in 1 .. Len(pls), i < j, RoomAt(e, pls[i])
      PROVE  At(e, pls[j]).t # "long"
  <2>1. At(e, pls[i]) = Free
    BY <1>9 DEF RoomAt
  <2>2. i # k /\ i # k + 1
    BY <2>1 DEF Free
  <2>3. At(d, pls[i]) = Free
    BY <2>1, <2>2
  <2>4. pls[i][2] + 1 < NSlots /\ At(e, << pls[i][1], pls[i][2] + 1 >>) = Free
    BY <1>9 DEF RoomAt
  <2>5. i + 1 \in 1 .. Len(pls) /\ pls[i + 1] = << pls[i][1], pls[i][2] + 1 >>
    BY <2>4, NextPlace
  <2>6. i + 1 # k /\ i + 1 # k + 1
    BY <2>4, <2>5 DEF Free
  <2>7. At(d, << pls[i][1], pls[i][2] + 1 >>) = Free
    BY <2>4, <2>5, <2>6
  <2>8. RoomAt(d, pls[i])
    BY <2>3, <2>4, <2>7 DEF RoomAt
  <2>9. ~ (i < k)
    BY <2>8 DEF FirstRoom
  <2>10. j > k
    BY <2>9, <1>0, <1>9
  <2> QED BY <2>10, <1>7
<1>10. PackedDir(e, pls)
  <2>1. DOMAIN pls = 1 .. Len(pls)
    BY <1>0
  <2> QED BY <2>1, <1>9 DEF PackedDir
<1> QED BY <1>4, <1>5, <1>6, <1>8, <1>10

-----------------------------------------------------------------------------
\* What is written into one directory is not in another.
LEMMA EnteredAlone ==
  ASSUME NEW d, Formed(d), Linked(d), NEW c \in Dirs(d), NEW h \in Dirs(d), h # c,
         NEW k \in 1 .. Len(Places(d, c)), NEW j \in 1 .. Len(Places(d, h))
  PROVE  Places(d, h)[j][1] # Places(d, c)[k][1]
<1>0. Typed(d) /\ Chained(d) /\ NoLoose(d.fat)
  BY LinkedNoLoose DEF Formed
<1> DEFINE s == ChainFrom(d, c)
           t == ChainFrom(d, h)
<1>1. /\ OneChain(d.fat) /\ IsHead(d.fat, c) /\ IsChain(d.fat, c, s) /\ IsHead(d.fat, h) /\ IsChain(d.fat, h, t)
      /\ c \in 0 .. MaxCl /\ h \in 0 .. MaxCl
  BY <1>0, FormedChains
<1>2. LaidOut(Places(d, c), s) /\ LaidOut(Places(d, h), t)
  BY <1>0, <1>1, PlacesAre
<1> HIDE DEF s, t
<1>3. PICK q \in 1 .. Len(s) : Places(d, c)[k][1] = s[q]
  BY <1>2, PlaceIn
<1>4. PICK p \in 1 .. Len(t) : Places(d, h)[j][1] = t[p]
  BY <1>2, PlaceIn
<1>5. s[q] \in Clusters
  BY <1>0, <1>1, ChainUsed, ElemIn DEF OneChain
<1> QED BY <1>0, <1>1, <1>3, <1>4, <1>5, ChainsApart DEF OneChain

\* No cluster and no place comes twice in a directory.
LEMMA Distinct ==
  ASSUME NEW d, Formed(d), NEW c \in Heads(d)
  PROVE  /\ \A i, k \in 1 .. Len(ChainFrom(d, c)) : ChainFrom(d, c)[i] = ChainFrom(d, c)[k] => i = k
         /\ \A i, j \in 1 .. Len(Places(d, c)) : Places(d, c)[i] = Places(d, c)[j] => i = j
<1>0. Typed(d) /\ Chained(d)
  BY DEF Formed
<1> DEFINE s == ChainFrom(d, c)
           pls == Places(d, c)
<1>1. OneChain(d.fat) /\ IsHead(d.fat, c) /\ IsChain(d.fat, c, s) /\ c \in 0 .. MaxCl
  BY <1>0, FormedChains
<1>2. LaidOut(pls, s)
  BY <1>0, <1>1, PlacesAre
<1> HIDE DEF s, pls
<1>3. ASSUME NEW i \in 1 .. Len(s), NEW k \in 1 .. Len(s), s[i] = s[k] PROVE i = k
  <2>1. CASE s[i] \in Clusters
    BY <2>1, <1>1, <1>3, ChainsApart DEF OneChain
  <2>2. CASE s[i] \notin Clusters
    BY <2>2, <1>1, <1>3, InChain DEF OneChain
  <2> QED BY <2>1, <2>2
<1>4. \A i, j \in 1 .. Len(pls) : pls[i] = pls[j] => i = j
  BY <1>2, <1>3, OnePlace
<1> QED BY <1>3, <1>4 DEF s, pls

\* The names of d and the one that is entered.
LEMMA EnteredNamed ==
  ASSUME NEW d, Typed(d), NEW a \in Clusters, NEW i \in 0 .. NSlots - 1, i + 1 < NSlots,
         At(d, << a, i >>) = Free, At(d, << a, i + 1 >>) = Free,
         NEW fn \in Names, NEW dir \in BOOLEAN, NEW u \in Clusters,
         NEW e, e = Entered(d, a, i, fn, dir, u)
  PROVE  /\ Named(e) = Named(d) \cup {<< a, i + 1 >>} /\ << a, i + 1 >> \notin Named(d)
         /\ Heads(e) = Heads(d) \cup {u}
         /\ Dirs(e) = IF dir THEN Dirs(d) \cup {u} ELSE Dirs(d)
         /\ \A pl \in Named(d) : At(e, pl) = At(d, pl)
<1>0. a \in 0 .. MaxCl
  BY Sizes
<1>1. /\ At(e, << a, i >>) = Long(fn) /\ At(e, << a, i + 1 >>) = Short(dir, u, 10)
      /\ \A x \in Spots : x # << a, i >> /\ x # << a, i + 1 >> => At(e, x) = At(d, x)
  BY <1>0, EnteredAt
<1> DEFINE N == Clusters \X (1 .. NSlots - 1)
           B(x) == << x[1], x[2] - 1 >>
<1>2. \A x \in N : /\ x \in Spots /\ B(x) \in Spots /\ x = << x[1], x[2] >>
                   /\ x[1] \in Clusters /\ x[2] \in 1 .. NSlots - 1
  BY Sizes DEF Spots
<1>3. << a, i + 1 >> \in N /\ B(<< a, i + 1 >>) = << a, i >> /\ << a, i + 1 >> \in Spots
  <2>1. i + 1 \in 1 .. NSlots - 1 /\ (i + 1) - 1 = i /\ i + 1 \in 0 .. NSlots - 1
    BY Sizes
  <2> QED BY <2>1, <1>0 DEF Spots
<1>4. ASSUME NEW x \in N, x # << a, i + 1 >> PROVE x \in Named(e) <=> x \in Named(d)
  <2>1. x \in Named(e) <=> At(e, x).t = "short" /\ At(e, B(x)).t = "long"
    BY <1>4 DEF Named
  <2>2. x \in Named(d) <=> At(d, x).t = "short" /\ At(d, B(x)).t = "long"
    BY <1>4 DEF Named
  <2>3. B(x) # << a, i >>
    <3> SUFFICES ASSUME B(x) = << a, i >> PROVE FALSE
      OBVIOUS
    <3>1. x[1] = a /\ x[2] - 1 = i
      OBVIOUS
    <3>2. x[2] = i + 1
      BY <3>1, <1>2, Sizes
    <3> QED BY <3>1, <3>2, <1>2, <1>4
  <2>4. CASE x = << a, i >>
    BY <2>1, <2>2, <2>4, <1>1 DEF Long, Free
  <2>5. CASE x # << a, i >>
    <3>1. At(e, x) = At(d, x)
      BY <1>1, <1>2, <1>4, <2>5
    <3>2. CASE B(x) = << a, i + 1 >>
      BY <3>2, <2>1, <2>2, <1>1 DEF Short, Free
    <3>3. CASE B(x) # << a, i + 1 >>
      BY <3>1, <3>3, <2>1, <2>2, <2>3, <1>1, <1>2
    <3> QED BY <3>2, <3>3
  <2> QED BY <2>4, <2>5
<1>5. << a, i + 1 >> \in Named(e)
  <2>1. At(e, << a, i + 1 >>).t = "short" /\ At(e, B(<< a, i + 1 >>)).t = "long"
    BY <1>1, <1>3 DEF Short, Long
  <2> QED BY <2>1, <1>3 DEF Named
<1>6. << a, i + 1 >> \notin Named(d)
  BY DEF Named, Free
<1>7. Named(e) \subseteq N /\ Named(d) \subseteq N
  BY DEF Named
<1>8. Named(e) = Named(d) \cup {<< a, i + 1 >>}
  <2> HIDE DEF N
  <2> QED BY <1>3, <1>4, <1>5, <1>6, <1>7
<1>9. ASSUME NEW pl \in Named(d) PROVE At(e, pl) = At(d, pl)
  <2>1. pl \in Spots /\ pl # << a, i + 1 >> /\ pl # << a, i >>
    <3>1. At(d, pl).t = "short" /\ pl \in Spots
      BY NamedAt
    <3> QED BY <3>1 DEF Free
  <2> QED BY <2>1, <1>1
<1> HIDE DEF N, B
<1>10. At(e, << a, i + 1 >>).dir = dir /\ At(e, << a, i + 1 >>).cl = u
  BY <1>1 DEF Short
<1>11. u # 0
  BY Sizes
<1>12. \A x : x \in Named(e) <=> (x \in Named(d) \/ x = << a, i + 1 >>)
  BY <1>8
<1>13. ASSUME NEW h PROVE h \in Heads(e) <=> h \in Heads(d) \/ h = u
  <2>1. h \in Heads(e) <=> h = RootCl \/ (h # 0 /\ \E pl \in Named(e) : h = At(e, pl).cl)
    BY DEF Heads
  <2>2. h \in Heads(d) <=> h = RootCl \/ (h # 0 /\ \E pl \in Named(d) : h = At(d, pl).cl)
    BY DEF Heads
  <2>3. (\E pl \in Named(e) : h = At(e, pl).cl) <=> (\E pl \in Named(d) : h = At(d, pl).cl) \/ h = u
    BY <1>9, <1>10, <1>12
  <2> QED BY <2>1, <2>2, <2>3, <1>11
<1>14. ASSUME NEW h PROVE h \in Dirs(e) <=> h \in Dirs(d) \/ (dir /\ h = u)
  <2>1. h \in Dirs(e) <=> h = RootCl \/ \E pl \in Named(e) : At(e, pl).dir /\ h = At(e, pl).cl
    BY DEF Dirs
  <2>2. h \in Dirs(d) <=> h = RootCl \/ \E pl \in Named(d) : At(d, pl).dir /\ h = At(d, pl).cl
    BY DEF Dirs
  <2>3. (\E pl \in Named(e) : At(e, pl).dir /\ h = At(e, pl).cl)
          <=> (\E pl \in Named(d) : At(d, pl).dir /\ h = At(d, pl).cl) \/ (dir /\ h = u)
    BY <1>9, <1>10, <1>12
  <2> QED BY <2>1, <2>2, <2>3
<1>15. Heads(e) = Heads(d) \cup {u}
  BY <1>13
<1>16. Dirs(e) = IF dir THEN Dirs(d) \cup {u} ELSE Dirs(d)
  BY <1>14
<1> QED BY <1>6, <1>8, <1>9, <1>15, <1>16

-----------------------------------------------------------------------------
\* With the same table, the chains are the same.
LEMMA SameChains ==
  ASSUME NEW d, NEW e, e.fat = d.fat, NEW c
  PROVE  ChainFrom(e, c) = ChainFrom(d, c) /\ Places(e, c) = Places(d, c)
<1>1. ChainFrom(e, c) = ChainFrom(d, c)
  BY DEF ChainFrom
<1> QED BY <1>1 DEF Places

\* A directory with no place in the cluster that is written to.
LEMMA ListingUntouched ==
  ASSUME NEW d, Typed(d), NEW e, Typed(e), e.fat = d.fat, NEW c \in 0 .. MaxCl,
         \A j \in 1 .. Len(Places(d, c)) : At(e, Places(d, c)[j]) = At(d, Places(d, c)[j])
  PROVE  Places(e, c) = Places(d, c) /\ ChainFrom(e, c) = ChainFrom(d, c) /\ Entries(e, c) = Entries(d, c)
<1>1. ChainFrom(e, c) = ChainFrom(d, c) /\ Places(e, c) = Places(d, c)
  BY SameChains
<1>2. Places(e, c) = Places(d, c)
  BY <1>1
<1> DEFINE pls == Places(d, c)
<1>3. PICK up : Listing(d, pls, up) /\ Entries(d, c) = up[Len(pls)]
  BY EntrySteps
<1>4. PICK up2 : Listing(e, pls, up2) /\ Entries(e, c) = up2[Len(pls)]
  BY <1>2, EntrySteps
<1>5. pls \in Seq(Spots) /\ Len(pls) \in 0 .. Len(pls)
  BY PlacesAre DEF LaidOut
<1> HIDE DEF pls
<1>6. ASSUME NEW k \in 1 .. Len(pls)
      PROVE  At(e, pls[k]).t = At(d, pls[k]).t /\ EntryOf(e, pls, k) = EntryOf(d, pls, k)
  <2>1. \A j \in 1 .. Len(pls) : At(e, pls[j]) = At(d, pls[j])
    BY DEF pls
  <2>2. IsShort(e, pls, k + 1) <=> IsShort(d, pls, k + 1)
    <3>1. k + 1 \in DOMAIN pls => k + 1 \in 1 .. Len(pls)
      BY <1>5
    <3> QED BY <2>1, <3>1 DEF IsShort
  <2>3. { i \in {k + 1} : IsShort(e, pls, i) } = { i \in {k + 1} : IsShort(d, pls, i) }
    BY <2>2
  <2> QED BY <2>1, <2>3 DEF EntryOf
<1>7. up2[Len(pls)] = up[Len(pls)]
  <2>1. Agree(d, e, pls, Len(pls))
    BY <1>6 DEF Agree
  <2> QED BY <2>1, <1>3, <1>4, <1>5, ListingPart
<1> QED BY <1>1, <1>2, <1>3, <1>4, <1>7 DEF pls

\* A name and its entry, for a file with a blank cluster of its own, entered where
\* there is room.
LEMMA EnterKept ==
  ASSUME NEW d, Formed(d), Linked(d), NEW c \in Dirs(d), NEW k, FirstRoom(d, Places(d, c), k),
         NEW u \in Clusters, IsHead(d.fat, u), IsChain(d.fat, u, << u >>), d.ent[u] = Blank, u \notin Heads(d),
         NEW fn \in Names, NEW dir \in BOOLEAN,
         NEW e, e = Entered(d, Places(d, c)[k][1], Places(d, c)[k][2], fn, dir, u)
  PROVE  Formed(e) /\ Linked(e) /\ Grows(d, e) /\ e.ent[u] = Blank
<1>0. Typed(d) /\ Chained(d) /\ Blanks(d) /\ Followed(d) /\ Packed(d) /\ NoLoose(d.fat)
  BY LinkedNoLoose DEF Formed
<1>1. /\ OneChain(d.fat) /\ Dirs(d) \subseteq Heads(d) /\ RootCl \in Dirs(d)
      /\ \A h \in Heads(d) : /\ IsHead(d.fat, h) /\ IsChain(d.fat, h, ChainFrom(d, h))
                             /\ h \in 0 .. MaxCl /\ h \in Clusters
  BY <1>0, FormedChains
<1> DEFINE s == ChainFrom(d, c)
           pls == Places(d, c)
           a == pls[k][1]
           i == pls[k][2]
<1>2. LaidOut(pls, s) /\ \A h \in Dirs(d) : LaidOut(Places(d, h), ChainFrom(d, h))
  BY <1>0, <1>1, PlacesAre
<1>3. \A l, j \in 1 .. Len(pls) : pls[l] = pls[j] => l = j
  BY <1>1, Distinct
<1>4. FirstRoom(d, pls, k) /\ IsChain(d.fat, c, s) /\ IsHead(d.fat, c) /\ c \in 0 .. MaxCl
  BY <1>1
<1>5. e = Entered(d, a, i, fn, dir, u)
  OBVIOUS
<1>6. PackedDir(d, pls)
  BY <1>0 DEF Packed, PackedDir
<1> HIDE DEF pls, s
<1>7. k \in 1 .. Len(pls) /\ pls[k] = << a, i >> /\ pls[k] \in Spots /\ \E q \in 1 .. Len(s) : a = s[q]
  BY <1>2, <1>4, PlaceIn DEF FirstRoom
<1>8. i + 1 < NSlots /\ At(d, << a, i >>) = Free /\ At(d, << a, i + 1 >>) = Free
  BY <1>4, <1>7 DEF FirstRoom, RoomAt
<1>9. a \in Clusters /\ d.fat[a] # 0 /\ a # u
  <2>1. PICK q \in 1 .. Len(s) : a = s[q]
    BY <1>7
  <2>2. s[q] \in Clusters /\ d.fat[s[q]] # 0
    BY <1>0, <1>1, <1>4, ChainUsed, ElemIn DEF OneChain
  <2>3. s[q] # u
    <3> SUFFICES ASSUME s[q] = u PROVE FALSE
      OBVIOUS
    <3>1. << u >>[1] = u /\ 1 \in 1 .. Len(<< u >>)
      OBVIOUS
    <3>2. c = u
      <4> DEFINE t == << u >>
      <4>1. t[1] = u /\ 1 \in 1 .. Len(t) /\ IsChain(d.fat, u, t)
        BY <3>1
      <4> HIDE DEF t
      <4> QED BY <4>1, <1>1, <1>4, <2>2, ChainsApart DEF OneChain
    <3> QED BY <3>2, <1>1
  <2> QED BY <2>1, <2>2, <2>3
<1>10. i \in 0 .. NSlots - 1 /\ a \in 0 .. MaxCl
  BY <1>7 DEF Spots
<1>11. k + 1 \in 1 .. Len(pls) /\ pls[k + 1] = << a, i + 1 >>
  BY <1>2, <1>7, <1>8, NextPlace
<1> HIDE DEF a, i
<1>12. /\ Typed(e) /\ e.fat = d.fat /\ \A x \in 0 .. MaxCl : x # a => e.ent[x] = d.ent[x]
       /\ At(e, << a, i >>) = Long(fn) /\ At(e, << a, i + 1 >>) = Short(dir, u, 10)
       /\ << a, i >> \in Spots /\ << a, i + 1 >> \in Spots
       /\ \A x \in Spots : x # << a, i >> /\ x # << a, i + 1 >> => At(e, x) = At(d, x)
  BY <1>0, <1>5, <1>8, <1>10, EnteredAt
<1>13. /\ Named(e) = Named(d) \cup {<< a, i + 1 >>} /\ << a, i + 1 >> \notin Named(d)
       /\ Heads(e) = Heads(d) \cup {u}
       /\ Dirs(e) = IF dir THEN Dirs(d) \cup {u} ELSE Dirs(d)
       /\ \A pl \in Named(d) : At(e, pl) = At(d, pl)
  <2>1. Typed(d) /\ a \in Clusters /\ i \in 0 .. NSlots - 1 /\ i + 1 < NSlots
    BY <1>0, <1>8, <1>9, <1>10
  <2>2. At(d, << a, i >>) = Free /\ At(d, << a, i + 1 >>) = Free
    BY <1>8
  <2> QED BY <2>1, <2>2, <1>5, EnteredNamed
<1>14. \A j \in 1 .. Len(pls) : j # k /\ j # k + 1 => At(e, pls[j]) = At(d, pls[j])
  <2> TAKE j \in 1 .. Len(pls)
  <2>1. pls[j] \in Spots
    BY <1>2, PlaceIn
  <2>2. ASSUME j # k, j # k + 1 PROVE At(e, pls[j]) = At(d, pls[j])
    <3>1. pls[j] # pls[k] /\ pls[j] # pls[k + 1]
      BY <2>2, <1>3, <1>7, <1>11
    <3>2. pls[j] # << a, i >> /\ pls[j] # << a, i + 1 >>
      BY <3>1, <1>7, <1>11
    <3> QED BY <3>2, <2>1, <1>12
  <2> QED BY <2>2
<1>15. At(e, pls[k]).t = "long" /\ At(e, pls[k + 1]).t = "short"
  BY <1>7, <1>11, <1>12 DEF Long, Short
<1>16. Blanks(e)
  <2> SUFFICES ASSUME NEW x \in 0 .. MaxCl, x < 2 \/ e.fat[x] = 0 PROVE e.ent[x] = Blank
    BY DEF Blanks
  <2>1. x # a
    BY <1>9, <1>12, Sizes
  <2> QED BY <2>1, <1>0, <1>12 DEF Blanks
<1>17. Chained(e)
  <2>1. u # RootCl /\ u # 0
    BY <1>1, Sizes
  <2>2. At(e, << a, i + 1 >>).cl = u
    BY <1>12 DEF Short
  <2>3. \A pl \in Named(d) : At(d, pl).cl # u
    BY <2>1 DEF Heads
  <2>4. OwnHead(d)
    BY <1>0 DEF OwnHead, Chained
  <2>5. OwnHead(e)
    <3> SUFFICES ASSUME NEW pl \in Named(e), NEW ql \in Named(e)
                 PROVE  /\ At(e, pl).cl # RootCl /\ (At(e, pl).dir => At(e, pl).cl # 0)
                        /\ At(e, pl).cl = At(e, ql).cl /\ At(e, pl).cl # 0 => pl = ql
      BY DEF OwnHead
    <3>1. pl \in Named(d) \/ pl = << a, i + 1 >>
      BY <1>13
    <3>2. ql \in Named(d) \/ ql = << a, i + 1 >>
      BY <1>13
    <3>3. CASE pl \in Named(d) /\ ql \in Named(d)
      BY <3>3, <2>4, <1>13 DEF OwnHead
    <3>4. CASE pl \in Named(d) /\ ql = << a, i + 1 >>
      BY <3>4, <2>2, <2>3, <2>4, <1>13 DEF OwnHead
    <3>5. CASE pl = << a, i + 1 >> /\ ql \in Named(d)
      BY <3>5, <2>1, <2>2, <2>3, <1>13
    <3>6. CASE pl = << a, i + 1 >> /\ ql = << a, i + 1 >>
      BY <3>6, <2>1, <2>2
    <3> QED BY <3>1, <3>2, <3>3, <3>4, <3>5, <3>6
  <2>6. \A h \in Heads(e) : IsHead(e.fat, h) /\ \E t : IsChain(e.fat, h, t)
    BY <1>1, <1>12, <1>13
  <2>7. OneWay(e.fat)
    BY <1>1, <1>12 DEF OneChain
  <2> QED BY <2>5, <2>6, <2>7, <1>12, ChainedIf
<1>18. Followed(e)
  <2> SUFFICES ASSUME NEW b \in Clusters, NEW j \in 0 .. NSlots - 1, At(e, << b, j >>).t = "long"
               PROVE  j + 1 < NSlots /\ At(e, << b, j + 1 >>) # Free
    BY DEF Followed
  <2>1. CASE << b, j >> = << a, i >>
    BY <2>1, <1>8, <1>12 DEF Short, Free
  <2>2. CASE << b, j >> # << a, i >>
    <3>1. << b, j >> \in Spots
      BY Sizes DEF Spots
    <3>2. << b, j >> # << a, i + 1 >>
      BY <1>12 DEF Short
    <3>3. At(d, << b, j >>).t = "long"
      BY <3>1, <3>2, <2>2, <1>12
    <3>4. j + 1 < NSlots /\ At(d, << b, j + 1 >>) # Free
      BY <3>3, <1>0 DEF Followed
    <3>5. << b, j + 1 >> \in Spots
      BY <3>4, Sizes DEF Spots
    <3>6. At(e, << b, j + 1 >>) # Free
      BY <3>4, <3>5, <1>8, <1>12
    <3> QED BY <3>4, <3>6
  <2> QED BY <2>1, <2>2
<1>19. PICK up : Listing(d, pls, up) /\ Entries(d, c) = up[Len(pls)]
  BY <1>0, <1>4, EntrySteps DEF pls
<1>20. Places(e, c) = pls /\ ChainFrom(e, c) = s
  BY <1>12, SameChains DEF pls, s
<1>21. PICK up2 : Listing(e, pls, up2) /\ Entries(e, c) = up2[Len(pls)]
  BY <1>4, <1>12, <1>20, EntrySteps
<1>22. up2[Len(pls)] = Append(up[Len(pls)], EntryOf(e, pls, k)) /\ PackedDir(e, pls)
  <2>1. Typed(d) /\ Blanks(d) /\ Followed(d) /\ Typed(e) /\ LaidOut(pls, s)
    BY <1>0, <1>2, <1>12
  <2>2. Put(d, e, pls, k)
    BY <1>4, <1>11, <1>14, <1>15 DEF Put
  <2>3. Listing(d, pls, up) /\ Listing(e, pls, up2)
    BY <1>19, <1>21
  <2> QED BY <2>1, <2>2, <2>3, <1>3, <1>6, EntryAdded
<1>23. ASSUME NEW h \in Dirs(d), h # c
       PROVE  Places(e, h) = Places(d, h) /\ Entries(e, h) = Entries(d, h)
              /\ \A j \in 1 .. Len(Places(d, h)) : At(e, Places(d, h)[j]) = At(d, Places(d, h)[j])
  <2>1. ASSUME NEW j \in 1 .. Len(Places(d, h)) PROVE At(e, Places(d, h)[j]) = At(d, Places(d, h)[j])
    <3>1. Places(d, h)[j][1] # a
      BY <1>7, <1>23, EnteredAlone DEF a, pls
    <3>2. Places(d, h)[j] \in Spots
      BY <1>2, PlaceIn
    <3>3. Places(d, h)[j] # << a, i >> /\ Places(d, h)[j] # << a, i + 1 >>
      BY <3>1
    <3> QED BY <3>2, <3>3, <1>12
  <2>2. h \in 0 .. MaxCl
    BY <1>1
  <2> QED BY <2>1, <2>2, <1>0, <1>12, ListingUntouched
<1>24. Packed(e)
  <2> SUFFICES ASSUME NEW h \in Dirs(e) PROVE PackedDir(e, Places(e, h))
    BY DEF Packed, PackedDir
  <2>1. CASE h = c
    BY <2>1, <1>20, <1>22
  <2>2. CASE h \in Dirs(d) /\ h # c
    <3>1. /\ Places(e, h) = Places(d, h)
          /\ \A j \in 1 .. Len(Places(d, h)) : At(e, Places(d, h)[j]) = At(d, Places(d, h)[j])
      BY <2>2, <1>23
    <3> DEFINE qls == Places(d, h)
    <3>2. LaidOut(qls, ChainFrom(d, h)) /\ PackedDir(d, qls)
      BY <2>2, <1>0, <1>2 DEF Packed, PackedDir
    <3> HIDE DEF qls
    <3>3. Len(qls) \in Nat /\ DOMAIN qls = 1 .. Len(qls)
      BY <3>2 DEF LaidOut
    <3>4. ASSUME NEW l \in 1 .. Len(qls), NEW j \in 1 .. Len(qls), l < j, RoomAt(e, qls[l])
          PROVE  At(e, qls[j]).t # "long"
      <4>1. qls[l] \in Spots
        BY <3>2, PlaceIn
      <4>2. At(e, qls[l]) = Free /\ qls[l][2] + 1 < NSlots /\ At(e, << qls[l][1], qls[l][2] + 1 >>) = Free
        BY <3>4 DEF RoomAt
      <4>3. l + 1 \in 1 .. Len(qls) /\ qls[l + 1] = << qls[l][1], qls[l][2] + 1 >>
        BY <4>2, <3>2, NextPlace
      <4>4. At(d, qls[l]) = Free /\ At(d, << qls[l][1], qls[l][2] + 1 >>) = Free
        BY <4>2, <4>3, <3>1 DEF qls
      <4>5. RoomAt(d, qls[l])
        BY <4>2, <4>4 DEF RoomAt
      <4>6. At(d, qls[j]).t # "long"
        BY <4>5, <3>2, <3>3, <3>4 DEF PackedDir
      <4> QED BY <4>6, <3>1 DEF qls
    <3>5. PackedDir(e, qls)
      BY <3>3, <3>4 DEF PackedDir
    <3> QED BY <3>1, <3>5 DEF qls
  <2>3. CASE h \notin Dirs(d)
    <3>1. h = u
      BY <2>3, <1>13
    <3> DEFINE qls == Places(e, u)
    <3>2. ChainFrom(e, u) = << u >>
      <4> DEFINE t == << u >>
      <4>1. IsChain(e.fat, u, t) /\ u \in 0 .. MaxCl
        BY <1>12, Sizes
      <4> HIDE DEF t
      <4>2. ChainFrom(e, u) = t
        BY <4>1, <1>12, ChainIs
      <4> QED BY <4>2 DEF t
    <3>3. LaidOut(qls, << u >>)
      <4>1. u \in 0 .. MaxCl
        BY Sizes
      <4> QED BY <4>1, <3>2, <1>12, PlacesAre
    <3> DEFINE t == << u >>
    <3>4. LaidOut(qls, t) /\ \A q \in 1 .. Len(t) : t[q] = u
      BY <3>3
    <3> HIDE DEF qls, t
    <3>5. ASSUME NEW j \in 1 .. Len(qls) PROVE At(e, qls[j]).t # "long"
      <4>1. qls[j] \in Spots /\ qls[j][1] = u
        BY <3>4, PlaceIn
      <4>2. At(e, qls[j]) = e.ent[u][qls[j][2]]
        BY <4>1 DEF At
      <4>3. e.ent[u] = Blank
        BY <1>9, <1>12, Sizes
      <4>4. qls[j][2] \in 0 .. NSlots - 1
        BY <4>1 DEF Spots
      <4> QED BY <4>2, <4>3, <4>4 DEF Blank, Free
    <3>6. DOMAIN qls = 1 .. Len(qls)
      BY <3>4 DEF LaidOut
    <3> QED BY <3>1, <3>5, <3>6 DEF PackedDir, qls
  <2> QED BY <2>1, <2>2, <2>3
<1>25. Extends(d, e)
  <2>1. \A pl \in Named(d) : /\ pl \in Named(e) /\ At(e, pl).dir = At(d, pl).dir
                             /\ At(e, pl).cl = At(d, pl).cl
    BY <1>13
  <2>2. ASSUME NEW h \in Dirs(d)
        PROVE  LET es == Entries(d, h) IN
               Len(es) <= Len(Entries(e, h)) /\ \A l \in DOMAIN es : Entries(e, h)[l] = es[l]
    <3> DEFINE es == Entries(d, h)
    <3>1. es \in Seq(Dirents)
      <4>1. \E vp : Listing(d, Places(d, h), vp) /\ es = vp[Len(Places(d, h))]
        BY <1>0, <1>1, EntrySteps
      <4>2. Len(Places(d, h)) \in Nat
        BY <1>2, PlaceIn
      <4> HIDE DEF es
      <4> QED BY <4>1, <4>2 DEF Listing
    <3>2. CASE h # c
      <4>1. Entries(e, h) = es
        BY <3>2, <1>23
      <4> HIDE DEF es
      <4>2. Len(es) <= Len(Entries(e, h)) /\ \A l \in DOMAIN es : Entries(e, h)[l] = es[l]
        BY <4>1, <3>1
      <4> QED BY <4>2 DEF es
    <3>3. CASE h = c
      <4>1. Entries(e, h) = Append(es, EntryOf(e, pls, k))
        BY <3>3, <1>19, <1>21, <1>22
      <4>2. EntryOf(e, pls, k) \in Dirents
        BY <1>2, <1>7, <1>12, <1>15, EntryOfIs DEF LaidOut
      <4> HIDE DEF es
      <4>3. Len(Entries(e, h)) = Len(es) + 1 /\ Len(es) \in Nat /\ \A l \in 1 .. Len(es) : Entries(e, h)[l] = es[l]
        <5>1. Len(es) \in Nat
          BY <3>1
        <5> QED BY <5>1, <4>1, <4>2, <3>1, Appended
      <4>4. Len(es) <= Len(Entries(e, h)) /\ \A l \in DOMAIN es : Entries(e, h)[l] = es[l]
        BY <4>3, <3>1
      <4> QED BY <4>4 DEF es
    <3> QED BY <3>2, <3>3
  <2> QED BY <2>1, <2>2 DEF Extends
<1>26. Linked(e)
  BY <1>0, <1>12, LinkedNoLoose
<1>27. e.ent[u] = Blank
  BY <1>9, <1>12, Sizes
<1> QED BY <1>12, <1>13, <1>16, <1>17, <1>18, <1>24, <1>25, <1>26, <1>27 DEF Formed, Grows

-----------------------------------------------------------------------------
\* A file that is made: after each of the writes.
LEMMA ExtendsOn ==
  ASSUME NEW d, NEW e, NEW f, Extends(d, e), Extends(e, f),
         \A c \in Dirs(d) : Entries(d, c) \in Seq(Dirents) /\ Entries(e, c) \in Seq(Dirents)
                            /\ Len(Entries(f, c)) \in Nat
  PROVE  Extends(d, f)
<1>1. \A pl \in Named(d) : /\ pl \in Named(f) /\ At(f, pl).dir = At(d, pl).dir
                           /\ At(f, pl).cl = At(d, pl).cl
  BY DEF Extends
<1>2. \A c \in Dirs(d) : c \in Dirs(e)
  <2> TAKE c \in Dirs(d)
  <2>1. CASE c = RootCl
    BY <2>1 DEF Dirs
  <2>2. CASE c # RootCl
    <3>1. PICK pl \in Named(d) : At(d, pl).dir /\ c = At(d, pl).cl
      BY <2>2 DEF Dirs
    <3>2. pl \in Named(e) /\ At(e, pl).dir /\ c = At(e, pl).cl
      BY <3>1 DEF Extends
    <3> QED BY <3>2 DEF Dirs
  <2> QED BY <2>1, <2>2
<1>3. ASSUME NEW c \in Dirs(d)
      PROVE  LET es == Entries(d, c) IN
             Len(es) <= Len(Entries(f, c)) /\ \A l \in DOMAIN es : Entries(f, c)[l] = es[l]
  <2> DEFINE es == Entries(d, c)
             gs == Entries(e, c)
             fs == Entries(f, c)
  <2>1. Len(es) <= Len(gs) /\ \A l \in DOMAIN es : gs[l] = es[l]
    BY DEF Extends
  <2>2. Len(gs) <= Len(fs) /\ \A l \in DOMAIN gs : fs[l] = gs[l]
    BY <1>2 DEF Extends
  <2>3. es \in Seq(Dirents) /\ gs \in Seq(Dirents) /\ Len(fs) \in Nat
    OBVIOUS
  <2> HIDE DEF es, gs, fs
  <2>4. DOMAIN es = 1 .. Len(es) /\ DOMAIN gs = 1 .. Len(gs) /\ Len(es) \in Nat /\ Len(gs) \in Nat
    BY <2>3
  <2>5. Len(es) <= Len(fs) /\ \A l \in DOMAIN es : fs[l] = es[l]
    BY <2>1, <2>2, <2>3, <2>4
  <2> QED BY <2>5 DEF es, fs
<1> QED BY <1>1, <1>3 DEF Extends

\* The entries of a directory are a sequence of them.
LEMMA EntriesSeq ==
  ASSUME NEW d, Typed(d), NEW c \in 0 .. MaxCl
  PROVE  Entries(d, c) \in Seq(Dirents) /\ Len(Entries(d, c)) \in Nat
<1>1. \E up : Listing(d, Places(d, c), up) /\ Entries(d, c) = up[Len(Places(d, c))]
  BY EntrySteps
<1>2. Len(Places(d, c)) \in Nat
  BY PlacesAre, PlaceIn
<1>3. Entries(d, c) \in Seq(Dirents)
  BY <1>1, <1>2 DEF Listing
<1> QED BY <1>3

\* A volume that grows twice has grown.
LEMMA GrowsOn ==
  ASSUME NEW d, Formed(d), NEW e, Formed(e), NEW f, Formed(f)
  PROVE  /\ Extends(d, e) /\ Extends(e, f) => Extends(d, f)
         /\ Grows(d, e) /\ Grows(e, f) => Grows(d, f)
<1>1. \A c \in Dirs(d) : c \in 0 .. MaxCl
  BY FormedChains DEF Formed
<1>2. \A c \in Dirs(d) : /\ Entries(d, c) \in Seq(Dirents) /\ Entries(e, c) \in Seq(Dirents)
                         /\ Len(Entries(f, c)) \in Nat
  BY <1>1, EntriesSeq DEF Formed
<1>3. Extends(d, e) /\ Extends(e, f) => Extends(d, f)
  BY <1>2, ExtendsOn
<1>4. Grows(d, e) /\ Grows(e, f) => Grows(d, f)
  BY <1>3 DEF Grows, Extends
<1> QED BY <1>3, <1>4

\* A volume has what it has.
LEMMA GrowsSelf ==
  ASSUME NEW d, Formed(d)
  PROVE  Extends(d, d) /\ Grows(d, d)
<1>1. \A c \in Dirs(d) : c \in 0 .. MaxCl
  BY FormedChains DEF Formed
<1>2. \A c \in Dirs(d) : Len(Entries(d, c)) \in Nat
  BY <1>1, EntriesSeq DEF Formed
<1> QED BY <1>2 DEF Extends, Grows

\* _find_unused_cluster finds one, if there is one.
LEMMA UnusedIs ==
  ASSUME NEW d, NEW b \in Clusters, d.fat[b] = 0
  PROVE  _find_unused_cluster(d) \in Clusters /\ d.fat[_find_unused_cluster(d)] = 0
<1> DEFINE S == { c \in Clusters : d.fat[c] = 0 }
<1>1. S \in SUBSET Nat /\ S # {}
  BY Sizes
<1>2. \E m \in S : \A k \in S : m <= k
  <2> HIDE DEF S
  <2> QED BY <1>1, Least
<1>3. \E c \in Clusters : d.fat[c] = 0 /\ \A e \in Clusters : d.fat[e] = 0 => c <= e
  BY <1>2
<1> QED BY <1>3 DEF _find_unused_cluster

\* What the search for room gives.
LEMMA RoomFound ==
  ASSUME NEW d, NEW pls \in Seq(Spots), NEW I, I = { i \in 1 .. Len(pls) : RoomAt(d, pls[i]) },
         NEW k, k = IF I # {} THEN Min(I) ELSE 0
  PROVE  \/ k = 0 /\ \A j \in 1 .. Len(pls) : ~ RoomAt(d, pls[j])
         \/ k # 0 /\ FirstRoom(d, pls, k)
<1>1. k = IF I # {} THEN Min(I) ELSE 0
  OBVIOUS
<1>2. CASE I = {}
  BY <1>1, <1>2
<1>3. CASE I # {}
  <2>1. I \in SUBSET Nat
    OBVIOUS
  <2>2. \E m \in I : \A j \in I : m <= j
    <3> QED BY <1>3, <2>1, Least
  <2>3. Min(I) \in I /\ \A j \in I : Min(I) <= j
    <3> QED BY <2>2 DEF Min
  <2>4. k \in I /\ \A j \in I : k <= j
    <3> QED BY <1>1, <1>3, <2>3
  <2>5. k \in Nat /\ k # 0 /\ k \in 1 .. Len(pls) /\ RoomAt(d, pls[k])
    BY <2>4
  <2>6. \A j \in 1 .. Len(pls) : j < k => ~ RoomAt(d, pls[j])
    BY <2>4, <2>5
  <2>7. k # 0 /\ FirstRoom(d, pls, k)
    BY <2>5, <2>6 DEF FirstRoom
  <2> QED BY <2>7
<1> QED BY <1>2, <1>3

\* A blank cluster that is cleared.
LEMMA BlankAgain ==
  ASSUME NEW d, Typed(d), NEW x \in 0 .. MaxCl, d.ent[x] = Blank
  PROVE  [d EXCEPT !.ent[x] = Blank] = d
<1>1. [d.ent EXCEPT ![x] = Blank] = d.ent
  <2>1. d.ent \in [0 .. MaxCl -> [0 .. NSlots - 1 -> Slot]]
    BY VolumeParts
  <2> QED BY <2>1
<1>2. [d EXCEPT !.ent[x] = Blank] = [fat |-> d.fat, ent |-> [d.ent EXCEPT ![x] = Blank]]
  BY VolumeParts
<1> QED BY <1>1, <1>2, VolumeParts

Enterable(d, c, k, u) ==
  /\ Formed(d) /\ Linked(d) /\ c \in Dirs(d) /\ FirstRoom(d, Places(d, c), k)
  /\ u \in Clusters /\ IsHead(d.fat, u) /\ IsChain(d.fat, u, << u >>) /\ d.ent[u] = Blank
  /\ u \notin Heads(d)

\* The entries are written: EnterKept, in these terms.
LEMMA EnterNow ==
  ASSUME NEW d, NEW c, NEW k, NEW u, Enterable(d, c, k, u), NEW fn \in Names, NEW dir \in BOOLEAN
  PROVE  LET e == Entered(d, Places(d, c)[k][1], Places(d, c)[k][2], fn, dir, u) IN
         Formed(e) /\ Linked(e) /\ Grows(d, e) /\ e.ent[u] = Blank
<1> DEFINE e == Entered(d, Places(d, c)[k][1], Places(d, c)[k][2], fn, dir, u)
<1>1. e = Entered(d, Places(d, c)[k][1], Places(d, c)[k][2], fn, dir, u)
  OBVIOUS
<1> HIDE DEF e
<1>2. Formed(e) /\ Linked(e) /\ Grows(d, e) /\ e.ent[u] = Blank
  BY <1>1, EnterKept DEF Enterable
<1> QED BY <1>2 DEF e

\* The last three writes, on a volume with room for the entries at place k.
LEMMA EnterWrites ==
  ASSUME NEW d, Formed(d), Linked(d), NEW c \in Dirs(d), NEW k, FirstRoom(d, Places(d, c), k),
         NEW u \in Clusters, d.fat[u] = 0, NEW fn \in Names, NEW dir \in BOOLEAN,
         NEW own, own = [d EXCEPT !.fat[u] = EOC],
         NEW e, e = Entered(own, Places(d, c)[k][1], Places(d, c)[k][2], fn, dir, u)
  PROVE  /\ Formed(own) /\ Linked(own) /\ Grows(d, own) /\ own.ent = d.ent
         /\ Formed(e) /\ Linked(e) /\ Grows(d, e)
         /\ [e EXCEPT !.ent[u] = Blank] = e
<1>1. /\ Formed(own) /\ Linked(own) /\ Grows(d, own) /\ Dirs(own) = Dirs(d) /\ own.ent = d.ent
      /\ own.ent[u] = Blank /\ IsHead(own.fat, u) /\ IsChain(own.fat, u, << u >>) /\ u \notin Heads(own)
      /\ ChainFrom(own, c) = ChainFrom(d, c)
  BY OwnKept
<1>2. Places(own, c) = Places(d, c)
  BY <1>1 DEF Places
<1>3. \A x : At(own, x) = At(d, x)
  BY <1>1 DEF At
<1>4. FirstRoom(own, Places(own, c), k)
  BY <1>2, <1>3 DEF FirstRoom, RoomAt
<1>5. Formed(e) /\ Linked(e) /\ Grows(own, e) /\ e.ent[u] = Blank
  <2>1. e = Entered(own, Places(own, c)[k][1], Places(own, c)[k][2], fn, dir, u)
    BY <1>2
  <2>2. c \in Dirs(own)
    BY <1>1
  <2>3. Enterable(own, c, k, u)
    BY <1>1, <1>4, <2>2 DEF Enterable
  <2> QED BY <2>1, <2>3, EnterNow
<1>6. Grows(d, e)
  BY <1>1, <1>5, GrowsOn
<1>7. [e EXCEPT !.ent[u] = Blank] = e
  <2>1. u \in 0 .. MaxCl /\ Typed(e)
    BY <1>5, Sizes DEF Formed
  <2> QED BY <2>1, <1>5, BlankAgain
<1> QED BY <1>1, <1>5, <1>6, <1>7

-----------------------------------------------------------------------------
\* A directory without room that has grown: the first room is in its new cluster.
LEMMA GrownRoom ==
  ASSUME NEW d, Formed(d), Linked(d), NEW c \in Dirs(d), NEW u \in Clusters, d.fat[u] = 0,
         \A j \in 1 .. Len(Places(d, c)) : ~ RoomAt(d, Places(d, c)[j]),
         NEW p, p = Last(ChainFrom(d, c)), NEW e, e = Marked(d, p, u)
  PROVE  /\ FirstRoom(e, Places(e, c), Len(Places(d, c)) + 1)
         /\ Places(e, c)[Len(Places(d, c)) + 1] = << u, 0 >>
         /\ e.ent[u] = Blank
<1>0. Typed(d) /\ Chained(d) /\ Blanks(d)
  BY DEF Formed
<1>1. /\ c \in 0 .. MaxCl /\ IsChain(d.fat, c, ChainFrom(d, c))
  BY <1>0, FormedChains
<1>2. Formed(e) /\ e.ent = d.ent /\ ChainFrom(e, c) = Append(ChainFrom(d, c), u)
  BY MarkKept
<1>3. LaidOut(Places(d, c), ChainFrom(d, c)) /\ LaidOut(Places(e, c), ChainFrom(e, c))
  BY <1>0, <1>1, <1>2, PlacesAre DEF Formed
<1> DEFINE s == ChainFrom(d, c)
           s2 == ChainFrom(e, c)
           pls == Places(d, c)
           pls2 == Places(e, c)
<1>4. s \in Seq(0 .. MaxCl) /\ Len(s) \in Nat
  BY <1>1 DEF IsChain, Chains
<1>5. Len(s2) = Len(s) + 1 /\ s2[Len(s) + 1] = u /\ \A i \in 1 .. Len(s) : s2[i] = s[i]
  <2>1. u \in 0 .. MaxCl
    BY Sizes
  <2> HIDE DEF s
  <2> QED BY <1>2, <1>4, <2>1, Appended DEF s
<1>6. /\ Len(pls) < Len(pls2) /\ \A j \in 1 .. Len(pls) : pls2[j] = pls[j]
      /\ pls2[Len(pls) + 1] = << u, 0 >>
  <2> HIDE DEF s, s2, pls, pls2
  <2>1. Len(s) < Len(s2)
    BY <1>4, <1>5
  <2>2. LaidOut(pls, s) /\ LaidOut(pls2, s2)
    BY <1>3 DEF s, s2, pls, pls2
  <2> QED BY <2>1, <2>2, <1>5, MorePlaces
<1>7. e.ent[u] = Blank
  BY <1>0, <1>2, Sizes DEF Blanks
<1>8. RoomAt(e, << u, 0 >>)
  <2>1. 1 \in 0 .. NSlots - 1 /\ 0 \in 0 .. NSlots - 1 /\ 0 + 1 = 1 /\ 0 + 1 < NSlots
    BY Sizes
  <2>2. Blank[0] = Free /\ Blank[1] = Free
    BY <2>1 DEF Blank
  <2>3. At(e, << u, 0 >>) = Free /\ At(e, << u, 0 + 1 >>) = Free
    BY <1>7, <2>1, <2>2 DEF At
  <2> QED BY <2>1, <2>3 DEF RoomAt
<1>9. \A x : RoomAt(e, x) <=> RoomAt(d, x)
  BY <1>2 DEF RoomAt, At
<1>10. Len(pls) \in Nat /\ Len(pls2) \in Nat
  BY <1>3, PlaceIn
<1>11. FirstRoom(e, pls2, Len(pls) + 1)
  <2> \A j \in 1 .. Len(pls) : ~ RoomAt(d, pls[j])
    OBVIOUS
  <2> HIDE DEF pls, pls2
  <2>1. Len(pls) + 1 \in 1 .. Len(pls2) /\ \A j \in 1 .. Len(pls2) : j < Len(pls) + 1 => j \in 1 .. Len(pls)
    BY <1>6, <1>10
  <2>2. RoomAt(e, pls2[Len(pls) + 1])
    BY <1>6, <1>8
  <2>3. \A j \in 1 .. Len(pls) : ~ RoomAt(e, pls2[j])
    BY <1>6, <1>9
  <2> QED BY <2>1, <2>2, <2>3 DEF FirstRoom
<1> QED BY <1>6, <1>7, <1>11

-----------------------------------------------------------------------------
\* What the volume is after each of the writes w of fs_create.
Written(d, w) ==
  /\ Len(w) \in {3, 5} /\ Linked(w[Len(w)])
  /\ \A k \in 1 .. Len(w) : /\ Formed(w[k]) /\ Grows(d, w[k])
                            /\ Linked(w[k]) \/ (Len(w) = 5 /\ k = 1)

\* Written, if the directory has room,
LEMMA WrittenThree ==
  ASSUME NEW d, NEW a, NEW b, Formed(a), Linked(a), Grows(d, a), Formed(b), Linked(b), Grows(d, b)
  PROVE  Written(d, << >> \o << a, b, b >>)
<1>1. << >> \o << a, b, b >> = << a, b, b >>
  OBVIOUS
<1>2. \A k \in 1 .. 3 : << a, b, b >>[k] = a \/ << a, b, b >>[k] = b
  OBVIOUS
<1>3. Len(<< a, b, b >>) = 3 /\ << a, b, b >>[3] = b
  OBVIOUS
<1> DEFINE w == << a, b, b >>
<1>4. Written(d, w)
  <2> HIDE DEF w
  <2>1. Len(w) = 3 /\ w[3] = b /\ \A k \in 1 .. 3 : w[k] = a \/ w[k] = b
    BY <1>2, <1>3 DEF w
  <2> QED BY <2>1 DEF Written
<1> QED BY <1>1, <1>4

\* and if it grew.
LEMMA WrittenFive ==
  ASSUME NEW d, NEW l, NEW m, NEW a, NEW b, Formed(l), Grows(d, l), Formed(m), Linked(m), Grows(d, m),
         Formed(a), Linked(a), Grows(d, a), Formed(b), Linked(b), Grows(d, b)
  PROVE  Written(d, << l, m >> \o << a, b, b >>)
<1> DEFINE w == << l, m >> \o << a, b, b >>
<1>1. Len(w) = 5 /\ \A k \in 1 .. 5 : w[k] = IF k <= 2 THEN << l, m >>[k] ELSE << a, b, b >>[k - 2]
  <2> DEFINE S == {l, m, a, b}
             x == << l, m >>
             y == << a, b, b >>
  <2>1. x \in Seq(S) /\ y \in Seq(S) /\ Len(x) = 2 /\ Len(y) = 3
    OBVIOUS
  <2>2. w = x \o y
    OBVIOUS
  <2>3. Len(w) = 5 /\ \A k \in 1 .. 5 : w[k] = IF k <= 2 THEN x[k] ELSE y[k - 2]
    <3> HIDE DEF S, x, y, w
    <3>1. /\ Len(w) = Len(x) + Len(y)
          /\ \A k \in 1 .. Len(x) + Len(y) : w[k] = IF k <= Len(x) THEN x[k] ELSE y[k - Len(x)]
      BY <2>1, <2>2, ConcatProperties
    <3>2. Len(x) + Len(y) = 5 /\ Len(x) = 2
      BY <2>1
    <3> QED BY <3>1, <3>2
  <2> QED BY <2>3
<1>2. Len(w) = 5 /\ w[5] = b /\ w[1] = l /\ \A k \in 1 .. 5 : k = 1 \/ w[k] = m \/ w[k] = a \/ w[k] = b
  BY <1>1
<1>4. Written(d, w)
  <2> HIDE DEF w
  <2> QED BY <1>2 DEF Written
<1> QED BY <1>4

\* The new node's entries are entered into a directory that has room for them, or that
\* grows first, whenever two clusters are unused.
LEMMA CreateKept ==
  ASSUME NEW d, Formed(d), Linked(d), NEW n, tree[n].inode \in Dirs(d),
         NEW b \in Clusters, NEW b2 \in Clusters, b # b2, d.fat[b] = 0, d.fat[b2] = 0,
         NEW fn \in Names, NEW dir \in BOOLEAN
  PROVE  Written(d, _add_dirent(d, n, fn, dir))
<1> DEFINE c == tree[n].inode
           pls == Places(d, c)
           Room(pl) == RoomAt(d, pl)
           k == SelectInSeq(pls, Room)
<1>0. Typed(d) /\ Chained(d)
  BY DEF Formed
<1>1. /\ c \in 0 .. MaxCl /\ IsChain(d.fat, c, ChainFrom(d, c))
  BY <1>0, FormedChains
<1>2. LaidOut(pls, ChainFrom(d, c)) /\ pls \in Seq(Spots)
  BY <1>0, <1>1, PlacesAre DEF LaidOut
<1>3. \/ k = 0 /\ \A j \in 1 .. Len(pls) : ~ RoomAt(d, pls[j])
      \/ k # 0 /\ FirstRoom(d, pls, k)
  <2> DEFINE I == { i \in 1 .. Len(pls) : RoomAt(d, pls[i]) }
  <2>1. k = IF I # {} THEN Min(I) ELSE 0
    BY DEF SelectInSeq
  <2> HIDE DEF pls, k
  <2> QED BY <1>2, <2>1, RoomFound
<1> DEFINE pcl == pls[Len(pls)][1]
           u == _find_unused_cluster(d)
           link == [d EXCEPT !.fat[pcl] = u]
           mark == [link EXCEPT !.fat[u] = EOC]
<1>4. u \in Clusters /\ d.fat[u] = 0
  BY UnusedIs
<1>5. pcl = Last(ChainFrom(d, c))
  <2>1. pls[Len(pls)] = << ChainFrom(d, c)[Len(ChainFrom(d, c))], NSlots - 1 >>
    BY <1>2, PlaceIn
  <2> QED BY <2>1 DEF Last
<1>6. CASE k # 0
  <2> DEFINE own == [d EXCEPT !.fat[u] = EOC]
             e == Entered(own, pls[k][1], pls[k][2], fn, dir, u)
  <2>1. FirstRoom(d, Places(d, c), k)
    BY <1>3, <1>6
  <2>2. /\ Formed(own) /\ Linked(own) /\ Grows(d, own)
        /\ Formed(e) /\ Linked(e) /\ Grows(d, e) /\ [e EXCEPT !.ent[u] = Blank] = e
    <3> HIDE DEF k, u
    <3> QED BY <1>4, <2>1, EnterWrites
  <2>3. _add_dirent(d, n, fn, dir) = << >> \o << own, e, [e EXCEPT !.ent[u] = Blank] >>
    BY <1>6 DEF _add_dirent
  <2> HIDE DEF own, e
  <2> QED BY <2>2, <2>3, WrittenThree
<1>7. CASE k = 0
  <2> DEFINE u2 == _find_unused_cluster(mark)
             own == [mark EXCEPT !.fat[u2] = EOC]
             cl == [own EXCEPT !.ent[u] = Blank]
             e == Entered(cl, u, 0, fn, dir, u2)
  <2>1. \A j \in 1 .. Len(pls) : ~ RoomAt(d, pls[j])
    BY <1>3, <1>7
  <2>2. Formed(link) /\ Grows(d, link)
    <3> HIDE DEF pcl, u
    <3> QED BY <1>4, <1>5, LinkKept
  <2>3. /\ Formed(mark) /\ Linked(mark) /\ Grows(d, mark) /\ Dirs(mark) = Dirs(d) /\ mark.ent = d.ent
        /\ \A x \in Clusters : x # u => (mark.fat[x] = 0 <=> d.fat[x] = 0)
    <3>1. mark = Marked(d, pcl, u)
      BY DEF Marked
    <3> HIDE DEF pcl, u, mark
    <3> QED BY <1>4, <1>5, <3>1, MarkKept
  <2>4. /\ FirstRoom(mark, Places(mark, c), Len(pls) + 1)
        /\ Places(mark, c)[Len(pls) + 1] = << u, 0 >> /\ mark.ent[u] = Blank
    <3>1. mark = Marked(d, pcl, u)
      BY DEF Marked
    <3> HIDE DEF pcl, u, mark
    <3> QED BY <1>4, <1>5, <2>1, <3>1, GrownRoom
  <2>5. \E x \in Clusters : mark.fat[x] = 0
    <3> HIDE DEF u, mark
    <3> QED BY <2>3
  <2>6. u2 \in Clusters /\ mark.fat[u2] = 0
    <3> HIDE DEF mark
    <3> QED BY <2>5, UnusedIs
  <2>7. c \in Dirs(mark)
    BY <2>3
  <2> DEFINE k2 == Len(pls) + 1
             e2 == Entered(own, Places(mark, c)[k2][1], Places(mark, c)[k2][2], fn, dir, u2)
  <2>8. /\ Formed(own) /\ Linked(own) /\ Grows(mark, own) /\ own.ent = mark.ent
        /\ Formed(e2) /\ Linked(e2) /\ Grows(mark, e2) /\ [e2 EXCEPT !.ent[u2] = Blank] = e2
    <3> HIDE DEF mark, u2, k2, c
    <3> QED BY <2>3, <2>4, <2>6, <2>7, EnterWrites DEF k2
  <2>9. cl = own
    <3> HIDE DEF own, u, mark
    <3>1. u \in 0 .. MaxCl /\ own.ent[u] = Blank /\ Typed(own)
      BY <1>4, <2>4, <2>8, Sizes DEF Formed
    <3> QED BY <3>1, BlankAgain
  <2>10. e = e2
    <3> HIDE DEF mark, own, cl, u, u2
    <3> QED BY <2>4, <2>9
  <2>11. _add_dirent(d, n, fn, dir) = << link, mark >> \o << own, e, [e EXCEPT !.ent[u2] = Blank] >>
    BY <1>7 DEF _add_dirent, Target
  <2>12. Grows(d, own) /\ Grows(d, e)
    <3> HIDE DEF mark, own, e, e2
    <3> QED BY <2>3, <2>8, <2>10, GrowsOn
  <2> HIDE DEF link, mark, own, e, e2, u2
  <2> QED BY <2>2, <2>3, <2>8, <2>10, <2>11, <2>12, WrittenFive
<1> QED BY <1>6, <1>7

-----------------------------------------------------------------------------
\* No two files or directories of a volume have a cluster in common.
Apart(d, b, c) == ToSet(ChainFrom(d, b)) \cap ToSet(ChainFrom(d, c)) = {}

\* The chains of two files or directories have no cluster in common.
LEMMA HeadsApart ==
  ASSUME NEW d, Formed(d), Linked(d), NEW b \in Heads(d), NEW c \in Heads(d), b # c
  PROVE  Apart(d, b, c)
<1>0. Typed(d) /\ Chained(d) /\ NoLoose(d.fat)
  BY LinkedNoLoose DEF Formed
<1> DEFINE s == ChainFrom(d, b)
           t == ChainFrom(d, c)
<1>1. /\ OneChain(d.fat)
      /\ IsHead(d.fat, b) /\ IsChain(d.fat, b, s) /\ IsHead(d.fat, c) /\ IsChain(d.fat, c, t)
  BY <1>0, FormedChains
<1>2. s \in Seq(Clusters)
  BY <1>0, <1>1, ChainUsed DEF OneChain
<1> HIDE DEF s, t
<1>3. t \in Seq(0 .. MaxCl)
  BY <1>1 DEF IsChain, Chains
<1>4. ASSUME NEW x \in ToSet(s) \cap ToSet(t) PROVE FALSE
  <2>1. PICK i \in 1 .. Len(s) : x = s[i]
    BY <1>2 DEF ToSet
  <2>2. PICK j \in 1 .. Len(t) : x = t[j]
    BY <1>3 DEF ToSet
  <2>3. s[i] \in Clusters /\ s[i] = t[j]
    BY <1>2, <2>1, <2>2, ElemIn
  <2> QED BY <1>1, <2>3, ChainsApart DEF OneChain
<1> QED BY <1>4 DEF Apart, s, t

\* A well-formed volume is as EntriesSound wants it.
LEMMA DiskSound ==
  ASSUME NEW d, Formed(d), Linked(d)
  PROVE  /\ Followed(d)
         /\ \A pl, ql \in Named(d) :
              At(d, pl).cl # 0 /\ At(d, ql).cl # 0 =>
                /\ At(d, pl).cl = At(d, ql).cl => pl = ql
                /\ At(d, pl).cl # At(d, ql).cl => Apart(d, At(d, pl).cl, At(d, ql).cl)
                /\ At(d, ql).cl \notin ToSet(ChainFrom(d, RootCl))
<1>0. Typed(d) /\ Chained(d) /\ Followed(d)
  BY DEF Formed
<1>1. ASSUME NEW pl \in Named(d), NEW ql \in Named(d), At(d, pl).cl # 0, At(d, ql).cl # 0
      PROVE  /\ At(d, pl).cl = At(d, ql).cl => pl = ql
             /\ At(d, pl).cl # At(d, ql).cl => Apart(d, At(d, pl).cl, At(d, ql).cl)
             /\ At(d, ql).cl \notin ToSet(ChainFrom(d, RootCl))
  <2> DEFINE b == At(d, pl).cl
             c == At(d, ql).cl
  <2>1. b \in Heads(d) /\ c \in Heads(d) /\ RootCl \in Heads(d)
    BY <1>1 DEF Heads
  <2>2. b = c => pl = ql
    BY <1>0, <1>1 DEF Chained
  <2>3. c # RootCl
    BY <1>0 DEF Chained
  <2>4. IsChain(d.fat, c, ChainFrom(d, c))
    BY <1>0, <2>1, FormedChains
  <2> HIDE DEF b, c
  <2>5. b # c => Apart(d, b, c)
    BY <2>1, HeadsApart
  <2>6. Apart(d, c, RootCl)
    BY <2>1, <2>3, HeadsApart
  <2>7. c \in ToSet(ChainFrom(d, c))
    <3>1. ChainFrom(d, c)[1] = c /\ 1 \in DOMAIN ChainFrom(d, c)
      BY <2>4 DEF IsChain, Chains
    <3> QED BY <3>1 DEF ToSet
  <2>8. c \notin ToSet(ChainFrom(d, RootCl))
    BY <2>6, <2>7 DEF Apart
  <2> QED BY <2>2, <2>5, <2>8 DEF b, c
<1> QED BY <1>0, <1>1

-----------------------------------------------------------------------------
\* The tree.
Dirent == [name : Names, node : Nat]
Node   == [name : {"/"} \cup Names, dir : BOOLEAN, inode : {0} \cup Clusters, len : Nat, impl : BOOLEAN,
           first : Seq(Dirent), impl2 : Nat \X Nat]

\* The nodes are a directory for the root and one for each of some places on the
\* volume, reached from the root.
Placed(d, t) ==
  /\ t[1].dir /\ t[1].inode = RootCl /\ t[1].len = 0
  /\ \A n \in 2 .. Len(t) :
       /\ t[n].impl2 \in Named(d) /\ At(d, t[n].impl2) = Short(t[n].dir, t[n].inode, t[n].len)
       /\ \A m \in 2 .. Len(t) : t[n].impl2 = t[m].impl2 => n = m
       /\ \E p \in DOMAIN t : \E i \in DOMAIN t[p].first : t[p].first[i].node = n

\* What node n has of its directory is as on the volume.
Listed(d, t, n) ==
  LET f == t[n].first  es == Entries(d, t[n].inode) IN
  f # << >> =>
    /\ t[n].dir /\ Len(f) <= Len(es)
    /\ \A i \in DOMAIN f :
         /\ f[i].name = es[i].name /\ f[i].node \in {NULL} \cup 2 .. Len(t)
         /\ IF f[i].node = NULL THEN es[i].at = {}
            ELSE es[i].at = { t[f[i].node].impl2 } /\ t[f[i].node].name = f[i].name

TreeOK(d, t) == /\ t \in Seq(Node) /\ t # << >>
                /\ Placed(d, t)
                /\ \A n \in DOMAIN t : Listed(d, t, n)

\* And what was read has at least what w has.
Reads(w, t) == \A n \in DOMAIN t :
  t[n].inode \in Dirs(w) /\ t[n].dir /\ (t[n].first # << >> \/ t[n].impl)
    => Len(Entries(w, t[n].inode)) <= Len(t[n].first)

\* All of two nodes but what was read of their directories.
Same(a, b) == /\ a.name = b.name /\ a.dir = b.dir /\ a.inode = b.inode /\ a.len = b.len
              /\ a.impl2 = b.impl2

\* The node n of a tree with other entries, and one entry given a node.
WithFirst(t, n, f) == [t EXCEPT ![n] = [t[n] EXCEPT !.first = f]]
WithNode(f, l, x) == [f EXCEPT ![l] = [f[l] EXCEPT !.node = x]]

\* What they are: the tree with other entries of one node,
LEMMA WithFirstIs ==
  ASSUME NEW t \in Seq(Node), NEW n \in 1 .. Len(t), NEW f \in Seq(Dirent)
  PROVE  /\ WithFirst(t, n, f) \in Seq(Node) /\ Len(WithFirst(t, n, f)) = Len(t)
         /\ WithFirst(t, n, f)[n].first = f /\ Same(WithFirst(t, n, f)[n], t[n])
         /\ WithFirst(t, n, f)[n].impl = t[n].impl
         /\ \A m \in 1 .. Len(t) : m # n => WithFirst(t, n, f)[m] = t[m]
<1>1. t[n] \in Node
  BY ElemIn
<1> DEFINE x == [t[n] EXCEPT !.first = f]
<1>2. x \in Node /\ x.first = f /\ x.impl = t[n].impl
  BY <1>1 DEF Node
<1>2a. Same(x, t[n])
  BY <1>1 DEF Same, Node
<1> HIDE DEF x, Node, Same
<1>3. WithFirst(t, n, f) = [t EXCEPT ![n] = x]
  BY DEF WithFirst, x
<1>4. /\ [t EXCEPT ![n] = x] \in Seq(Node) /\ Len([t EXCEPT ![n] = x]) = Len(t)
      /\ [t EXCEPT ![n] = x][n] = x /\ \A m \in 1 .. Len(t) : m # n => [t EXCEPT ![n] = x][m] = t[m]
  BY <1>2
<1> QED BY <1>2, <1>2a, <1>3, <1>4

\* the entries with one that has a node,
LEMMA WithNodeIs ==
  ASSUME NEW f \in Seq(Dirent), NEW l \in 1 .. Len(f), NEW x \in Nat
  PROVE  /\ WithNode(f, l, x) \in Seq(Dirent) /\ Len(WithNode(f, l, x)) = Len(f)
         /\ WithNode(f, l, x)[l].name = f[l].name /\ WithNode(f, l, x)[l].node = x
         /\ \A i \in 1 .. Len(f) : i # l => WithNode(f, l, x)[i] = f[i]
<1>1. f[l] \in Dirent
  BY ElemIn
<1> DEFINE y == [f[l] EXCEPT !.node = x]
<1>2. y \in Dirent /\ y.name = f[l].name /\ y.node = x
  BY <1>1 DEF Dirent
<1> HIDE DEF y, Dirent
<1>3. WithNode(f, l, x) = [f EXCEPT ![l] = y]
  BY DEF WithNode, y
<1>4. /\ [f EXCEPT ![l] = y] \in Seq(Dirent) /\ Len([f EXCEPT ![l] = y]) = Len(f)
      /\ [f EXCEPT ![l] = y][l] = y /\ \A m \in 1 .. Len(f) : m # l => [f EXCEPT ![l] = y][m] = f[m]
  BY <1>2
<1> QED BY <1>2, <1>3, <1>4

\* and a record of two fields, both set.
LEMMA BothSet ==
  ASSUME NEW r, NEW a, NEW b, r = [tree |-> a, fld |-> b], NEW y, NEW z
  PROVE  [r EXCEPT !.tree = y, !.fld = z] = [tree |-> y, fld |-> z]
<1>1. [r EXCEPT !.tree = y, !.fld = z] = [[r EXCEPT !.tree = y] EXCEPT !.fld = z]
  OBVIOUS
<1>2. [r EXCEPT !.tree = y] = [tree |-> y, fld |-> b]
  OBVIOUS
<1>3. [[tree |-> y, fld |-> b] EXCEPT !.fld = z] = [tree |-> y, fld |-> z]
  OBVIOUS
<1> QED BY <1>1, <1>2, <1>3

\* The cases of ReadEntry in these terms.
Waits(u) == [tree |-> u, fld |-> TRUE]
Noded(u) == [tree |-> u, fld |-> FALSE]
NameOf(d, pl) == [name |-> At(d, pl).name, node |-> NULL]

\* A turn for a name,
LEMMA ReadName ==
  ASSUME NEW d, NEW n, NEW pl, NEW r, r \in [tree : Seq(Node), fld : BOOLEAN], At(d, pl).t = "long"
  PROVE  ReadEntry(d, n, r, pl) =
           Waits(WithFirst(r.tree, n, Append(r.tree[n].first, NameOf(d, pl))))
<1> DEFINE e == NameOf(d, pl)
           u == [r.tree EXCEPT ![n].first = Append(@, e)]
<1>1. r.tree \in Seq(Node) /\ r.fld \in BOOLEAN /\ r = [tree |-> r.tree, fld |-> r.fld]
  OBVIOUS
<1>2. ReadEntry(d, n, r, pl) = [r EXCEPT !.tree[n].first = Append(@, e), !.fld = TRUE]
  BY DEF ReadEntry, NameOf
<1> HIDE DEF e
<1>3. [r EXCEPT !.tree[n].first = Append(@, e), !.fld = TRUE] = Waits(u)
  <2> DEFINE z == TRUE
  <2> HIDE DEF z
  <2>1. [r EXCEPT !.tree[n].first = Append(@, e), !.fld = z] = [r EXCEPT !.tree = u, !.fld = z]
    BY Zenon
  <2>2. [r EXCEPT !.tree = u, !.fld = z] = [tree |-> u, fld |-> z]
    <3> DEFINE a == r.tree
               b == r.fld
    <3>1. r = [tree |-> a, fld |-> b]
      BY <1>1
    <3> HIDE DEF u, a, b
    <3> QED BY <3>1, BothSet
  <2> QED BY <2>1, <2>2, Zenon DEF z, Waits
<1>4. u = WithFirst(r.tree, n, Append(r.tree[n].first, e))
  BY DEF WithFirst
<1> QED BY <1>2, <1>3, <1>4 DEF e

\* one for an entry without a name,
LEMMA ReadOther ==
  ASSUME NEW d, NEW n, NEW pl, NEW r \in [tree : Seq(Node), fld : BOOLEAN],
         At(d, pl).t # "long", ~ r.fld
  PROVE  ReadEntry(d, n, r, pl) = r
BY DEF ReadEntry

\* The nodes with another, which the last entry of node n is given.
FileAdded(T, n, x) ==
  Append(WithFirst(T, n, WithNode(T[n].first, Len(T[n].first), Len(T) + 1)), x)

\* and one for an entry that has one.
LEMMA ReadFile ==
  ASSUME NEW d, NEW n, NEW pl, NEW r, r \in [tree : Seq(Node), fld : BOOLEAN],
         At(d, pl).t # "long", r.fld, n \in 1 .. Len(r.tree), NEW f, f = r.tree[n].first, Len(f) >= 1
  PROVE  ReadEntry(d, n, r, pl) = Noded(FileAdded(r.tree, n, NodeAt(d, pl, f[Len(f)].name)))
<1> DEFINE x == Len(r.tree) + 1
<1>1. r.tree \in Seq(Node)
  OBVIOUS
<1>2. r.tree[n] \in Node
  BY <1>1, ElemIn
<1>3. r.tree[n].first \in Seq(Dirent)
  BY <1>2 DEF Node
<1>4. ReadEntry(d, n, r, pl) =
        [fld |-> FALSE, tree |-> Append([r.tree EXCEPT ![n].first[Len(f)].node = x],
                                        NodeAt(d, pl, f[Len(f)].name))]
  BY DEF ReadEntry
<1>5. [r.tree EXCEPT ![n].first[Len(f)].node = x] = WithFirst(r.tree, n, WithNode(f, Len(f), x))
  BY <1>1, <1>2, <1>3 DEF WithFirst, WithNode
<1> QED BY <1>4, <1>5 DEF Noded, FileAdded

-----------------------------------------------------------------------------
\* What _read_dir32 has done of directory n of tree t: the nodes there were are as they
\* were, but for n's entries f; those show the names es of the volume, the last without
\* its node yet if the loop looks for the entry that follows it; and the new nodes, those
\* after the first lo, are of places before the k-th.
Kept(t, n, T) ==
  /\ Len(t) <= Len(T) /\ \A m \in 1 .. Len(t) : m # n => T[m] = t[m]
  /\ Same(T[n], t[n]) /\ T[n].impl = t[n].impl

Shown(T, lo, f, es, fld) ==
  /\ Len(f) = Len(es)
  /\ \A i \in 1 .. Len(f) :
       /\ f[i].name = es[i].name
       /\ f[i].node = 0 \/ f[i].node \in lo + 1 .. Len(T)
       /\ f[i].node = 0 /\ ~ (fld /\ i = Len(f)) => es[i].at = {}
       /\ f[i].node # 0 => es[i].at = {T[f[i].node].impl2} /\ T[f[i].node].name = f[i].name

MadeNode(d, pls, k, f, T, x) ==
  /\ T[x].first = << >> /\ ~ T[x].impl /\ T[x].impl2 \in Named(d)
  /\ At(d, T[x].impl2) = Short(T[x].dir, T[x].inode, T[x].len)
  /\ \E j \in 1 .. k : T[x].impl2 = pls[j]
  /\ \E i \in 1 .. Len(f) : f[i].node = x
Made(d, pls, k, lo, f, T) ==
  \A x \in lo + 1 .. Len(T) :
    /\ MadeNode(d, pls, k, f, T, x)
    /\ \A y \in lo + 1 .. Len(T) : T[x].impl2 = T[y].impl2 => x = y

Awaits(d, pls, k, f, es) ==
  /\ k > 0 /\ At(d, pls[k]).t = "long"
  /\ Len(f) >= 1 /\ f[Len(f)].node = 0 /\ es[Len(f)] = EntryOf(d, pls, k)

ReadTo(d, t, n, pls, up, k, r) ==
  /\ r \in [tree : Seq(Node), fld : BOOLEAN]
  /\ Kept(t, n, r.tree)
  /\ Shown(r.tree, Len(t), r.tree[n].first, up[k], r.fld)
  /\ Made(d, pls, k, Len(t), r.tree[n].first, r.tree)
  /\ r.fld => Awaits(d, pls, k, r.tree[n].first, up[k])

\* The directory that is read.
Readable(d, t, n, pls, up) ==
  /\ Typed(d) /\ Blanks(d) /\ Followed(d)
  /\ t \in Seq(Node) /\ n \in 1 .. Len(t)
  /\ \E s : LaidOut(pls, s)
  /\ \A i, j \in 1 .. Len(pls) : pls[i] = pls[j] => i = j
  /\ Listing(d, pls, up)

\* What a turn of the reading begins with.
LEMMA ReadFacts ==
  ASSUME NEW d, NEW t, NEW n, NEW pls, NEW up, Readable(d, t, n, pls, up),
         NEW k \in 1 .. Len(pls), NEW r, ReadTo(d, t, n, pls, up, k - 1, r)
  PROVE  /\ pls \in Seq(Spots) /\ Len(pls) \in Nat /\ k - 1 \in 0 .. Len(pls) /\ Len(t) \in Nat
         /\ r.tree \in Seq(Node) /\ Len(r.tree) \in Nat /\ n \in 1 .. Len(r.tree)
         /\ r.tree[n] \in Node /\ r.tree[n].first \in Seq(Dirent) /\ Len(r.tree[n].first) \in Nat
         /\ up[k - 1] \in Seq(Dirents) /\ up[k] = NextUp(d, pls, k, up[k - 1])
<1>1. pls \in Seq(Spots) /\ Len(pls) \in Nat
  BY DEF Readable, LaidOut
<1>2. k - 1 \in 0 .. Len(pls)
  BY <1>1
<1>3. up[k - 1] \in Seq(Dirents) /\ up[k] = NextUp(d, pls, k, up[k - 1])
  BY <1>2 DEF Readable, Listing
<1>4. r.tree \in Seq(Node) /\ t \in Seq(Node) /\ n \in 1 .. Len(t) /\ Len(t) <= Len(r.tree)
  BY DEF ReadTo, Readable, Kept
<1>5. Len(r.tree) \in Nat /\ n \in 1 .. Len(r.tree) /\ Len(t) \in Nat
  <2> HIDE DEF Node
  <2> QED BY <1>4
<1>6. r.tree[n] \in Node
  BY <1>4, <1>5, ElemIn
<1>7. r.tree[n].first \in Seq(Dirent)
  BY <1>6 DEF Node
<1> QED BY <1>1, <1>2, <1>3, <1>4, <1>5, <1>6, <1>7

\* A long entry.
LEMMA ReadLong ==
  ASSUME NEW d, NEW t, NEW n, NEW pls, NEW up, Readable(d, t, n, pls, up),
         NEW k \in 1 .. Len(pls), NEW r, ReadTo(d, t, n, pls, up, k - 1, r),
         At(d, pls[k]).t = "long"
  PROVE  ReadTo(d, t, n, pls, up, k, ReadEntry(d, n, r, pls[k]))
<1>0. /\ pls \in Seq(Spots) /\ Len(pls) \in Nat /\ k - 1 \in 0 .. Len(pls) /\ Len(t) \in Nat
      /\ r.tree \in Seq(Node) /\ Len(r.tree) \in Nat /\ n \in 1 .. Len(r.tree)
      /\ r.tree[n] \in Node /\ r.tree[n].first \in Seq(Dirent) /\ Len(r.tree[n].first) \in Nat
      /\ up[k - 1] \in Seq(Dirents) /\ up[k] = NextUp(d, pls, k, up[k - 1])
  BY ReadFacts
<1> DEFINE T == r.tree
           f == r.tree[n].first
           es == up[k - 1]
           e == NameOf(d, pls[k])
           g == Append(f, e)
           U == WithFirst(T, n, g)
           lo == Len(t)
           q == EntryOf(d, pls, k)
           rr == ReadEntry(d, n, r, pls[k])
<1>1. q \in Dirents /\ q.name = At(d, pls[k]).name
  BY <1>0, EntryOfIs DEF EntryOf, Readable
<1>2. e \in Dirent /\ e.name = q.name /\ e.node = 0
  BY <1>1 DEF Dirent, Dirents, Names, NULL, NameOf
<1>3. up[k] = Append(es, q)
  BY <1>0 DEF NextUp
<1>4. r \in [tree : Seq(Node), fld : BOOLEAN]
  BY DEF ReadTo
<1>5. rr = Waits(U)
  BY <1>4, ReadName
<1>6. Kept(t, n, T) /\ Shown(T, lo, f, es, r.fld) /\ Made(d, pls, k - 1, lo, f, T)
      /\ (r.fld => Awaits(d, pls, k - 1, f, es))
  BY DEF ReadTo
<1> HIDE DEF q, e, rr
<1>7. /\ g \in Seq(Dirent) /\ Len(g) = Len(f) + 1 /\ (\A i \in 1 .. Len(f) : g[i] = f[i]) /\ g[Len(f) + 1] = e
  BY <1>0, <1>2, Appended
<1>8. /\ Append(es, q) \in Seq(Dirents) /\ Len(Append(es, q)) = Len(es) + 1
      /\ (\A i \in 1 .. Len(es) : Append(es, q)[i] = es[i]) /\ Append(es, q)[Len(es) + 1] = q
  BY <1>0, <1>1, Appended
<1>8a. /\ up[k] \in Seq(Dirents) /\ Len(up[k]) = Len(es) + 1
       /\ (\A i \in 1 .. Len(es) : up[k][i] = es[i]) /\ up[k][Len(es) + 1] = q
  BY <1>3, <1>8
<1> HIDE DEF g
<1>9. /\ U \in Seq(Node) /\ Len(U) = Len(T) /\ U[n].first = g /\ Same(U[n], T[n]) /\ U[n].impl = T[n].impl
      /\ \A m \in 1 .. Len(T) : m # n => U[m] = T[m]
  BY <1>0, <1>7, WithFirstIs
<1> HIDE DEF U, T, f, es, lo
<1>10. Len(f) \in Nat /\ Len(T) \in Nat /\ lo \in Nat /\ n \in 1 .. Len(T) /\ lo <= Len(T) /\ n \in 1 .. lo
  BY <1>0, <1>6 DEF T, f, lo, Readable, Kept
<1>11. Kept(t, n, U)
  <2>1. Len(t) <= Len(U) /\ \A m \in 1 .. Len(t) : m # n => U[m] = t[m]
    BY <1>6, <1>9, <1>10 DEF Kept, lo
  <2>2. Same(U[n], t[n]) /\ U[n].impl = t[n].impl
    BY <1>6, <1>9 DEF Kept, Same
  <2> QED BY <2>1, <2>2 DEF Kept
<1>12. \A x \in lo + 1 .. Len(T) : x # n /\ U[x] = T[x] /\ x \in 1 .. Len(T) /\ x # 0
  BY <1>9, <1>10
<1>13. Shown(U, lo, g, up[k], TRUE)
  <2>1. Len(f) = Len(es)
    BY <1>6 DEF Shown
  <2>2. ASSUME NEW i \in 1 .. Len(g)
        PROVE  /\ g[i].name = up[k][i].name
               /\ g[i].node = 0 \/ g[i].node \in lo + 1 .. Len(U)
               /\ g[i].node = 0 /\ ~ (TRUE /\ i = Len(g)) => up[k][i].at = {}
               /\ g[i].node # 0 => up[k][i].at = {U[g[i].node].impl2} /\ U[g[i].node].name = g[i].name
    <3>1. CASE i = Len(f) + 1
      <4>1. g[i] = e /\ up[k][i] = q /\ i = Len(g)
        BY <3>1, <1>7, <1>8a, <2>1
      <4> QED BY <4>1, <1>2
    <3>2. CASE i # Len(f) + 1
      <4>1. i \in 1 .. Len(f) /\ i # Len(g) /\ g[i] = f[i] /\ up[k][i] = es[i]
        BY <3>2, <1>7, <1>8a, <1>10, <2>1
      <4>2. /\ f[i].name = es[i].name
            /\ f[i].node = 0 \/ f[i].node \in lo + 1 .. Len(T)
            /\ f[i].node = 0 /\ ~ (r.fld /\ i = Len(f)) => es[i].at = {}
            /\ f[i].node # 0 => es[i].at = {T[f[i].node].impl2} /\ T[f[i].node].name = f[i].name
        BY <4>1, <1>6 DEF Shown
      <4>3. r.fld /\ i = Len(f) => es[i].at = {}
        <5> SUFFICES ASSUME r.fld, i = Len(f) PROVE es[i].at = {}
          OBVIOUS
        <5>1. /\ k - 1 > 0 /\ At(d, pls[k - 1]).t = "long" /\ es[Len(f)] = EntryOf(d, pls, k - 1)
          BY <1>6 DEF Awaits
        <5>2. k - 1 \in 1 .. Len(pls) /\ (k - 1) + 1 = k
          BY <5>1, <1>0
        <5>3. EntryOf(d, pls, k - 1).at = IF IsShort(d, pls, (k - 1) + 1) THEN {pls[(k - 1) + 1]} ELSE {}
          BY <5>1, <5>2, <1>0, EntryOfIs DEF Readable
        <5>4. ~ IsShort(d, pls, (k - 1) + 1)
          BY <5>2 DEF IsShort
        <5> QED BY <5>1, <5>3, <5>4
      <4>4. f[i].node # 0 => U[f[i].node] = T[f[i].node]
        BY <4>2, <1>12
      <4> QED BY <4>1, <4>2, <4>3, <4>4, <1>9
    <3> QED BY <3>1, <3>2
  <2>3. Len(g) = Len(up[k])
    BY <2>1, <1>7, <1>8a
  <2> QED BY <2>2, <2>3 DEF Shown
<1>14. Made(d, pls, k, lo, g, U)
  <2>1. ASSUME NEW x \in lo + 1 .. Len(U)
        PROVE  MadeNode(d, pls, k, g, U, x)
    <3>1. x \in lo + 1 .. Len(T) /\ U[x] = T[x]
      BY <1>9, <1>12
    <3>2. MadeNode(d, pls, k - 1, f, T, x)
      BY <3>1, <1>6 DEF Made
    <3>3. \A j \in 1 .. k - 1 : j \in 1 .. k
      BY <1>0
    <3>4. \A i \in 1 .. Len(f) : i \in 1 .. Len(g) /\ g[i] = f[i]
      BY <1>7, <1>10
    <3> QED BY <3>1, <3>2, <3>3, <3>4 DEF MadeNode
  <2>2. ASSUME NEW x \in lo + 1 .. Len(U), NEW y \in lo + 1 .. Len(U), U[x].impl2 = U[y].impl2 PROVE x = y
    <3>1. x \in lo + 1 .. Len(T) /\ U[x] = T[x] /\ y \in lo + 1 .. Len(T) /\ U[y] = T[y]
      BY <1>9, <1>12
    <3> QED BY <2>2, <3>1, <1>6 DEF Made
  <2> QED BY <2>1, <2>2 DEF Made
<1>15. Awaits(d, pls, k, g, up[k])
  <2>1. Len(f) = Len(es) /\ k > 0
    BY <1>0, <1>6 DEF Shown
  <2>2. Len(g) >= 1 /\ g[Len(g)] = e /\ up[k][Len(g)] = q
    BY <2>1, <1>7, <1>8a, <1>10
  <2> QED BY <2>1, <2>2, <1>2 DEF Awaits, q
<1>16. rr \in [tree : Seq(Node), fld : BOOLEAN] /\ rr.tree = U /\ rr.fld
  BY <1>5, <1>9 DEF Waits
<1>17. ReadTo(d, t, n, pls, up, k, rr)
  <2>1. rr.tree = U /\ rr.tree[n].first = g
    BY <1>9, <1>16
  <2>2. Shown(U, lo, g, up[k], rr.fld)
    BY <1>13, <1>16 DEF Shown
  <2> QED BY <2>1, <2>2, <1>11, <1>14, <1>15, <1>16 DEF ReadTo, lo
<1> QED BY <1>17 DEF rr

-----------------------------------------------------------------------------
\* What was made of the places so far was made of one more.
LEMMA MadeMore ==
  ASSUME NEW d, NEW pls, NEW k \in 1 .. Len(pls), Len(pls) \in Nat, NEW lo, NEW f, NEW T, Made(d, pls, k - 1, lo, f, T)
  PROVE  Made(d, pls, k, lo, f, T)
<1>1. \A j \in 1 .. k - 1 : j \in 1 .. k
  OBVIOUS
<1>2. ASSUME NEW x, MadeNode(d, pls, k - 1, f, T, x) PROVE MadeNode(d, pls, k, f, T, x)
  BY <1>1, <1>2 DEF MadeNode
<1> QED BY <1>2 DEF Made

\* An entry that is not long, when no name waits for it.
LEMMA ReadNothing ==
  ASSUME NEW d, NEW t, NEW n, NEW pls, NEW up, Readable(d, t, n, pls, up),
         NEW k \in 1 .. Len(pls), NEW r, ReadTo(d, t, n, pls, up, k - 1, r),
         At(d, pls[k]).t # "long", ~ r.fld
  PROVE  ReadTo(d, t, n, pls, up, k, ReadEntry(d, n, r, pls[k]))
<1>0. Len(pls) \in Nat /\ up[k] = NextUp(d, pls, k, up[k - 1])
  BY ReadFacts
<1>1. ReadEntry(d, n, r, pls[k]) = r
  BY ReadOther DEF ReadTo
<1>2. up[k] = up[k - 1]
  BY <1>0 DEF NextUp
<1>3. Made(d, pls, k, Len(t), r.tree[n].first, r.tree)
  BY <1>0, MadeMore DEF ReadTo
<1> QED BY <1>1, <1>2, <1>3 DEF ReadTo

\* The short entry after a long one.
LEMMA NodeIs ==
  ASSUME NEW d, Typed(d), NEW pl \in Named(d), NEW name \in Names, NEW x, x = NodeAt(d, pl, name)
  PROVE  /\ x \in Node /\ x.name = name /\ x.first = << >> /\ ~ x.impl /\ x.impl2 = pl
         /\ At(d, pl) = Short(x.dir, x.inode, x.len)
<1>1. /\ pl \in Clusters \X (1 .. NSlots - 1) /\ At(d, pl).t = "short"
      /\ At(d, pl).dir \in BOOLEAN /\ At(d, pl).cl \in {0} \cup Clusters /\ At(d, pl).sz \in Nat
      /\ At(d, pl) = Short(At(d, pl).dir, At(d, pl).cl, At(d, pl).sz)
  BY NamedAt
<1>2. pl \in Nat \X Nat
  BY <1>1, Sizes
<1> DEFINE D == At(d, pl).t = "short" /\ At(d, pl).dir
           y == [name |-> name, dir |-> D, inode |-> At(d, pl).cl, len |-> At(d, pl).sz,
                 impl |-> FALSE, first |-> << >>, impl2 |-> pl]
<1>3. x = y
  BY <1>1 DEF NodeAt, fs_alloc, EntryAt
<1>4. D \in BOOLEAN /\ D = At(d, pl).dir
  BY <1>1
<1> HIDE DEF D
<1>5. << >> \in Seq(Dirent)
  OBVIOUS
<1>6. y \in Node
  <2> HIDE DEF Clusters
  <2> QED BY <1>1, <1>2, <1>4, <1>5 DEF Node
<1>7. /\ y.name = name /\ y.first = << >> /\ ~ y.impl /\ y.impl2 = pl
      /\ y.dir = At(d, pl).dir /\ y.inode = At(d, pl).cl /\ y.len = At(d, pl).sz
  BY <1>4
<1> HIDE DEF y
<1> QED BY <1>1, <1>3, <1>6, <1>7

\* The tree with one more node, and an entry that has it.
LEMMA FileAddedIs ==
  ASSUME NEW T \in Seq(Node), NEW n \in 1 .. Len(T), Len(T[n].first) >= 1, NEW x \in Node
  PROVE  LET W == FileAdded(T, n, x)  f == T[n].first  g == W[n].first  IN
         /\ W \in Seq(Node) /\ Len(W) = Len(T) + 1 /\ W[Len(T) + 1] = x
         /\ Same(W[n], T[n]) /\ W[n].impl = T[n].impl
         /\ \A m \in 1 .. Len(T) : m # n => W[m] = T[m]
         /\ Len(f) \in Nat /\ Len(f) \in 1 .. Len(f)
         /\ g \in Seq(Dirent) /\ Len(g) = Len(f) /\ g[Len(f)].name = f[Len(f)].name
         /\ g[Len(f)].node = Len(T) + 1 /\ \A i \in 1 .. Len(f) : i # Len(f) => g[i] = f[i]
<1> DEFINE f == T[n].first
           g == WithNode(f, Len(f), Len(T) + 1)
           U == WithFirst(T, n, g)
           W == FileAdded(T, n, x)
<1>1. T[n] \in Node
  BY ElemIn
<1>2. f \in Seq(Dirent) /\ Len(T) + 1 \in Nat /\ Len(T) \in Nat
  <2>1. f \in Seq(Dirent)
    BY <1>1 DEF Node
  <2>2. Len(T) + 1 \in Nat /\ Len(T) \in Nat
    OBVIOUS
  <2> QED BY <2>1, <2>2
<1>3. Len(f) >= 1
  OBVIOUS
<1>4. W = Append(U, x)
  BY DEF FileAdded
<1> HIDE DEF f, W
<1>5. Len(f) \in Nat /\ Len(f) \in 1 .. Len(f)
  BY <1>2, <1>3
<1>6. /\ g \in Seq(Dirent) /\ Len(g) = Len(f) /\ g[Len(f)].name = f[Len(f)].name
      /\ g[Len(f)].node = Len(T) + 1 /\ \A i \in 1 .. Len(f) : i # Len(f) => g[i] = f[i]
  BY <1>2, <1>5, WithNodeIs
<1> HIDE DEF g
<1>7. /\ U \in Seq(Node) /\ Len(U) = Len(T) /\ U[n].first = g /\ Same(U[n], T[n]) /\ U[n].impl = T[n].impl
      /\ \A m \in 1 .. Len(T) : m # n => U[m] = T[m]
  BY <1>6, WithFirstIs
<1> HIDE DEF U
<1>8. /\ W \in Seq(Node) /\ Len(W) = Len(U) + 1 /\ (\A m \in 1 .. Len(U) : W[m] = U[m]) /\ W[Len(U) + 1] = x
  BY <1>4, <1>7, Appended
<1>9. W[n] = U[n] /\ W[n].first = g /\ (\A m \in 1 .. Len(T) : W[m] = U[m]) /\ W[Len(T) + 1] = x
  BY <1>7, <1>8
<1> QED BY <1>5, <1>6, <1>7, <1>8, <1>9 DEF f, W

\* A turn for an entry that has a name.
LEMMA ReadShort ==
  ASSUME NEW d, NEW t, NEW n, NEW pls, NEW up, Readable(d, t, n, pls, up),
         NEW k \in 1 .. Len(pls), NEW r, ReadTo(d, t, n, pls, up, k - 1, r),
         At(d, pls[k]).t # "long", r.fld
  PROVE  ReadTo(d, t, n, pls, up, k, ReadEntry(d, n, r, pls[k]))
<1>0. /\ pls \in Seq(Spots) /\ Len(pls) \in Nat /\ k - 1 \in 0 .. Len(pls) /\ Len(t) \in Nat
      /\ r.tree \in Seq(Node) /\ Len(r.tree) \in Nat /\ n \in 1 .. Len(r.tree)
      /\ r.tree[n] \in Node /\ r.tree[n].first \in Seq(Dirent) /\ Len(r.tree[n].first) \in Nat
      /\ up[k - 1] \in Seq(Dirents) /\ up[k] = NextUp(d, pls, k, up[k - 1])
  BY ReadFacts
<1> DEFINE T == r.tree
           f == r.tree[n].first
           es == up[k - 1]
           l == Len(f)
           z == Len(T) + 1
           x == NodeAt(d, pls[k], f[l].name)
           W == FileAdded(T, n, x)
           g == W[n].first
           lo == Len(t)
           rr == ReadEntry(d, n, r, pls[k])
<1>1. up[k] = es
  BY <1>0 DEF NextUp
<1>2. /\ Kept(t, n, T) /\ Shown(T, lo, f, es, r.fld) /\ Made(d, pls, k - 1, lo, f, T)
      /\ Awaits(d, pls, k - 1, f, es) /\ r \in [tree : Seq(Node), fld : BOOLEAN]
  BY DEF ReadTo
<1>3. /\ k - 1 > 0 /\ At(d, pls[k - 1]).t = "long"
      /\ l >= 1 /\ f[l].node = 0 /\ es[l] = EntryOf(d, pls, k - 1)
  BY <1>2 DEF Awaits
<1>4. k - 1 \in 1 .. Len(pls) /\ (k - 1) + 1 = k /\ l \in 1 .. l
  BY <1>0, <1>3
<1>5. At(d, pls[k]).t = "short" /\ pls[k] \in Named(d)
  <2>1. PICK s : LaidOut(pls, s)
    BY DEF Readable
  <2>2. /\ At(d, pls[(k - 1) + 1]).t \in {"long", "short"}
        /\ At(d, pls[(k - 1) + 1]).t = "short" => pls[(k - 1) + 1] \in Named(d)
    BY <2>1, <1>3, <1>4, LongAt DEF Readable
  <2> QED BY <2>2, <1>4
<1>6. es[l].at = {pls[k]}
  <2>1. EntryOf(d, pls, k - 1).at = IF IsShort(d, pls, (k - 1) + 1) THEN {pls[(k - 1) + 1]} ELSE {}
    BY <1>0, <1>3, <1>4, EntryOfIs DEF Readable
  <2>2. IsShort(d, pls, k)
    BY <1>0, <1>5 DEF IsShort
  <2> QED BY <2>1, <2>2, <1>3, <1>4
<1>7. f[l].name \in Names
  <2>1. f[l] \in Dirent
    BY <1>0, <1>4, ElemIn
  <2> QED BY <2>1 DEF Dirent
<1>8. /\ x \in Node /\ x.name = f[l].name /\ x.first = << >> /\ ~ x.impl /\ x.impl2 = pls[k]
      /\ At(d, pls[k]) = Short(x.dir, x.inode, x.len)
  <2> DEFINE pl == pls[k]
             name == f[l].name
  <2>1. Typed(d) /\ x = NodeAt(d, pl, name) /\ pl \in Named(d) /\ name \in Names
    BY <1>5, <1>7 DEF Readable
  <2> HIDE DEF x, name, pl
  <2>2. /\ x \in Node /\ x.name = name /\ x.first = << >> /\ ~ x.impl /\ x.impl2 = pl
        /\ At(d, pl) = Short(x.dir, x.inode, x.len)
    BY <2>1, NodeIs
  <2> QED BY <2>2 DEF pl, name
<1>9. rr = Noded(W)
  <2> DEFINE pl == pls[k]
             h == r.tree[n].first
  <2>1. h = r.tree[n].first /\ Len(h) >= 1 /\ At(d, pl).t # "long"
    BY <1>3
  <2>2. r \in [tree : Seq(Node), fld : BOOLEAN] /\ r.fld /\ n \in 1 .. Len(r.tree)
    BY <1>0, <1>2
  <2> HIDE DEF pl, h
  <2>3. ReadEntry(d, n, r, pl) = Noded(FileAdded(r.tree, n, NodeAt(d, pl, h[Len(h)].name)))
    BY <2>1, <2>2, ReadFile
  <2> QED BY <2>3 DEF pl, h
<1> HIDE DEF rr, x
<1>14. /\ W \in Seq(Node) /\ Len(W) = Len(T) + 1 /\ W[Len(T) + 1] = x
       /\ Same(W[n], T[n]) /\ W[n].impl = T[n].impl
       /\ \A m \in 1 .. Len(T) : m # n => W[m] = T[m]
       /\ Len(f) \in Nat /\ Len(f) \in 1 .. Len(f)
       /\ g \in Seq(Dirent) /\ Len(g) = Len(f) /\ g[Len(f)].name = f[Len(f)].name
       /\ g[Len(f)].node = Len(T) + 1 /\ \A i \in 1 .. Len(f) : i # Len(f) => g[i] = f[i]
  <2>1. T \in Seq(Node) /\ n \in 1 .. Len(T) /\ Len(T[n].first) >= 1 /\ f = T[n].first
    BY <1>0, <1>3
  <2> HIDE DEF T, f
  <2> QED BY <2>1, <1>8, FileAddedIs
<1>13. /\ l \in Nat /\ Len(T) \in Nat /\ lo \in Nat /\ n \in 1 .. Len(T) /\ lo <= Len(T) /\ n \in 1 .. lo
       /\ W[n].first = g /\ z = Len(T) + 1 /\ l = Len(f) /\ f = r.tree[n].first
  BY <1>0, <1>2 DEF Readable, Kept
<1> HIDE DEF W, g, T, f, es, lo, l, z
<1>14a. Len(W) = z /\ W[z] = x /\ l \in 1 .. l /\ l \in 1 .. Len(g) /\ Len(g) = Len(f) /\ g[l].node = z
  BY <1>13, <1>14
<1>15. /\ z \in Nat /\ z # 0 /\ z \in lo + 1 .. Len(W) /\ z # n
       /\ \A y \in lo + 1 .. Len(W) : y = z \/ (y \in lo + 1 .. Len(T) /\ y # z /\ W[y] = T[y])
       /\ \A y \in lo + 1 .. Len(T) : y \in lo + 1 .. Len(W) /\ W[y] = T[y] /\ y # 0
  <2>1. \A y \in lo + 1 .. Len(T) : y \in 1 .. Len(T) /\ y # n /\ y # 0 /\ y # z /\ y \in lo + 1 .. z
    BY <1>13
  <2>2. \A y \in lo + 1 .. z : y = z \/ y \in lo + 1 .. Len(T)
    BY <1>13
  <2>3. \A y \in lo + 1 .. Len(T) : W[y] = T[y]
    BY <2>1, <1>14
  <2>4. z \in Nat /\ z # 0 /\ z \in lo + 1 .. z /\ z # n
    BY <1>13
  <2> QED BY <2>1, <2>2, <2>3, <2>4, <1>14a
<1>16. Kept(t, n, W)
  <2>1. Len(t) <= Len(W) /\ \A m \in 1 .. Len(t) : m # n => W[m] = t[m]
    BY <1>2, <1>13, <1>14 DEF Kept, lo
  <2>2. Same(W[n], t[n]) /\ W[n].impl = t[n].impl
    BY <1>2, <1>14 DEF Kept, Same
  <2> QED BY <2>1, <2>2 DEF Kept
<1>17. Shown(W, lo, g, up[k], FALSE)
  <2>1. Len(f) = Len(es) /\ l = Len(f)
    BY <1>2, <1>13 DEF Shown
  <2>2. ASSUME NEW i \in 1 .. Len(g)
        PROVE  /\ g[i].name = up[k][i].name
               /\ g[i].node = 0 \/ g[i].node \in lo + 1 .. Len(W)
               /\ g[i].node = 0 /\ ~ (FALSE /\ i = Len(g)) => up[k][i].at = {}
               /\ g[i].node # 0 => up[k][i].at = {W[g[i].node].impl2} /\ W[g[i].node].name = g[i].name
    <3>0. i \in 1 .. Len(f)
      BY <1>14, <2>1
    <3>1. /\ f[i].name = es[i].name
          /\ f[i].node = 0 \/ f[i].node \in lo + 1 .. Len(T)
          /\ f[i].node = 0 /\ ~ (r.fld /\ i = Len(f)) => es[i].at = {}
          /\ f[i].node # 0 => es[i].at = {T[f[i].node].impl2} /\ T[f[i].node].name = f[i].name
      BY <3>0, <1>2 DEF Shown
    <3>2. CASE i = l
      <4>1. g[i].node = z /\ g[i].name = f[i].name /\ up[k][i] = es[l] /\ z # 0
        BY <3>2, <1>1, <1>13, <1>14, <1>14a, <1>15
      <4>2. W[z].impl2 = pls[k] /\ W[z].name = f[i].name
        BY <3>2, <1>8, <1>14a
      <4> QED BY <3>1, <3>2, <4>1, <4>2, <1>6, <1>15
    <3>3. CASE i # l
      <4>1. g[i] = f[i] /\ ~ (i = Len(f))
        BY <3>0, <3>3, <2>1, <1>14
      <4> QED BY <4>1, <3>1, <1>1, <1>15
    <3> QED BY <3>2, <3>3
  <2>3. Len(g) = Len(up[k])
    BY <2>1, <1>1, <1>14
  <2> QED BY <2>2, <2>3 DEF Shown
<1>18. Made(d, pls, k, lo, g, W)
  <2>0. \A y \in lo + 1 .. Len(T) : /\ MadeNode(d, pls, k - 1, f, T, y)
                                    /\ \A w \in lo + 1 .. Len(T) : T[y].impl2 = T[w].impl2 => y = w
    BY <1>2 DEF Made
  <2>1. MadeNode(d, pls, k, g, W, z)
    <3>1. l \in 1 .. Len(g) /\ k \in 1 .. k
      BY <1>4, <1>14a
    <3> QED BY <3>1, <1>5, <1>8, <1>14a DEF MadeNode
  <2>2. ASSUME NEW y \in lo + 1 .. Len(T)
        PROVE  MadeNode(d, pls, k, g, W, y) /\ W[y].impl2 # W[z].impl2
    <3>1. MadeNode(d, pls, k - 1, f, T, y)
      BY <2>0
    <3>2. PICK j \in 1 .. k - 1 : T[y].impl2 = pls[j]
      BY <3>1 DEF MadeNode
    <3>3. j \in 1 .. k /\ j # k /\ j \in 1 .. Len(pls)
      BY <1>0
    <3>4. pls[j] # pls[k]
      BY <3>3 DEF Readable
    <3>5. PICK i \in 1 .. Len(f) : f[i].node = y
      BY <3>1 DEF MadeNode
    <3>6. i # l /\ i \in 1 .. Len(g) /\ g[i] = f[i]
      BY <3>5, <1>3, <1>13, <1>14, <1>14a, <1>15
    <3>7. W[y] = T[y] /\ W[z] = x
      BY <1>14a, <1>15
    <3> QED BY <3>1, <3>2, <3>3, <3>4, <3>5, <3>6, <3>7, <1>8 DEF MadeNode
  <2>3. \A y \in lo + 1 .. Len(W) : MadeNode(d, pls, k, g, W, y)
    BY <2>1, <2>2, <1>15
  <2>4. ASSUME NEW y \in lo + 1 .. Len(W), NEW w \in lo + 1 .. Len(W), W[y].impl2 = W[w].impl2
        PROVE  y = w
    BY <2>0, <2>2, <2>4, <1>15
  <2> QED BY <2>3, <2>4 DEF Made
<1>19. rr \in [tree : Seq(Node), fld : BOOLEAN] /\ rr.tree = W /\ ~ rr.fld
  BY <1>9, <1>14 DEF Noded
<1>20. ReadTo(d, t, n, pls, up, k, rr)
  <2>1. rr.tree = W /\ rr.tree[n].first = g
    BY <1>13, <1>19
  <2>2. Shown(W, lo, g, up[k], rr.fld)
    BY <1>17, <1>19 DEF Shown
  <2> QED BY <2>1, <2>2, <1>16, <1>18, <1>19 DEF ReadTo, lo
<1> QED BY <1>20 DEF rr

-----------------------------------------------------------------------------
\* A turn of the loop, whatever is at the place.
LEMMA ReadTurn ==
  ASSUME NEW d, NEW t, NEW n, NEW pls, NEW up, Readable(d, t, n, pls, up),
         NEW k \in 1 .. Len(pls), NEW r, ReadTo(d, t, n, pls, up, k - 1, r)
  PROVE  ReadTo(d, t, n, pls, up, k, ReadEntry(d, n, r, pls[k]))
<1>1. CASE At(d, pls[k]).t = "long"
  BY <1>1, ReadLong
<1>2. CASE At(d, pls[k]).t # "long" /\ ~ r.fld
  BY <1>2, ReadNothing
<1>3. CASE At(d, pls[k]).t # "long" /\ r.fld
  BY <1>3, ReadShort
<1> QED BY <1>1, <1>2, <1>3

\* Before the first turn.
LEMMA ReadFirst ==
  ASSUME NEW d, NEW t, NEW n, NEW pls, NEW up, Readable(d, t, n, pls, up), t[n].first = << >>
  PROVE  ReadTo(d, t, n, pls, up, 0, [tree |-> t, fld |-> FALSE])
<1> DEFINE r == [tree |-> t, fld |-> FALSE]
<1>1. r.tree = t /\ ~ r.fld
  OBVIOUS
<1>2. t \in Seq(Node) /\ n \in 1 .. Len(t) /\ up[0] = << >>
  BY DEF Readable, Listing
<1>3. r \in [tree : Seq(Node), fld : BOOLEAN]
  BY <1>2
<1> HIDE DEF r
<1>4. Len(t) \in Nat
  BY <1>2
<1>5. Kept(t, n, t)
  BY <1>4 DEF Kept, Same
<1>6. \A x \in Len(t) + 1 .. Len(t) : FALSE
  BY <1>4
<1>7. Made(d, pls, 0, Len(t), t[n].first, t)
  BY <1>6 DEF Made
<1>8. Shown(t, Len(t), t[n].first, up[0], r.fld)
  BY <1>2 DEF Shown
<1>9. ReadTo(d, t, n, pls, up, 0, r)
  BY <1>1, <1>3, <1>5, <1>7, <1>8 DEF ReadTo
<1> QED BY <1>9 DEF r

\* _read_dir32 takes these turns.
LEMMA ReadSteps ==
  ASSUME NEW d, NEW t, NEW n, NEW c, NEW up, Readable(d, t, n, Places(d, c), up), t[n].first = << >>
  PROVE  \E r : /\ ReadTo(d, t, n, Places(d, c), up, Len(Places(d, c)), r)
                /\ _read_dir32(d, t, n, c) = r.tree
<1> DEFINE pls == Places(d, c)
           a == [tree |-> t, fld |-> FALSE]
           Is(e) == e = [k \in 0 .. Len(pls) |-> IF k = 0 THEN a ELSE ReadEntry(d, n, e[k - 1], pls[k])]
           P(k, r) == ReadTo(d, t, n, pls, up, k, r)
           R == [tree : Seq(Node), fld : BOOLEAN]
           T == [k \in 0 .. Len(pls) |-> { r \in R : P(k, r) }]
           g == [k \in 1 .. Len(pls) |-> [x \in T[k - 1] |-> ReadEntry(d, n, x, pls[k])]]
<1>1. pls \in Seq(Spots) /\ Len(pls) \in Nat
  BY DEF Readable, LaidOut
<1>2. _read_dir32(d, t, n, c) = (CHOOSE e : Is(e))[Len(pls)].tree
  BY DEF _read_dir32
<1>3. Readable(d, t, n, pls, up)
  OBVIOUS
<1> HIDE DEF pls
<1>4. ASSUME NEW k \in 0 .. Len(pls), NEW r, P(k, r) PROVE r \in T[k]
  <2>1. r \in R
    BY <1>4 DEF ReadTo
  <2> HIDE DEF P, R
  <2> QED BY <1>4, <2>1
<1>5. \A k \in 0 .. Len(pls) : \A r \in T[k] : P(k, r)
  <2> HIDE DEF P, R
  <2> QED OBVIOUS
<1>6. \A k \in 1 .. Len(pls) : k - 1 \in 0 .. Len(pls) /\ k \in 0 .. Len(pls) /\ k # 0
  BY <1>1
<1>7. P(0, a) /\ 0 \in 0 .. Len(pls)
  BY <1>1, <1>3, ReadFirst
<1>8. ASSUME NEW k \in 1 .. Len(pls), NEW x, P(k - 1, x) PROVE P(k, ReadEntry(d, n, x, pls[k]))
  BY <1>3, <1>8, ReadTurn
<1> HIDE DEF a, P, T
<1>9. a \in T[0] /\ \A k \in 1 .. Len(pls) : \A x \in T[k - 1] : g[k][x] \in T[k]
  <2>1. a \in T[0]
    BY <1>4, <1>7
  <2>2. ASSUME NEW k \in 1 .. Len(pls), NEW x \in T[k - 1] PROVE g[k][x] \in T[k]
    <3>1. P(k - 1, x)
      BY <1>5, <1>6
    <3>2. P(k, ReadEntry(d, n, x, pls[k]))
      BY <3>1, <1>8
    <3>3. g[k][x] = ReadEntry(d, n, x, pls[k])
      OBVIOUS
    <3> HIDE DEF g
    <3> QED BY <3>2, <3>3, <1>4, <1>6
  <2> QED BY <2>1, <2>2
<1>10. PICK f : Stepped(f, Len(pls), T, a, g)
  <2> HIDE DEF g
  <2> QED BY <1>1, <1>9, Iterated
<1>11. /\ f = [k \in 0 .. Len(pls) |-> f[k]] /\ f[0] = a
       /\ \A k \in 1 .. Len(pls) : f[k] = ReadEntry(d, n, f[k - 1], pls[k])
  <2>1. \A k \in 0 .. Len(pls) : f[k] \in T[k]
    BY <1>10 DEF Stepped
  <2>2. \A k \in 1 .. Len(pls) : f[k] = g[k][f[k - 1]]
    BY <1>10 DEF Stepped
  <2>3. \A k \in 1 .. Len(pls) : f[k] = ReadEntry(d, n, f[k - 1], pls[k])
    BY <1>6, <2>1, <2>2
  <2>4. f = [k \in 0 .. Len(pls) |-> f[k]] /\ f[0] = a
    BY <1>10 DEF Stepped
  <2> QED BY <2>3, <2>4
<1>12. Is(f)
  <2> DEFINE h == [k \in 0 .. Len(pls) |-> IF k = 0 THEN a ELSE ReadEntry(d, n, f[k - 1], pls[k])]
  <2>1. \A k \in 0 .. Len(pls) : f[k] = h[k]
    <3> TAKE k \in 0 .. Len(pls)
    <3>1. CASE k = 0
      BY <3>1, <1>11
    <3>2. CASE k # 0
      <4>1. k \in 1 .. Len(pls)
        BY <3>2, <1>1
      <4> QED BY <4>1, <3>2, <1>11
    <3> QED BY <3>1, <3>2
  <2>2. h = [k \in 0 .. Len(pls) |-> h[k]]
    OBVIOUS
  <2>3. f = h
    <3> HIDE DEF h
    <3> QED BY <2>1, <2>2, <1>11
  <2> QED BY <2>3
<1> DEFINE w == CHOOSE e : Is(e)
<1>13. Is(w)
  <2> HIDE DEF Is
  <2> QED BY <1>12, Zenon
<1>14. _read_dir32(d, t, n, c) = w[Len(pls)].tree
  BY <1>2
<1> HIDE DEF w
<1>15. w[0] = a /\ \A k \in 1 .. Len(pls) : w[k] = ReadEntry(d, n, w[k - 1], pls[k])
  <2>1. w[0] = a
    BY <1>13, <1>7
  <2>2. ASSUME NEW k \in 1 .. Len(pls) PROVE w[k] = ReadEntry(d, n, w[k - 1], pls[k])
    <3>1. k \in 0 .. Len(pls) /\ k # 0
      BY <1>6
    <3> QED BY <3>1, <1>13, Zenon
  <2> QED BY <2>1, <2>2
<1>16. \A k \in 0 .. Len(pls) : P(k, w[k])
  <2> DEFINE M == { k \in 0 .. Len(pls) : P(k, w[k]) }
  <2>1. 0 \in M
    BY <1>7, <1>15
  <2>2. ASSUME NEW k \in 1 .. Len(pls), k - 1 \in M PROVE k \in M
    BY <2>2, <1>6, <1>8, <1>15
  <2>3. 0 .. Len(pls) \subseteq M
    <3> HIDE DEF M
    <3> QED BY <2>1, <2>2, UpToAll, <1>1
  <2> QED BY <2>3
<1>17. P(Len(pls), w[Len(pls)])
  <2>1. Len(pls) \in 0 .. Len(pls)
    BY <1>1
  <2> QED BY <2>1, <1>16
<1> QED BY <1>14, <1>17 DEF P, pls

-----------------------------------------------------------------------------
\* The parts of a tree that is as it should be.
LEMMA TreeParts ==
  ASSUME NEW d, Typed(d), NEW t, TreeOK(d, t)
  PROVE  /\ t \in Seq(Node) /\ Len(t) \in Nat /\ 1 \in 1 .. Len(t) /\ DOMAIN t = 1 .. Len(t)
         /\ \A n \in 1 .. Len(t) :
              /\ t[n] \in Node /\ t[n].first \in Seq(Dirent) /\ Len(t[n].first) \in Nat
              /\ DOMAIN t[n].first = 1 .. Len(t[n].first)
              /\ Listed(d, t, n)
         /\ \A n \in 1 .. Len(t) : n # 1 =>
              /\ t[n].impl2 \in Named(d) /\ At(d, t[n].impl2) = Short(t[n].dir, t[n].inode, t[n].len)
              /\ At(d, t[n].impl2).dir = t[n].dir /\ At(d, t[n].impl2).cl = t[n].inode
              /\ At(d, t[n].impl2).sz = t[n].len
              /\ \A m \in 1 .. Len(t) : m # 1 /\ t[n].impl2 = t[m].impl2 => n = m
              /\ \E p \in 1 .. Len(t) : \E i \in 1 .. Len(t[p].first) : t[p].first[i].node = n
<1>1. t \in Seq(Node) /\ t # << >> /\ Placed(d, t) /\ \A n \in DOMAIN t : Listed(d, t, n)
  BY DEF TreeOK
<1>2. Len(t) \in Nat /\ 1 \in 1 .. Len(t) /\ DOMAIN t = 1 .. Len(t)
  <2> HIDE DEF Node
  <2> QED BY <1>1
<1>3. \A n \in 1 .. Len(t) : t[n] \in Node
  BY <1>1, ElemIn
<1>4. ASSUME NEW n \in 1 .. Len(t)
      PROVE  /\ t[n].first \in Seq(Dirent) /\ Len(t[n].first) \in Nat
             /\ DOMAIN t[n].first = 1 .. Len(t[n].first)
  <2>1. t[n].first \in Seq(Dirent)
    BY <1>3 DEF Node
  <2> QED BY <2>1
<1>5. ASSUME NEW n \in 1 .. Len(t), n # 1
      PROVE  /\ t[n].impl2 \in Named(d) /\ At(d, t[n].impl2) = Short(t[n].dir, t[n].inode, t[n].len)
             /\ \A m \in 1 .. Len(t) : m # 1 /\ t[n].impl2 = t[m].impl2 => n = m
             /\ \E p \in 1 .. Len(t) : \E i \in 1 .. Len(t[p].first) : t[p].first[i].node = n
  <2>1. \A m \in 1 .. Len(t) : m # 1 => m \in 2 .. Len(t)
    BY <1>2
  <2>2. n \in 2 .. Len(t)
    BY <1>5, <2>1
  <2>3. PICK p \in DOMAIN t : \E i \in DOMAIN t[p].first : t[p].first[i].node = n
    BY <1>1, <2>2 DEF Placed
  <2>4. p \in 1 .. Len(t) /\ \E i \in 1 .. Len(t[p].first) : t[p].first[i].node = n
    BY <2>3, <1>2, <1>4
  <2> QED BY <1>1, <2>1, <2>2, <2>4 DEF Placed
<1>6. ASSUME NEW n \in 1 .. Len(t), n # 1
      PROVE  /\ At(d, t[n].impl2).dir = t[n].dir /\ At(d, t[n].impl2).cl = t[n].inode
             /\ At(d, t[n].impl2).sz = t[n].len
  <2>1. At(d, t[n].impl2) = Short(t[n].dir, t[n].inode, t[n].len)
    BY <1>5, <1>6
  <2> QED BY <2>1 DEF Short
<1> QED BY <1>1, <1>2, <1>3, <1>4, <1>5, <1>6

\* A node of a directory has a directory of the volume, which no other node has.
LEMMA TreeDir ==
  ASSUME NEW d, Formed(d), NEW t, TreeOK(d, t), NEW n \in 1 .. Len(t), t[n].dir
  PROVE  /\ t[n].inode \in Dirs(d) /\ t[n].inode \in Heads(d) /\ t[n].inode \in 0 .. MaxCl
         /\ \A p \in 1 .. Len(t) : t[p].dir /\ t[p].inode = t[n].inode => p = n
<1>0. Typed(d) /\ Chained(d)
  BY DEF Formed
<1>1. Dirs(d) \subseteq Heads(d) /\ \A h \in Heads(d) : h \in 0 .. MaxCl
  BY <1>0, FormedChains
<1>2. t[1].inode = RootCl
  BY DEF TreeOK, Placed
<1>3. \A m \in 1 .. Len(t) : m # 1 =>
        /\ t[m].impl2 \in Named(d) /\ At(d, t[m].impl2).dir = t[m].dir /\ At(d, t[m].impl2).cl = t[m].inode
        /\ \A p \in 1 .. Len(t) : p # 1 /\ t[m].impl2 = t[p].impl2 => m = p
  BY <1>0, TreeParts
<1>4. t[n].inode \in Dirs(d)
  <2>1. CASE n = 1
    BY <2>1, <1>2 DEF Dirs
  <2>2. CASE n # 1
    <3>1. t[n].impl2 \in Named(d) /\ At(d, t[n].impl2).dir /\ At(d, t[n].impl2).cl = t[n].inode
      BY <2>2, <1>3
    <3> QED BY <3>1 DEF Dirs
  <2> QED BY <2>1, <2>2
<1>5. ASSUME NEW p \in 1 .. Len(t), t[p].dir, t[p].inode = t[n].inode PROVE p = n
  <2>1. CASE p # 1 /\ n # 1
    <3>1. /\ t[n].impl2 \in Named(d) /\ t[p].impl2 \in Named(d) /\ At(d, t[p].impl2).dir
          /\ At(d, t[p].impl2).cl = At(d, t[n].impl2).cl
      BY <2>1, <1>3, <1>5
    <3>2. t[p].impl2 = t[n].impl2
      BY <3>1, <1>0 DEF Chained
    <3> QED BY <3>2, <2>1, <1>3
  <2>2. \A m \in 1 .. Len(t) : m # 1 => t[m].inode # RootCl
    BY <1>0, <1>3 DEF Chained
  <2> QED BY <2>1, <2>2, <1>2, <1>5
<1> QED BY <1>1, <1>4, <1>5

\* An entry of a node, and what it is in the directory on the volume.
EntryShows(d, t, p, i) ==
  /\ t[p].dir /\ i \in 1 .. Len(Entries(d, t[p].inode))
  /\ t[p].first[i].name = Entries(d, t[p].inode)[i].name
  /\ t[p].first[i].node = 0 => Entries(d, t[p].inode)[i].at = {}
  /\ t[p].first[i].node # 0 =>
       /\ t[p].first[i].node \in 1 .. Len(t) /\ t[p].first[i].node # 1
       /\ Entries(d, t[p].inode)[i].at = {t[t[p].first[i].node].impl2}
       /\ t[t[p].first[i].node].name = t[p].first[i].name

\* Every entry of a node shows what is on the volume.
LEMMA ListedAt ==
  ASSUME NEW d, Formed(d), NEW t, TreeOK(d, t), NEW p \in 1 .. Len(t), NEW i \in 1 .. Len(t[p].first)
  PROVE  EntryShows(d, t, p, i)
<1>0. Typed(d)
  BY DEF Formed
<1> DEFINE f == t[p].first
           es == Entries(d, t[p].inode)
<1>1. /\ f \in Seq(Dirent) /\ Len(f) \in Nat /\ DOMAIN f = 1 .. Len(f) /\ Listed(d, t, p) /\ Len(t) \in Nat
  BY <1>0, TreeParts
<1>2. i \in DOMAIN f /\ f # << >>
  BY <1>1
<1>3. t[p].dir /\ Len(f) <= Len(es)
  BY <1>1, <1>2 DEF Listed
<1>3a. /\ f[i].name = es[i].name /\ f[i].node \in {NULL} \cup 2 .. Len(t)
       /\ f[i].node = NULL => es[i].at = {}
       /\ f[i].node # NULL => es[i].at = { t[f[i].node].impl2 } /\ t[f[i].node].name = f[i].name
  BY <1>1, <1>2 DEF Listed
<1>4. es \in Seq(Dirents) /\ Len(es) \in Nat
  BY <1>0, <1>3, TreeDir, EntriesSeq
<1> HIDE DEF f, es
<1>5. i \in 1 .. Len(es)
  BY <1>1, <1>2, <1>3, <1>4
<1>6. \A m \in 2 .. Len(t) : m \in 1 .. Len(t) /\ m # 1
  BY <1>1
<1> QED BY <1>3, <1>3a, <1>5, <1>6 DEF f, es, NULL, EntryShows

\* The place of an entry.
LEMMA PlaceOf ==
  ASSUME NEW d, Formed(d), NEW c \in 0 .. MaxCl, NEW i \in 1 .. Len(Entries(d, c)), NEW pl,
         Entries(d, c)[i].at = {pl}
  PROVE  PlaceAlong(d, c, pl)
<1>1. Typed(d) /\ Blanks(d) /\ Followed(d)
  BY DEF Formed
<1>2. PlaceOfEntry(d, c, Entries(d, c)[i])
  BY <1>1, EntryPlace
<1> QED BY <1>2 DEF PlaceOfEntry

\* No node there is of a place of a directory that was not read.
LEMMA NotRead ==
  ASSUME NEW d, Formed(d), NEW t, TreeOK(d, t), NEW n \in 1 .. Len(t), t[n].dir, t[n].first = << >>,
         NEW m \in 1 .. Len(t), m # 1, NEW j \in 1 .. Len(Places(d, t[n].inode))
  PROVE  t[m].impl2 # Places(d, t[n].inode)[j]
<1>0. Typed(d) /\ Chained(d) /\ Blanks(d) /\ Followed(d)
  BY DEF Formed
<1>1. PICK p \in 1 .. Len(t) : \E i \in 1 .. Len(t[p].first) : t[p].first[i].node = m
  <2>1. Typed(d) /\ TreeOK(d, t) /\ m \in 1 .. Len(t) /\ m # 1
    BY <1>0
  <2>2. \A k \in 1 .. Len(t) : k # 1 => \E p \in 1 .. Len(t) : \E i \in 1 .. Len(t[p].first) : t[p].first[i].node = k
    BY <2>1, TreeParts
  <2> QED BY <2>1, <2>2
<1>2. PICK i \in 1 .. Len(t[p].first) : t[p].first[i].node = m
  BY <1>1
<1>3. p # n
  BY <1>2
<1>4. /\ t[p].dir /\ i \in 1 .. Len(Entries(d, t[p].inode)) /\ Len(t) \in Nat
      /\ m # 0 /\ Entries(d, t[p].inode)[i].at = {t[m].impl2}
  <2>1. Len(t) \in Nat
    BY <1>0, TreeParts
  <2>2. m # 0
    BY <2>1
  <2>3. /\ t[p].dir /\ i \in 1 .. Len(Entries(d, t[p].inode))
        /\ t[p].first[i].node # 0 => Entries(d, t[p].inode)[i].at = {t[t[p].first[i].node].impl2}
    <3>1. EntryShows(d, t, p, i)
      BY ListedAt
    <3> QED BY <3>1 DEF EntryShows
  <2> QED BY <2>1, <2>2, <2>3, <1>2
<1> DEFINE b == t[p].inode
           c == t[n].inode
           s == ChainFrom(d, b)
           u == ChainFrom(d, c)
<1>4a. i \in 1 .. Len(Entries(d, b)) /\ Entries(d, b)[i].at = {t[m].impl2}
  BY <1>4
<1>5. b \in Heads(d) /\ b \in 0 .. MaxCl /\ c \in Heads(d) /\ c \in 0 .. MaxCl /\ (b = c => p = n)
  BY <1>4, TreeDir
<1> HIDE DEF b, c
<1> DEFINE pl == t[m].impl2
<1>6. PlaceAlong(d, b, pl)
  <2> HIDE DEF pl
  <2>1. Entries(d, b)[i].at = {pl}
    BY <1>4a DEF pl
  <2> QED BY <2>1, <1>4a, <1>5, PlaceOf
<1>7. pl \in Named(d) /\ \E q \in 1 .. Len(s) : pl[1] = s[q]
  BY <1>6 DEF PlaceAlong
<1>7a. PICK q \in 1 .. Len(s) : pl[1] = s[q]
  BY <1>7
<1>8. pl[1] \in Clusters
  <2>1. pl \in Clusters \X (1 .. NSlots - 1)
    BY <1>0, <1>7, NamedAt
  <2> HIDE DEF pl
  <2> QED BY <2>1
<1>9. LaidOut(Places(d, c), u)
  BY <1>0, <1>5, PlacesAre
<1>10. PICK q2 \in 1 .. Len(u) : Places(d, c)[j][1] = u[q2]
  <2> HIDE DEF u
  <2> DEFINE pls == Places(d, c)
  <2>1. LaidOut(pls, u) /\ j \in 1 .. Len(pls)
    BY <1>9 DEF c
  <2> HIDE DEF pls
  <2>2. \E x \in 1 .. Len(u) : pls[j][1] = u[x]
    BY <2>1, PlaceIn
  <2> QED BY <2>2 DEF pls
<1>11. /\ OneChain(d.fat)
       /\ IsHead(d.fat, b) /\ IsChain(d.fat, b, s) /\ IsHead(d.fat, c) /\ IsChain(d.fat, c, u)
  BY <1>0, <1>5, FormedChains
<1> SUFFICES ASSUME pl = Places(d, c)[j] PROVE FALSE
  BY DEF c
<1>12. s[q] = u[q2] /\ s[q] \in Clusters
  BY <1>7a, <1>8, <1>10
<1> HIDE DEF s, u
<1>13. b = c
  BY <1>11, <1>12, ChainsApart DEF OneChain
<1> QED BY <1>3, <1>5, <1>13

-----------------------------------------------------------------------------
\* The nodes of what was read have no entries yet.
Fresh(t, U) == \A x \in Len(t) + 1 .. Len(U) : U[x].first = << >> /\ ~ U[x].impl

\* All that is known of a directory after it was read.
ReadAll(d, t, n, U) ==
  /\ U \in Seq(Node) /\ Kept(t, n, U)
  /\ Shown(U, Len(t), U[n].first, Entries(d, t[n].inode), FALSE)
  /\ Made(d, Places(d, t[n].inode), Len(Places(d, t[n].inode)), Len(t), U[n].first, U)

\* What _read_dir32 has made of a directory's node when it ends.
LEMMA ReadEnds ==
  ASSUME NEW d, Formed(d), NEW t, TreeOK(d, t), NEW n \in 1 .. Len(t), t[n].dir, t[n].first = << >>
  PROVE  ReadAll(d, t, n, _read_dir32(d, t, n, t[n].inode))
<1>0. Typed(d) /\ Blanks(d) /\ Followed(d)
  BY DEF Formed
<1> DEFINE c == t[n].inode
           pls == Places(d, c)
           s == ChainFrom(d, c)
<1>1. c \in Heads(d) /\ c \in 0 .. MaxCl
  BY TreeDir
<1>2. t \in Seq(Node)
  BY DEF TreeOK
<1> HIDE DEF c
<1>3. LaidOut(pls, s)
  BY <1>0, <1>1, PlacesAre
<1>4. PICK up : Listing(d, pls, up) /\ Entries(d, c) = up[Len(pls)]
  BY <1>0, <1>1, EntrySteps
<1>5. \A i, j \in 1 .. Len(pls) : pls[i] = pls[j] => i = j
  BY <1>1, Distinct
<1> HIDE DEF pls, s
<1>6. Readable(d, t, n, pls, up)
  BY <1>0, <1>2, <1>3, <1>4, <1>5 DEF Readable
<1>7. PICK r : ReadTo(d, t, n, pls, up, Len(pls), r) /\ _read_dir32(d, t, n, c) = r.tree
  BY <1>6, ReadSteps DEF pls
<1>8. ~ r.fld
  <2> SUFFICES ASSUME r.fld PROVE FALSE
    OBVIOUS
  <2>1. Len(pls) > 0 /\ At(d, pls[Len(pls)]).t = "long"
    BY <1>7 DEF ReadTo, Awaits
  <2>2. Len(pls) \in Nat
    BY <1>3 DEF LaidOut
  <2>3. Len(pls) \in 1 .. Len(pls)
    BY <2>1, <2>2
  <2>4. Len(pls) + 1 \in 1 .. Len(pls)
    BY <2>1, <2>3, <1>0, <1>3, LongAt
  <2> QED BY <2>2, <2>4
<1> DEFINE U == r.tree
<1>9. /\ U \in Seq(Node) /\ Kept(t, n, U)
      /\ Shown(U, Len(t), U[n].first, up[Len(pls)], r.fld)
      /\ Made(d, pls, Len(pls), Len(t), U[n].first, U)
  BY <1>7 DEF ReadTo
<1>10. Shown(U, Len(t), U[n].first, Entries(d, c), FALSE)
  BY <1>4, <1>8, <1>9 DEF Shown
<1>11. ReadAll(d, t, n, U)
  <2> HIDE DEF U
  <2> QED BY <1>9, <1>10 DEF ReadAll, pls, c
<1> QED BY <1>7, <1>11 DEF c

\* It is as it should be, and has what the directory has.
LEMMA ReadKeeps ==
  ASSUME NEW d, Formed(d), NEW t, TreeOK(d, t), NEW n \in 1 .. Len(t), t[n].dir, t[n].first = << >>,
         NEW U, ReadAll(d, t, n, U)
  PROVE  /\ TreeOK(d, U) /\ Kept(t, n, U) /\ Fresh(t, U)
         /\ Len(U[n].first) = Len(Entries(d, t[n].inode))
<1>0. Typed(d)
  BY DEF Formed
<1> DEFINE lo == Len(t)
           f == U[n].first
           es == Entries(d, t[n].inode)
           pls == Places(d, t[n].inode)
<1>1. /\ U \in Seq(Node) /\ Kept(t, n, U) /\ Shown(U, lo, f, es, FALSE)
      /\ Made(d, pls, Len(pls), lo, f, U)
  BY DEF ReadAll
<1>2. lo \in Nat /\ Len(U) \in Nat /\ lo <= Len(U) /\ 1 \in 1 .. lo /\ n \in 1 .. lo /\ DOMAIN U = 1 .. Len(U)
  <2>1. Len(t) \in Nat /\ 1 \in 1 .. Len(t)
    BY <1>0, TreeParts
  <2>2. Len(U) \in Nat /\ DOMAIN U = 1 .. Len(U)
    BY <1>1
  <2>3. Len(t) <= Len(U)
    BY <1>1 DEF Kept
  <2> QED BY <2>1, <2>2, <2>3
<1>3. \A m \in 1 .. lo : Same(U[m], t[m]) /\ (m # n => U[m] = t[m])
  BY <1>1 DEF Kept, Same
<1>3a. \A m \in 1 .. lo : /\ U[m].name = t[m].name /\ U[m].dir = t[m].dir /\ U[m].inode = t[m].inode
                          /\ U[m].len = t[m].len /\ U[m].impl2 = t[m].impl2
  BY <1>3 DEF Same
<1>4. \A x \in lo + 1 .. Len(U) :
        /\ MadeNode(d, pls, Len(pls), f, U, x)
        /\ \A y \in lo + 1 .. Len(U) : U[x].impl2 = U[y].impl2 => x = y
  BY <1>1 DEF Made
<1>5. \A x \in 1 .. Len(U) : x \in 1 .. lo \/ x \in lo + 1 .. Len(U)
  BY <1>2
<1>6. ASSUME NEW x \in lo + 1 .. Len(U)
      PROVE  /\ U[x].first = << >> /\ ~ U[x].impl /\ U[x].impl2 \in Named(d)
             /\ At(d, U[x].impl2) = Short(U[x].dir, U[x].inode, U[x].len)
             /\ \E i \in 1 .. Len(f) : f[i].node = x
             /\ \A m \in 1 .. lo : m # 1 => U[x].impl2 # t[m].impl2
  <2>1. MadeNode(d, pls, Len(pls), f, U, x)
    BY <1>4
  <2>2. PICK j \in 1 .. Len(pls) : U[x].impl2 = pls[j]
    BY <2>1 DEF MadeNode
  <2>3. \A m \in 1 .. lo : m # 1 => t[m].impl2 # pls[j]
    BY NotRead
  <2> QED BY <2>1, <2>2, <2>3 DEF MadeNode
<1>7. /\ f \in Seq(Dirent) /\ Len(f) \in Nat /\ DOMAIN f = 1 .. Len(f)
  <2>1. U[n] \in Node
    BY <1>1, <1>2, ElemIn
  <2>2. f \in Seq(Dirent)
    BY <2>1 DEF Node
  <2> QED BY <2>2
<1>8. \A m \in 1 .. lo : m # 1 =>
        /\ t[m].impl2 \in Named(d) /\ At(d, t[m].impl2) = Short(t[m].dir, t[m].inode, t[m].len)
        /\ \A k \in 1 .. lo : k # 1 /\ t[m].impl2 = t[k].impl2 => m = k
        /\ \E p \in 1 .. lo : \E i \in 1 .. Len(t[p].first) : t[p].first[i].node = m
  BY <1>0, TreeParts
<1>9. Len(f) = Len(es)
  BY <1>1 DEF Shown
<1>10. ASSUME NEW x \in 1 .. Len(U), x # 1
       PROVE  /\ U[x].impl2 \in Named(d) /\ At(d, U[x].impl2) = Short(U[x].dir, U[x].inode, U[x].len)
              /\ \A y \in 1 .. Len(U) : y # 1 /\ U[x].impl2 = U[y].impl2 => x = y
              /\ \E p \in 1 .. Len(U) : \E i \in 1 .. Len(U[p].first) : U[p].first[i].node = x
  <2> HIDE DEF lo, f, es, pls
  <2>1. CASE x \in 1 .. lo
    <3>1. U[x].impl2 \in Named(d) /\ At(d, U[x].impl2) = Short(U[x].dir, U[x].inode, U[x].len)
      BY <2>1, <1>3a, <1>8, <1>10
    <3>2. ASSUME NEW y \in 1 .. Len(U), y # 1, U[x].impl2 = U[y].impl2 PROVE x = y
      BY <2>1, <3>2, <1>3a, <1>5, <1>6, <1>8, <1>10
    <3>3. PICK p \in 1 .. lo : \E i \in 1 .. Len(t[p].first) : t[p].first[i].node = x
      BY <2>1, <1>8, <1>10
    <3>4. p # n /\ p \in 1 .. Len(U)
      BY <3>3, <1>2
    <3>5. \E i \in 1 .. Len(U[p].first) : U[p].first[i].node = x
      BY <3>3, <3>4, <1>3
    <3> QED BY <3>1, <3>2, <3>4, <3>5
  <2>2. CASE x \in lo + 1 .. Len(U)
    <3>1. ASSUME NEW y \in 1 .. Len(U), y # 1, U[x].impl2 = U[y].impl2 PROVE x = y
      BY <2>2, <3>1, <1>3a, <1>4, <1>5, <1>6
    <3>2. \E i \in 1 .. Len(f) : f[i].node = x
      BY <2>2, <1>6
    <3>3. n \in 1 .. Len(U)
      BY <1>2
    <3> QED BY <2>2, <3>1, <3>2, <3>3, <1>6 DEF f
  <2> QED BY <2>1, <2>2, <1>5
<1>11. Placed(d, U)
  <2>1. U[1].dir /\ U[1].inode = RootCl /\ U[1].len = 0
    <3>1. t[1].dir /\ t[1].inode = RootCl /\ t[1].len = 0
      BY DEF TreeOK, Placed
    <3> QED BY <3>1, <1>2, <1>3a
  <2>2. \A x \in 2 .. Len(U) : x \in 1 .. Len(U) /\ x # 1
    BY <1>2
  <2>3. \A p \in 1 .. Len(U) : DOMAIN U[p].first = 1 .. Len(U[p].first)
    <3> TAKE p \in 1 .. Len(U)
    <3>1. U[p] \in Node
      BY <1>1, ElemIn
    <3>2. U[p].first \in Seq(Dirent)
      BY <3>1 DEF Node
    <3> QED BY <3>2
  <2>4. ASSUME NEW x \in 2 .. Len(U)
        PROVE  /\ U[x].impl2 \in Named(d) /\ At(d, U[x].impl2) = Short(U[x].dir, U[x].inode, U[x].len)
               /\ \A m \in 2 .. Len(U) : U[x].impl2 = U[m].impl2 => x = m
               /\ \E p \in DOMAIN U : \E i \in DOMAIN U[p].first : U[p].first[i].node = x
    <3>1. x \in 1 .. Len(U) /\ x # 1
      BY <2>2
    <3>2. PICK p \in 1 .. Len(U) : \E i \in 1 .. Len(U[p].first) : U[p].first[i].node = x
      BY <3>1, <1>10
    <3>3. p \in DOMAIN U /\ \E i \in DOMAIN U[p].first : U[p].first[i].node = x
      BY <3>2, <2>3, <1>2
    <3>4. U[x].impl2 \in Named(d) /\ At(d, U[x].impl2) = Short(U[x].dir, U[x].inode, U[x].len)
      BY <3>1, <1>10
    <3>5. \A m \in 2 .. Len(U) : U[x].impl2 = U[m].impl2 => x = m
      BY <3>1, <2>2, <1>10
    <3> QED BY <3>3, <3>4, <3>5
  <2> QED BY <2>1, <2>4 DEF Placed
<1>12. ASSUME NEW m \in 1 .. Len(U) PROVE Listed(d, U, m)
  <2>1. CASE m \in 1 .. lo /\ m # n
    <3> DEFINE g == t[m].first
               gs == Entries(d, t[m].inode)
    <3>1. U[m] = t[m]
      BY <2>1, <1>3
    <3>2. Listed(d, t, m) /\ DOMAIN g = 1 .. Len(g)
      BY <2>1, <1>0, TreeParts
    <3>3. \A x \in 2 .. lo : x \in 1 .. lo /\ x \in 2 .. Len(U) /\ x # NULL
      BY <1>2 DEF NULL
    <3>4. g # << >> =>
            /\ t[m].dir /\ Len(g) <= Len(gs)
            /\ \A i \in DOMAIN g :
                 /\ g[i].name = gs[i].name /\ g[i].node \in {NULL} \cup 2 .. lo
                 /\ g[i].node = NULL => gs[i].at = {}
                 /\ g[i].node # NULL => gs[i].at = { t[g[i].node].impl2 } /\ t[g[i].node].name = g[i].name
      BY <3>2 DEF Listed
    <3> HIDE DEF g, gs, lo
    <3>5. g # << >> =>
            /\ t[m].dir /\ Len(g) <= Len(gs)
            /\ \A i \in DOMAIN g :
                 /\ g[i].name = gs[i].name /\ g[i].node \in {NULL} \cup 2 .. Len(U)
                 /\ g[i].node = NULL => gs[i].at = {}
                 /\ g[i].node # NULL => gs[i].at = { U[g[i].node].impl2 } /\ U[g[i].node].name = g[i].name
      <4>1. ASSUME g # << >>, NEW i \in DOMAIN g
            PROVE  /\ g[i].name = gs[i].name /\ g[i].node \in {NULL} \cup 2 .. Len(U)
                   /\ g[i].node = NULL => gs[i].at = {}
                   /\ g[i].node # NULL => gs[i].at = { U[g[i].node].impl2 } /\ U[g[i].node].name = g[i].name
        <5>1. CASE g[i].node = NULL
          BY <4>1, <5>1, <3>4
        <5>2. CASE g[i].node # NULL
          <6>1. g[i].node \in 2 .. lo
            BY <4>1, <5>2, <3>4
          <6>2. U[g[i].node].impl2 = t[g[i].node].impl2 /\ U[g[i].node].name = t[g[i].node].name
            BY <6>1, <3>3, <1>3a
          <6> QED BY <4>1, <5>2, <6>1, <6>2, <3>3, <3>4
        <5> QED BY <5>1, <5>2
      <4> QED BY <3>4, <4>1
    <3> QED BY <3>1, <3>5 DEF Listed, g, gs
  <2>2. CASE m = n
    <3>1. \A x \in lo + 1 .. Len(U) : x \in 2 .. Len(U)
      BY <1>2
    <3>2. U[n].dir /\ U[n].inode = t[n].inode
      BY <1>2, <1>3a
    <3>3. ASSUME NEW i \in 1 .. Len(f)
          PROVE  /\ f[i].name = es[i].name /\ f[i].node \in {NULL} \cup 2 .. Len(U)
                 /\ f[i].node = NULL => es[i].at = {}
                 /\ f[i].node # NULL => es[i].at = { U[f[i].node].impl2 } /\ U[f[i].node].name = f[i].name
      <4> HIDE DEF f, es, lo
      <4> QED BY <3>1, <1>1 DEF Shown, NULL
    <3>4. Len(f) <= Len(es)
      BY <1>7, <1>9
    <3> HIDE DEF f, es
    <3>5. /\ U[n].dir /\ Len(f) <= Len(es)
          /\ \A i \in DOMAIN f :
               /\ f[i].name = es[i].name /\ f[i].node \in {NULL} \cup 2 .. Len(U)
               /\ f[i].node = NULL => es[i].at = {}
               /\ f[i].node # NULL => es[i].at = { U[f[i].node].impl2 } /\ U[f[i].node].name = f[i].name
      BY <3>2, <3>3, <3>4, <1>7
    <3> QED BY <2>2, <3>2, <3>5 DEF Listed, f, es
  <2>3. CASE m \in lo + 1 .. Len(U)
    BY <2>3, <1>6 DEF Listed
  <2> QED BY <2>1, <2>2, <2>3, <1>5
<1>13. TreeOK(d, U)
  <2>1. U # << >>
    BY <1>2
  <2> QED BY <2>1, <1>1, <1>2, <1>11, <1>12 DEF TreeOK
<1>14. Fresh(t, U)
  BY <1>6 DEF Fresh
<1> QED BY <1>1, <1>9, <1>13, <1>14

-----------------------------------------------------------------------------
\* What was read has at least what an earlier volume w has.
LEMMA ReadReads ==
  ASSUME NEW w, Formed(w), NEW d, Formed(d), Extends(w, d), NEW t, Reads(w, t), t \in Seq(Node),
         NEW n \in 1 .. Len(t), NEW U, U \in Seq(Node), Kept(t, n, U), Fresh(t, U),
         Len(U[n].first) = Len(Entries(d, t[n].inode))
  PROVE  /\ Reads(w, U)
         /\ t[n].inode \in Dirs(w) => Len(Entries(w, t[n].inode)) <= Len(U[n].first)
<1>1. DOMAIN U = 1 .. Len(U) /\ Len(t) \in Nat /\ Len(U) \in Nat /\ DOMAIN t = 1 .. Len(t)
  <2> HIDE DEF Node
  <2> QED OBVIOUS
<1>2. U[n].inode = t[n].inode
  BY DEF Kept, Same
<1>3. t[n].inode \in Dirs(w) => Len(Entries(w, t[n].inode)) <= Len(U[n].first)
  BY DEF Extends
<1>4. ASSUME NEW m \in 1 .. Len(U), U[m].inode \in Dirs(w), U[m].dir, U[m].first # << >> \/ U[m].impl
      PROVE  Len(Entries(w, U[m].inode)) <= Len(U[m].first)
  <2>1. CASE m = n
    BY <2>1, <1>2, <1>3, <1>4
  <2>2. CASE m \in 1 .. Len(t) /\ m # n
    <3>1. U[m] = t[m] /\ m \in DOMAIN t
      BY <2>2, <1>1 DEF Kept
    <3> QED BY <3>1, <1>4 DEF Reads
  <2>3. CASE m \in Len(t) + 1 .. Len(U)
    BY <2>3, <1>4 DEF Fresh
  <2>4. m \in 1 .. Len(t) \/ m \in Len(t) + 1 .. Len(U)
    BY <1>1
  <2> QED BY <2>1, <2>2, <2>3, <2>4
<1>5. Reads(w, U)
  BY <1>1, <1>4 DEF Reads
<1> QED BY <1>3, <1>5

WithImpl(t, n) == [t EXCEPT ![n].impl = TRUE]

\* The tree with one directory marked as read.
LEMMA WithImplIs ==
  ASSUME NEW t, t \in Seq(Node), NEW n \in 1 .. Len(t), NEW U, U = WithImpl(t, n)
  PROVE  /\ U \in Seq(Node) /\ Len(U) = Len(t) /\ U[n].first = t[n].first /\ Same(U[n], t[n])
         /\ U[n].impl
         /\ \A m \in 1 .. Len(t) : m # n => U[m] = t[m]
<1>1. t[n] \in Node
  BY ElemIn
<1> DEFINE z == TRUE
           x == [t[n] EXCEPT !.impl = z]
<1>1a. z \in BOOLEAN /\ z
  OBVIOUS
<1> HIDE DEF z
<1>2. x \in Node /\ x.first = t[n].first /\ x.impl = z
  BY <1>1, <1>1a DEF Node
<1>3. Same(x, t[n])
  BY <1>1 DEF Same, Node
<1>4. U = [t EXCEPT ![n] = x]
  <2>1. U = [t EXCEPT ![n].impl = z]
    BY DEF WithImpl, z
  <2> QED BY <2>1
<1> HIDE DEF x, Node, Same
<1>5. /\ [t EXCEPT ![n] = x] \in Seq(Node) /\ Len([t EXCEPT ![n] = x]) = Len(t)
      /\ [t EXCEPT ![n] = x][n] = x /\ \A m \in 1 .. Len(t) : m # n => [t EXCEPT ![n] = x][m] = t[m]
  BY <1>2
<1> QED BY <1>1a, <1>2, <1>3, <1>4, <1>5

\* A tree with the same entries.
LEMMA SameTree ==
  ASSUME NEW d, NEW t, TreeOK(d, t), NEW U, U \in Seq(Node), Len(U) = Len(t),
         \A m \in 1 .. Len(t) : Same(U[m], t[m]) /\ U[m].first = t[m].first
  PROVE  TreeOK(d, U)
<1>1. t \in Seq(Node) /\ t # << >> /\ Placed(d, t) /\ \A n \in DOMAIN t : Listed(d, t, n)
  BY DEF TreeOK
<1>2. /\ DOMAIN t = 1 .. Len(t) /\ DOMAIN U = 1 .. Len(t) /\ U # << >> /\ Len(t) \in Nat /\ 1 \in 1 .. Len(t)
      /\ \A x \in 2 .. Len(t) : x \in 1 .. Len(t)
  <2> HIDE DEF Node
  <2> QED BY <1>1
<1>3. \A m \in 1 .. Len(t) : /\ U[m].name = t[m].name /\ U[m].dir = t[m].dir /\ U[m].inode = t[m].inode
                             /\ U[m].len = t[m].len /\ U[m].impl2 = t[m].impl2 /\ U[m].first = t[m].first
  BY DEF Same
<1>4. Placed(d, U)
  <2>1. U[1].dir /\ U[1].inode = RootCl /\ U[1].len = 0
    BY <1>1, <1>2, <1>3 DEF Placed
  <2>2. ASSUME NEW n \in 2 .. Len(U)
        PROVE  /\ U[n].impl2 \in Named(d) /\ At(d, U[n].impl2) = Short(U[n].dir, U[n].inode, U[n].len)
               /\ \A m \in 2 .. Len(U) : U[n].impl2 = U[m].impl2 => n = m
               /\ \E p \in DOMAIN U : \E i \in DOMAIN U[p].first : U[p].first[i].node = n
    <3>1. /\ t[n].impl2 \in Named(d) /\ At(d, t[n].impl2) = Short(t[n].dir, t[n].inode, t[n].len)
          /\ \A m \in 2 .. Len(t) : t[n].impl2 = t[m].impl2 => n = m
          /\ \E p \in DOMAIN t : \E i \in DOMAIN t[p].first : t[p].first[i].node = n
      BY <1>1 DEF Placed
    <3>2. \A m \in 2 .. Len(U) : U[n].impl2 = U[m].impl2 => n = m
      BY <3>1, <1>2, <1>3
    <3>3. \E p \in DOMAIN U : \E i \in DOMAIN U[p].first : U[p].first[i].node = n
      BY <3>1, <1>2, <1>3
    <3>4. U[n].impl2 \in Named(d) /\ At(d, U[n].impl2) = Short(U[n].dir, U[n].inode, U[n].len)
      BY <3>1, <1>2, <1>3
    <3> QED BY <3>2, <3>3, <3>4
  <2> QED BY <2>1, <2>2 DEF Placed
<1>5. ASSUME NEW m \in 1 .. Len(t) PROVE Listed(d, U, m)
  <2> DEFINE g == t[m].first
             gs == Entries(d, t[m].inode)
  <2>1. U[m].first = g /\ U[m].inode = t[m].inode /\ U[m].dir = t[m].dir
    BY <1>3
  <2>2. g # << >> =>
          /\ t[m].dir /\ Len(g) <= Len(gs)
          /\ \A i \in DOMAIN g :
               /\ g[i].name = gs[i].name /\ g[i].node \in {NULL} \cup 2 .. Len(t)
               /\ g[i].node = NULL => gs[i].at = {}
               /\ g[i].node # NULL => gs[i].at = { t[g[i].node].impl2 } /\ t[g[i].node].name = g[i].name
    BY <1>1, <1>2 DEF Listed
  <2> HIDE DEF g, gs
  <2>3. ASSUME g # << >>, NEW i \in DOMAIN g
        PROVE  /\ g[i].name = gs[i].name /\ g[i].node \in {NULL} \cup 2 .. Len(U)
               /\ g[i].node = NULL => gs[i].at = {}
               /\ g[i].node # NULL => gs[i].at = { U[g[i].node].impl2 } /\ U[g[i].node].name = g[i].name
    <3>1. /\ g[i].name = gs[i].name /\ g[i].node \in {NULL} \cup 2 .. Len(U)
          /\ g[i].node = NULL => gs[i].at = {}
          /\ g[i].node # NULL => gs[i].at = { t[g[i].node].impl2 } /\ t[g[i].node].name = g[i].name
      BY <2>2, <2>3
    <3>2. g[i].node # NULL => g[i].node \in 1 .. Len(t)
      BY <3>1, <1>2
    <3> QED BY <3>1, <3>2, <1>3
  <2>4. g # << >> =>
          /\ t[m].dir /\ Len(g) <= Len(gs)
          /\ \A i \in DOMAIN g :
               /\ g[i].name = gs[i].name /\ g[i].node \in {NULL} \cup 2 .. Len(U)
               /\ g[i].node = NULL => gs[i].at = {}
               /\ g[i].node # NULL => gs[i].at = { U[g[i].node].impl2 } /\ U[g[i].node].name = g[i].name
    BY <2>2, <2>3
  <2> QED BY <2>1, <2>4 DEF Listed, g, gs
<1> QED BY <1>2, <1>4, <1>5 DEF TreeOK

\* A directory that is looked at: every node there was stays of what it is.
Looked(t, n, F) ==
  /\ Len(t) <= Len(F) /\ \A m \in 1 .. Len(t) : Same(F[m], t[m])
  /\ F[n].first # << >> \/ F[n].impl

\* fs_filldir, or nothing, keeps a tree as it should be.
LEMMA FilledKeeps ==
  ASSUME NEW w, Formed(w), NEW d, Formed(d), Extends(w, d), NEW t, TreeOK(d, t), Reads(w, t),
         NEW n \in 1 .. Len(t), t[n].dir
  PROVE  /\ TreeOK(d, Filled(d, t, n)) /\ Reads(w, Filled(d, t, n))
         /\ Looked(t, n, Filled(d, t, n))
<1>1. t \in Seq(Node)
  BY DEF TreeOK
<1>2. CASE t[n].first # << >> \/ t[n].impl
  <2>1. Filled(d, t, n) = t
    BY <1>2 DEF Filled
  <2>2. Len(t) \in Nat
    BY <1>1
  <2>3. Looked(t, n, t)
    BY <1>2, <2>2 DEF Looked, Same
  <2> QED BY <2>1, <2>3
<1>3. CASE t[n].first = << >> /\ ~ t[n].impl
  <2> DEFINE U == _read_dir32(d, t, n, t[n].inode)
             F == WithImpl(U, n)
  <2>1. Filled(d, t, n) = F
    BY <1>3 DEF Filled, fs_filldir, WithImpl
  <2>2. ReadAll(d, t, n, U)
    BY <1>3, ReadEnds
  <2> HIDE DEF U
  <2>3. /\ TreeOK(d, U) /\ Kept(t, n, U) /\ Fresh(t, U)
        /\ Len(U[n].first) = Len(Entries(d, t[n].inode)) /\ U \in Seq(Node)
    <3>1. t[n].first = << >>
      BY <1>3
    <3>2. /\ TreeOK(d, U) /\ Kept(t, n, U) /\ Fresh(t, U)
          /\ Len(U[n].first) = Len(Entries(d, t[n].inode))
      BY <3>1, <2>2, ReadKeeps
    <3> QED BY <3>2 DEF TreeOK
  <2>4. /\ Reads(w, U)
        /\ t[n].inode \in Dirs(w) => Len(Entries(w, t[n].inode)) <= Len(U[n].first)
    BY <1>1, <2>3, ReadReads
  <2>5. Len(t) \in Nat /\ Len(U) \in Nat /\ n \in 1 .. Len(U) /\ Len(t) <= Len(U)
        /\ (\A m \in 1 .. Len(t) : m \in 1 .. Len(U)) /\ DOMAIN U = 1 .. Len(U)
    <3>1. Len(t) \in Nat /\ Len(U) \in Nat /\ DOMAIN U = 1 .. Len(U)
      BY <1>1, <2>3
    <3>2. Len(t) <= Len(U)
      BY <2>3 DEF Kept
    <3> QED BY <3>1, <3>2
  <2>7. F = WithImpl(U, n)
    OBVIOUS
  <2> HIDE DEF F
  <2>8. /\ F \in Seq(Node) /\ Len(F) = Len(U) /\ F[n].first = U[n].first /\ Same(F[n], U[n])
        /\ F[n].impl /\ \A m \in 1 .. Len(U) : m # n => F[m] = U[m]
    BY <2>3, <2>5, <2>7, WithImplIs
  <2>9. \A m \in 1 .. Len(U) : Same(F[m], U[m]) /\ F[m].first = U[m].first
    BY <2>8 DEF Same
  <2>10. TreeOK(d, F)
    BY <2>3, <2>8, <2>9, SameTree
  <2>11. Looked(t, n, F)
    <3>1. \A m \in 1 .. Len(t) : Same(U[m], t[m])
      BY <2>3 DEF Kept, Same
    <3>2. \A m \in 1 .. Len(t) : Same(F[m], t[m])
      BY <2>5, <2>9, <3>1 DEF Same
    <3>3. F[n].impl
      BY <2>8
    <3> QED BY <2>5, <2>8, <3>2, <3>3 DEF Looked
  <2>12. Reads(w, F)
    <3>1. DOMAIN F = 1 .. Len(U)
      BY <2>8
    <3>2. U[n].inode = t[n].inode /\ F[n].inode = t[n].inode
      BY <2>3, <2>8 DEF Kept, Same
    <3>3. ASSUME NEW m \in 1 .. Len(U), F[m].inode \in Dirs(w), F[m].dir, F[m].first # << >> \/ F[m].impl
          PROVE  Len(Entries(w, F[m].inode)) <= Len(F[m].first)
      <4>1. CASE m = n
        BY <4>1, <3>2, <3>3, <2>4, <2>8
      <4>2. CASE m # n
        <5>1. F[m] = U[m] /\ m \in DOMAIN U
          BY <4>2, <2>5, <2>8
        <5> QED BY <5>1, <3>3, <2>4 DEF Reads
      <4> QED BY <4>1, <4>2
    <3> QED BY <3>1, <3>3 DEF Reads
  <2> QED BY <2>1, <2>10, <2>11, <2>12
<1> QED BY <1>2, <1>3

\* A mount.
LEMMA MountKeeps ==
  ASSUME NEW d, Formed(d)
  PROVE  TreeOK(d, Mount(d)) /\ Reads(d, Mount(d))
<1> DEFINE x == fs_alloc("/", TRUE, RootCl, 0, << 0, 0 >>)
           t == << x >>
           U == _read_dir32(d, t, 1, RootCl)
<1>1. /\ x \in Node /\ x.dir /\ x.inode = RootCl /\ x.len = 0 /\ x.first = << >> /\ ~ x.impl
  <2> DEFINE e == << >>
             o == << 0, 0 >>
             y == [name |-> "/", dir |-> TRUE, inode |-> RootCl, len |-> 0, impl |-> FALSE,
                   first |-> e, impl2 |-> o]
  <2>1. x = y
    BY DEF fs_alloc
  <2>2. e \in Seq(Dirent) /\ o \in Nat \X Nat /\ RootCl \in {0} \cup Clusters /\ e = << >>
    BY Sizes
  <2>3. y \in Node /\ y.dir /\ y.inode = RootCl /\ y.len = 0 /\ y.first = e /\ ~ y.impl
    <3> DEFINE a == TRUE
               b == FALSE
               nm == "/"
               v == [name |-> nm, dir |-> a, inode |-> RootCl, len |-> 0, impl |-> b, first |-> e, impl2 |-> o]
    <3>1. a \in BOOLEAN /\ b \in BOOLEAN /\ a /\ ~ b
      OBVIOUS
    <3>1b. nm \in {"/"}
      OBVIOUS
    <3>1a. v = y
      BY Zenon
    <3> HIDE DEF e, o, a, b, nm
    <3>2. v \in Node
      <4> HIDE DEF Clusters
      <4> QED BY <2>2, <3>1, <3>1b DEF Node
    <3>3. v.dir = a /\ v.inode = RootCl /\ v.len = 0 /\ v.first = e /\ v.impl = b
      OBVIOUS
    <3> HIDE DEF v, y
    <3> QED BY <3>1, <3>1a, <3>2, <3>3
  <2> HIDE DEF x, y
  <2> QED BY <2>1, <2>2, <2>3
<1> HIDE DEF x
<1>2. t \in Seq(Node) /\ Len(t) = 1 /\ t[1] = x /\ t # << >> /\ DOMAIN t = {1} /\ 2 .. Len(t) = {} /\ 1 \in 1 .. Len(t)
  BY <1>1
<1> HIDE DEF t
<1>3. TreeOK(d, t)
  BY <1>1, <1>2 DEF TreeOK, Placed, Listed
<1>4. Reads(d, t)
  BY <1>1, <1>2 DEF Reads
<1>5. t[1].dir /\ t[1].first = << >> /\ t[1].inode = RootCl
  BY <1>1, <1>2
<1>6. Mount(d) = U
  BY DEF Mount, t, x
<1> DEFINE n == 1
<1> HIDE DEF n
<1>7. n \in 1 .. Len(t) /\ t[n].dir /\ t[n].first = << >> /\ t[n].inode = RootCl /\ U = _read_dir32(d, t, n, t[n].inode)
  BY <1>2, <1>5 DEF n
<1>8. ReadAll(d, t, n, U)
  <2> HIDE DEF U
  <2>1. ReadAll(d, t, n, _read_dir32(d, t, n, t[n].inode))
    BY <1>3, <1>7, ReadEnds
  <2> QED BY <2>1, <1>7
<1> HIDE DEF U
<1>9. /\ TreeOK(d, U) /\ Kept(t, n, U) /\ Fresh(t, U)
      /\ Len(U[n].first) = Len(Entries(d, t[n].inode))
  BY <1>3, <1>7, <1>8, ReadKeeps
<1>10. U \in Seq(Node)
  BY <1>9 DEF TreeOK
<1>11. Extends(d, d)
  BY GrowsSelf
<1>12. Reads(d, U)
  BY <1>2, <1>4, <1>7, <1>9, <1>10, <1>11, ReadReads
<1> QED BY <1>6, <1>9, <1>12

-----------------------------------------------------------------------------
\* The steps that ToDisk takes.
Root == Short(TRUE, RootCl, 0)
Fits(es, name) == { i \in DOMAIN es : es[i].name = name }
EntryIn(d, c, name) ==
  UNION { { At(d, pl) : pl \in Entries(d, c)[i].at } :
          i \in { j \in Fits(Entries(d, c), name) : \A k \in Fits(Entries(d, c), name) : j <= k } }
NextDisk(d, s, k, X) ==
  IF s[k] = "/" THEN X ELSE UNION { EntryIn(d, e.cl, s[k]) : e \in { x \in X : x.dir } }

Files(d) == {Root} \cup { At(d, pl) : pl \in Named(d) }
DiskWalk(d, s, D) ==
  /\ D[0] = {Root} /\ \A k \in 1 .. Len(s) : D[k] = NextDisk(d, s, k, D[k - 1])
  /\ \A k \in 0 .. Len(s) : D[k] \subseteq Files(d)

\* What an entry of a directory leads to is a file or directory of the volume.
LEMMA FileIn ==
  ASSUME NEW d, Formed(d), NEW c \in 0 .. MaxCl, NEW name
  PROVE  EntryIn(d, c, name) \subseteq Files(d)
<1>1. Typed(d)
  BY DEF Formed
<1>2. Entries(d, c) \in Seq(Dirents) /\ Len(Entries(d, c)) \in Nat
  BY <1>1, EntriesSeq
<1>3. ASSUME NEW x \in EntryIn(d, c, name) PROVE x \in Files(d)
  <2> DEFINE es == Entries(d, c)
  <2>1. PICK i \in DOMAIN es : \E pl \in es[i].at : x = At(d, pl)
    BY DEF EntryIn, Fits
  <2>2. PICK pl \in es[i].at : x = At(d, pl)
    BY <2>1
  <2>3. i \in 1 .. Len(es)
    BY <1>2
  <2>4. PlaceOfEntry(d, c, es[i])
    <3>1. Blanks(d) /\ Followed(d)
      BY DEF Formed
    <3> QED BY <1>1, <2>3, <3>1, EntryPlace
  <2> HIDE DEF es
  <2>5. pl \in Named(d)
    BY <2>4 DEF PlaceOfEntry
  <2> QED BY <2>2, <2>5 DEF Files
<1> QED BY <1>3

\* Which has a cluster, or none.
LEMMA FileIs ==
  ASSUME NEW d, Formed(d), NEW e \in Files(d)
  PROVE  e.cl \in 0 .. MaxCl
<1>1. CASE e = Root
  BY <1>1, Sizes DEF Root, Short
<1>2. CASE e # Root
  <2>1. PICK pl \in Named(d) : e = At(d, pl)
    BY <1>2 DEF Files
  <2>2. Typed(d)
    BY DEF Formed
  <2>3. At(d, pl).cl \in {0} \cup Clusters
    BY <2>2, NamedAt
  <2> QED BY <2>1, <2>3, Sizes
<1> QED BY <1>1, <1>2

\* A step leads to those only.
LEMMA NextFiles ==
  ASSUME NEW d, Formed(d), NEW s, NEW k, NEW X, X \subseteq Files(d)
  PROVE  NextDisk(d, s, k, X) \subseteq Files(d)
<1>1. ASSUME NEW e \in X PROVE EntryIn(d, e.cl, s[k]) \subseteq Files(d)
  <2>1. e.cl \in 0 .. MaxCl
    BY FileIs
  <2> QED BY <2>1, FileIn
<1> QED BY <1>1 DEF NextDisk

\* ToDisk takes these steps.
LEMMA DiskSteps ==
  ASSUME NEW d, Formed(d), NEW s, Len(s) \in Nat
  PROVE  \E D : /\ DiskWalk(d, s, D)
                /\ ToDisk(d, s) = IF s # << >> /\ s[Len(s)] = "/" THEN {} ELSE D[Len(s)]
<1> DEFINE n == Len(s)
           Is(e) == e = [k \in 0 .. Len(s) |->
                           IF k = 0 THEN { Root }
                           ELSE IF s[k] = "/" THEN e[k - 1]
                           ELSE UNION { EntryIn(d, x.cl, s[k]) : x \in { y \in e[k - 1] : y.dir } }]
           S == SUBSET Files(d)
           T == [k \in 0 .. n |-> S]
           g == [k \in 1 .. n |-> [x \in S |-> NextDisk(d, s, k, x)]]
           a == {Root}
<1>1. ToDisk(d, s) = IF s # << >> /\ s[Len(s)] = "/" THEN {} ELSE (CHOOSE e : Is(e))[Len(s)]
  BY DEF ToDisk, EntryIn, Fits, Root
<1>2. \A k \in 1 .. n : k - 1 \in 0 .. n /\ k \in 0 .. n /\ k # 0
  OBVIOUS
<1>3. a \in S /\ 0 \in 0 .. n
  BY DEF Files
<1>4. \A k, x : x \in S => NextDisk(d, s, k, x) \in S
  BY NextFiles
<1> HIDE DEF n, S
<1>5. n \in Nat
  BY DEF n
<1>6. a \in T[0] /\ \A k \in 1 .. n : \A x \in T[k - 1] : g[k][x] \in T[k]
  BY <1>2, <1>3, <1>4
<1>7. PICK f : Stepped(f, n, T, a, g)
  <2> HIDE DEF T, g, a
  <2> QED BY <1>5, <1>6, Iterated
<1>8. /\ f = [k \in 0 .. n |-> f[k]] /\ f[0] = a
      /\ \A k \in 1 .. n : f[k] = NextDisk(d, s, k, f[k - 1])
  <2>1. \A k \in 0 .. n : f[k] \in S
    BY <1>7 DEF Stepped
  <2>2. \A k \in 1 .. n : f[k] = g[k][f[k - 1]]
    BY <1>7 DEF Stepped
  <2>3. \A k \in 1 .. n : f[k] = NextDisk(d, s, k, f[k - 1])
    BY <1>2, <2>1, <2>2
  <2>4. f = [k \in 0 .. n |-> f[k]] /\ f[0] = a
    BY <1>7 DEF Stepped
  <2> QED BY <2>3, <2>4
<1>9. Is(f)
  <2> DEFINE h == [k \in 0 .. Len(s) |->
                     IF k = 0 THEN { Root }
                     ELSE IF s[k] = "/" THEN f[k - 1]
                     ELSE UNION { EntryIn(d, x.cl, s[k]) : x \in { y \in f[k - 1] : y.dir } }]
  <2>1. \A k \in 0 .. n : f[k] = h[k]
    <3> TAKE k \in 0 .. n
    <3>0. k \in 0 .. Len(s)
      BY DEF n
    <3>1. CASE k = 0
      BY <3>0, <3>1, <1>8
    <3>2. CASE k # 0
      <4>1. k \in 1 .. n
        BY <3>2, <1>5
      <4>2. f[k] = NextDisk(d, s, k, f[k - 1])
        BY <4>1, <1>8
      <4>3. h[k] = NextDisk(d, s, k, f[k - 1])
        BY <3>0, <3>2, Zenon DEF NextDisk
      <4> QED BY <4>2, <4>3
    <3> QED BY <3>1, <3>2
  <2>2. h = [k \in 0 .. n |-> h[k]]
    BY DEF n
  <2>3. f = h
    <3> HIDE DEF h
    <3> QED BY <2>1, <2>2, <1>8
  <2> QED BY <2>3
<1> DEFINE w == CHOOSE e : Is(e)
<1>10. Is(w)
  <2> HIDE DEF Is
  <2> QED BY <1>9, Zenon
<1>11. ToDisk(d, s) = IF s # << >> /\ s[Len(s)] = "/" THEN {} ELSE w[Len(s)]
  BY <1>1
<1> HIDE DEF w
<1>12. w[0] = {Root} /\ \A k \in 1 .. n : w[k] = NextDisk(d, s, k, w[k - 1])
  <2>1. w[0] = {Root}
    BY <1>10, <1>3 DEF n
  <2>2. ASSUME NEW k \in 1 .. n PROVE w[k] = NextDisk(d, s, k, w[k - 1])
    <3>1. k \in 0 .. Len(s) /\ k # 0
      BY <1>2 DEF n
    <3>2. w[k] = IF k = 0 THEN { Root }
                 ELSE IF s[k] = "/" THEN w[k - 1]
                 ELSE UNION { EntryIn(d, x.cl, s[k]) : x \in { y \in w[k - 1] : y.dir } }
      BY <3>1, <1>10, Zenon
    <3> QED BY <3>1, <3>2, Zenon DEF NextDisk
  <2> QED BY <2>1, <2>2
<1>13. \A k \in 0 .. n : w[k] \in S
  <2> DEFINE M == { k \in 0 .. n : w[k] \in S }
  <2>1. 0 \in M
    BY <1>3, <1>12
  <2>2. ASSUME NEW k \in 1 .. n, k - 1 \in M PROVE k \in M
    BY <2>2, <1>2, <1>4, <1>12
  <2>3. 0 .. n \subseteq M
    <3> HIDE DEF M
    <3> QED BY <2>1, <2>2, UpToAll, <1>5
  <2> QED BY <2>3
<1>14. DiskWalk(d, s, w)
  BY <1>12, <1>13 DEF DiskWalk, S, n
<1> QED BY <1>11, <1>14

-----------------------------------------------------------------------------
\* What is found in a directory.
LEMMA MinIs ==
  ASSUME NEW I \in SUBSET Nat, I # {}
  PROVE  Min(I) \in I /\ \A j \in I : Min(I) <= j
<1>1. \E m \in I : \A j \in I : m <= j
  BY Least
<1> QED BY <1>1 DEF Min

\* The first entry of that name, if there is one.
First(es, s, k) ==
  \/ k = 0 /\ \A j \in 1 .. Len(es) : es[j].name # s
  \/ k \in 1 .. Len(es) /\ es[k].name = s /\ \A j \in 1 .. k - 1 : es[j].name # s

\* What SelectInSeq gives.
LEMMA FirstSelected ==
  ASSUME NEW es, Len(es) \in Nat, NEW s, NEW I, I = { i \in 1 .. Len(es) : es[i].name = s },
         NEW k, k = IF I # {} THEN Min(I) ELSE 0
  PROVE  First(es, s, k)
<1>1. CASE I = {}
  BY <1>1 DEF First
<1>2. CASE I # {}
  <2>1. I \in SUBSET Nat
    OBVIOUS
  <2>2. k \in I /\ \A j \in I : k <= j
    BY <1>2, <2>1, MinIs
  <2>3. \A j \in 1 .. k - 1 : j \in 1 .. Len(es) /\ ~ (k <= j)
    BY <2>2
  <2> QED BY <2>2, <2>3 DEF First
<1> QED BY <1>1, <1>2

\* The first entry of the name is what ToDisk takes.
LEMMA EntryInIs ==
  ASSUME NEW d, NEW c, Entries(d, c) \in Seq(Dirents), NEW s, NEW k, First(Entries(d, c), s, k)
  PROVE  /\ k = 0 => EntryIn(d, c, s) = {}
         /\ k # 0 => EntryIn(d, c, s) = { At(d, pl) : pl \in Entries(d, c)[k].at }
<1> DEFINE es == Entries(d, c)
           I == Fits(es, s)
           J == { j \in I : \A i \in I : j <= i }
<1>1. EntryIn(d, c, s) = UNION { { At(d, pl) : pl \in es[i].at } : i \in J }
  BY DEF EntryIn
<1>2. DOMAIN es = 1 .. Len(es) /\ Len(es) \in Nat
  OBVIOUS
<1>3. CASE k = 0
  <2>1. I = {}
    BY <1>2, <1>3 DEF Fits, First
  <2> QED BY <1>1, <1>3, <2>1
<1>4. CASE k # 0
  <2>1. k \in 1 .. Len(es) /\ es[k].name = s /\ \A j \in 1 .. k - 1 : es[j].name # s
    BY <1>4 DEF First
  <2> HIDE DEF es
  <2>2. k \in I /\ I \subseteq 1 .. Len(es) /\ \A i \in I : es[i].name = s
    BY <1>2, <2>1 DEF Fits
  <2> HIDE DEF I
  <2>3. \A i \in I : k <= i
    BY <1>2, <2>1, <2>2
  <2>4. J = {k}
    <3>1. k \in J
      BY <2>2, <2>3
    <3>2. ASSUME NEW j \in J PROVE j = k
      <4>1. j \in I /\ j <= k /\ k <= j
        BY <2>2, <2>3
      <4>2. j \in Nat /\ k \in Nat
        BY <4>1, <1>2, <2>2
      <4> QED BY <4>1, <4>2
    <3> HIDE DEF J
    <3> QED BY <3>1, <3>2
  <2> HIDE DEF J
  <2>5. EntryIn(d, c, s) = { At(d, pl) : pl \in es[k].at }
    BY <1>1, <2>4
  <2> QED BY <1>4, <2>5 DEF es
<1> QED BY <1>3, <1>4

\* What volume w has there leads to node m.
LedTo(w, T, m, X) ==
  \/ X = {}
  \/ m = 1 /\ X = {Root}
  \/ m # 0 /\ m # 1 /\ T[m].impl2 \in Named(w) /\ X = {At(w, T[m].impl2)}

FirstNode(F, n, s, k, m) ==
  First(F[n].first, s, k) /\ m = IF k = 0 THEN 0 ELSE F[n].first[k].node

NodeFound(w, d, F, n, s, m) ==
  /\ m \in {0} \cup 1 .. Len(F) /\ m # 1
  /\ s \notin Names => m = 0
  /\ m # 0 => EntryIn(d, F[n].inode, s) = {At(d, F[m].impl2)}
  /\ F[n].inode \in Dirs(w) => LedTo(w, F, m, EntryIn(w, F[n].inode, s))

\* The node of the first entry with the name, in a directory that was read: it is
\* of what the volume has now, and if w has the name, of what w has.
LEMMA FindIs ==
  ASSUME NEW w, Formed(w), NEW d, Formed(d), Extends(w, d), NEW F, TreeOK(d, F), Reads(w, F),
         NEW n \in 1 .. Len(F), F[n].dir, F[n].first # << >> \/ F[n].impl,
         NEW s, NEW k, NEW m, FirstNode(F, n, s, k, m)
  PROVE  NodeFound(w, d, F, n, s, m)
<1> DEFINE f == F[n].first
           c == F[n].inode
           es == Entries(d, c)
           gs == Entries(w, c)
<1>0. Typed(d) /\ Typed(w) /\ Blanks(w) /\ Followed(w)
  BY DEF Formed
<1>1. Len(F) \in Nat /\ f \in Seq(Dirent) /\ Len(f) \in Nat /\ DOMAIN F = 1 .. Len(F)
  BY <1>0, TreeParts
<1>2. c \in 0 .. MaxCl
  BY TreeDir
<1>3. es \in Seq(Dirents) /\ Len(es) \in Nat /\ gs \in Seq(Dirents) /\ Len(gs) \in Nat
  BY <1>0, <1>2, EntriesSeq
<1>4. k \in {0} \cup 1 .. Len(f) /\ First(f, s, k) /\ m = IF k = 0 THEN 0 ELSE f[k].node
  BY DEF First, FirstNode
<1>5. ASSUME NEW i \in 1 .. Len(f) 
      PROVE  /\ i \in 1 .. Len(es) /\ f[i].name = es[i].name
             /\ f[i].node = 0 => es[i].at = {}
             /\ f[i].node # 0 => /\ f[i].node \in 1 .. Len(F) /\ f[i].node # 1
                                 /\ es[i].at = {F[f[i].node].impl2}
  <2>1. EntryShows(d, F, n, i)
    BY ListedAt
  <2> QED BY <2>1 DEF EntryShows
<1>6. m \in {0} \cup 1 .. Len(F) /\ m # 1
  BY <1>4, <1>5, <1>1
<1>7. s \notin Names => m = 0
  <2> SUFFICES ASSUME k # 0 PROVE s \in Names
    BY <1>4
  <2>1. k \in 1 .. Len(f) /\ f[k].name = s
    BY <1>1, <1>4 DEF First
  <2>2. f[k] \in Dirent
    <3> HIDE DEF f
    <3> QED BY <1>1, <2>1, ElemIn
  <2> QED BY <2>1, <2>2 DEF Dirent
<1>8. k # 0 => First(es, s, k)
  <2> SUFFICES ASSUME k # 0 PROVE First(es, s, k)
    OBVIOUS
  <2>1. k \in 1 .. Len(f) /\ f[k].name = s /\ \A j \in 1 .. k - 1 : f[j].name # s
    BY <1>4 DEF First
  <2> HIDE DEF f, es
  <2>2. \A j \in 1 .. k - 1 : j \in 1 .. Len(f)
    BY <1>1, <2>1
  <2> QED BY <2>1, <2>2, <1>5 DEF First
<1>9. m # 0 => EntryIn(d, c, s) = {At(d, F[m].impl2)}
  <2> SUFFICES ASSUME m # 0 PROVE EntryIn(d, c, s) = {At(d, F[m].impl2)}
    OBVIOUS
  <2>1. k # 0 /\ k \in 1 .. Len(f) /\ m = f[k].node
    BY <1>4
  <2>2. es[k].at = {F[m].impl2}
    BY <1>5, <2>1
  <2>3. EntryIn(d, c, s) = { At(d, pl) : pl \in es[k].at }
    <3> HIDE DEF c
    <3> QED BY <1>3, <1>8, <2>1, EntryInIs
  <2> QED BY <2>2, <2>3
<1>10. ASSUME c \in Dirs(w) PROVE LedTo(w, F, m, EntryIn(w, c, s))
  <2>1. Len(gs) <= Len(es) /\ \A i \in DOMAIN gs : es[i] = gs[i]
    BY <1>10 DEF Extends
  <2>2. Len(gs) <= Len(f)
    BY <1>1, <1>10 DEF Reads
  <2> DEFINE I == { i \in 1 .. Len(gs) : gs[i].name = s }
             l == IF I # {} THEN Min(I) ELSE 0
  <2>3. First(gs, s, l)
    <3> HIDE DEF gs
    <3> QED BY <1>3, FirstSelected
  <2> HIDE DEF l
  <2>4. CASE l = 0
    <3>1. EntryIn(w, c, s) = {}
      <4> HIDE DEF c
      <4> QED BY <1>3, <2>3, <2>4, EntryInIs
    <3> QED BY <3>1 DEF LedTo
  <2>5. CASE l # 0
    <3>1. l \in 1 .. Len(gs) /\ gs[l].name = s /\ \A j \in 1 .. l - 1 : gs[j].name # s
      BY <2>3, <2>5 DEF First
    <3>2. \A i \in 1 .. Len(gs) : i \in 1 .. Len(f) /\ f[i].name = gs[i].name /\ es[i] = gs[i]
      <4>1. \A i \in 1 .. Len(gs) : i \in 1 .. Len(f) /\ i \in DOMAIN gs
        BY <1>1, <1>3, <2>2
      <4> QED BY <4>1, <1>5, <2>1
    <3>3. k \in 1 .. Len(f) /\ f[k].name = s /\ \A j \in 1 .. k - 1 : f[j].name # s
      BY <3>1, <3>2, <1>4 DEF First
    <3>4. k = l
      <4> HIDE DEF f, gs, es
      <4>1. ~ (l < k)
        <5> SUFFICES ASSUME l < k PROVE FALSE
          OBVIOUS
        <5>1. l \in 1 .. k - 1
          BY <1>1, <1>3, <3>1, <3>3
        <5> QED BY <5>1, <3>1, <3>2, <3>3
      <4>2. ~ (k < l)
        <5> SUFFICES ASSUME k < l PROVE FALSE
          OBVIOUS
        <5>1. k \in 1 .. l - 1 /\ k \in 1 .. Len(gs)
          BY <1>1, <1>3, <3>1, <3>3
        <5> QED BY <5>1, <3>1, <3>2, <3>3
      <4> QED BY <1>1, <1>3, <3>1, <3>3, <4>1, <4>2
    <3>5. k # 0 /\ m = f[k].node
      BY <2>5, <3>4, <1>4
    <3>6. EntryIn(w, c, s) = { At(w, pl) : pl \in gs[k].at } /\ gs[k].at = es[k].at
      <4>1. EntryIn(w, c, s) = { At(w, pl) : pl \in gs[k].at }
        <5> HIDE DEF c
        <5> QED BY <1>3, <2>3, <2>5, <3>4, EntryInIs
      <4>2. es[k] = gs[k]
        BY <3>1, <3>2, <3>4
      <4> QED BY <4>1, <4>2
    <3>7. CASE m = 0
      <4>1. es[k].at = {}
        BY <1>5, <3>3, <3>5, <3>7
      <4> QED BY <4>1, <3>6 DEF LedTo
    <3>8. CASE m # 0
      <4>1. es[k].at = {F[m].impl2}
        BY <1>5, <3>3, <3>5, <3>8
      <4>2. PlaceOfEntry(w, c, gs[k])
        <5> HIDE DEF c
        <5> QED BY <1>0, <1>2, <3>1, <3>4, EntryPlace
      <4>3. F[m].impl2 \in Named(w)
        <5> HIDE DEF f, c, es, gs
        <5> QED BY <4>1, <4>2, <3>6 DEF PlaceOfEntry
      <4>4. EntryIn(w, c, s) = {At(w, F[m].impl2)}
        BY <4>1, <3>6
      <4> QED BY <1>6, <3>8, <4>3, <4>4 DEF LedTo
    <3> QED BY <3>7, <3>8
  <2> QED BY <2>4, <2>5
<1> QED BY <1>6, <1>7, <1>9, <1>10 DEF NodeFound

-----------------------------------------------------------------------------
FoundIn(w, d, t, n, s, r) ==
  /\ TreeOK(d, r.tree) /\ Reads(w, r.tree)
  /\ r.node \in {0} \cup 1 .. Len(r.tree) /\ r.node # 1
  /\ s \notin Names \/ ~ t[n].dir => r.node = 0
  /\ r.node # 0 => EntryIn(d, t[n].inode, s) = {At(d, r.tree[r.node].impl2)}
  /\ t[n].dir /\ t[n].inode \in Dirs(w) => LedTo(w, r.tree, r.node, EntryIn(w, t[n].inode, s))

\* fs_finddir finds so, after it has read the directory.
LEMMA FindDir ==
  ASSUME NEW w, Formed(w), NEW d, Formed(d), Extends(w, d), NEW t, TreeOK(d, t), Reads(w, t),
         NEW n \in 1 .. Len(t), NEW s
  PROVE  FoundIn(w, d, t, n, s, fs_finddir(d, t, n, s))
<1> DEFINE r == fs_finddir(d, t, n, s)
           F == Filled(d, t, n)
           f == F[n].first
           I == { i \in 1 .. Len(f) : f[i].name = s }
           k == IF I # {} THEN Min(I) ELSE 0
           m == IF k = 0 THEN 0 ELSE f[k].node
<1>1. CASE ~ t[n].dir
  <2>1. r = [tree |-> t, node |-> 0]
    BY <1>1 DEF fs_finddir, NULL
  <2> QED BY <1>1, <2>1 DEF FoundIn
<1>2. CASE t[n].dir
  <2>1. r = [tree |-> F, node |-> m]
    BY <1>2 DEF fs_finddir, NULL, SelectInSeq
  <2>2. TreeOK(d, F) /\ Reads(w, F) /\ Looked(t, n, F)
    BY <1>2, FilledKeeps
  <2> HIDE DEF r, F
  <2>3. Typed(d)
    BY DEF Formed
  <2>4. Len(F) \in Nat /\ Len(t) \in Nat /\ \A p \in 1 .. Len(F) : Len(F[p].first) \in Nat
    <3>1. Len(F) \in Nat /\ \A p \in 1 .. Len(F) : Len(F[p].first) \in Nat
      BY <2>2, <2>3, TreeParts
    <3>2. Len(t) \in Nat
      BY <2>3, TreeParts
    <3> QED BY <3>1, <3>2
  <2>5. /\ n \in 1 .. Len(F) /\ F[n].dir /\ F[n].inode = t[n].inode
        /\ F[n].first # << >> \/ F[n].impl
    BY <1>2, <2>2, <2>4 DEF Looked, Same
  <2>6. Len(f) \in Nat
    BY <2>4, <2>5
  <2>7. First(f, s, k)
    <3> HIDE DEF f
    <3> QED BY <2>6, FirstSelected
  <2> HIDE DEF k
  <2>8. NodeFound(w, d, F, n, s, m)
    <3>1. FirstNode(F, n, s, k, m)
      BY <2>7 DEF FirstNode
    <3>2. TreeOK(d, F) /\ Reads(w, F)
      BY <2>2
    <3> HIDE DEF m
    <3> QED BY <2>5, <3>1, <3>2, FindIs
  <2> HIDE DEF m
  <2>9. r.tree = F /\ r.node = m
    BY <2>1
  <2> QED BY <1>2, <2>2, <2>5, <2>8, <2>9 DEF FoundIn, NodeFound, r
<1> QED BY <1>1, <1>2

\* Along a path.
Slashed(s) == Len(s) \in Nat /\ \A i \in 2 .. Len(s) : s[i - 1] = "/" \/ s[i] = "/"

\* The paths are such.
LEMMA PathSlashed ==
  ASSUME NEW s \in Paths
  PROVE  Slashed(s) /\ (s # << >> <=> Len(s) # 0)
<1> DEFINE A == STRING \ {""}
<1>1. s \in Seq(A) /\ \A i \in 2 .. Len(s) : s[i - 1] = "/" \/ s[i] = "/"
  BY VfsAssumption, Zenon
<1> HIDE DEF A
<1>2. Len(s) \in Nat /\ (s # << >> <=> Len(s) # 0)
  BY <1>1
<1> QED BY <1>1, <1>2 DEF Slashed

\* Skip leads over slashes to what is none, or to the end.
LEMMA SkipIs ==
  ASSUME NEW s, Len(s) \in Nat, NEW p \in 1 .. Len(s)
  PROVE  /\ Skip(s, p) \in p .. Len(s) + 1
         /\ Skip(s, p) <= Len(s) => s[Skip(s, p)] # "/"
         /\ \A i \in p .. Skip(s, p) - 1 : s[i] = "/"
<1> DEFINE S == { q \in p .. Len(s) + 1 : q <= Len(s) => s[q] # "/" }
<1>1. S \in SUBSET Nat /\ S # {}
  <2>1. Len(s) + 1 \in S
    OBVIOUS
  <2> QED BY <2>1
<1>2. PICK m \in S : \A k \in S : m <= k
  <2> HIDE DEF S
  <2> QED BY <1>1, Least
<1>3. ASSUME NEW i \in p .. m - 1 PROVE s[i] = "/"
  <2>1. m \in p .. Len(s) + 1 /\ ~ (m <= i)
    BY <1>2
  <2>2. i \notin S
    <3> HIDE DEF S
    <3> QED BY <1>2, <2>1
  <2> QED BY <2>1, <2>2
<1>4. \E q \in p .. Len(s) + 1 : /\ q <= Len(s) => s[q] # "/"
                                 /\ \A i \in p .. q - 1 : s[i] = "/"
  BY <1>2, <1>3
<1> QED BY <1>4 DEF Skip

\* After a name comes a slash, or the end.
LEMMA NextIs ==
  ASSUME NEW s, Slashed(s), NEW q \in 1 .. Len(s) + 1, q <= Len(s) => s[q] # "/"
  PROVE  NextSlash(s, q) = IF q < Len(s) THEN q + 1 ELSE 0
<1> DEFINE I == { i \in q .. Len(s) : s[i] = "/" }
<1>1. NextSlash(s, q) = IF I # {} THEN Min(I) ELSE 0
  BY DEF NextSlash, SelectInSubSeq
<1>2. Len(s) \in Nat
  BY DEF Slashed
<1>3. CASE q < Len(s)
  <2>1. q + 1 \in 2 .. Len(s) /\ s[q] # "/"
    BY <1>2, <1>3
  <2>2. s[q + 1 - 1] = "/" \/ s[q + 1] = "/"
    BY <2>1 DEF Slashed
  <2>3. s[q + 1] = "/"
    BY <2>1, <2>2, <1>2
  <2>4. q + 1 \in I /\ \A i \in I : q + 1 <= i
    BY <1>2, <1>3, <2>1, <2>3
  <2>5. I \in SUBSET Nat
    OBVIOUS
  <2>6. Min(I) \in I /\ \A j \in I : Min(I) <= j
    <3> HIDE DEF I
    <3> QED BY <2>4, <2>5, MinIs
  <2>7. Min(I) = q + 1
    BY <2>4, <2>5, <2>6
  <2> QED BY <1>1, <1>3, <2>4, <2>7
<1>4. CASE ~ (q < Len(s))
  <2>1. I = {}
    BY <1>2, <1>4
  <2> QED BY <1>1, <1>4, <2>1
<1> QED BY <1>3, <1>4

-----------------------------------------------------------------------------
Slashes(s, p, q) == \A i \in p .. q - 1 : s[i] = "/"

\* Slashes lead nowhere else.
LEMMA Stay ==
  ASSUME NEW d, NEW s, Len(s) \in Nat, NEW D, DiskWalk(d, s, D), NEW p \in 1 .. Len(s),
         NEW q \in p .. Len(s) + 1, Slashes(s, p, q)
  PROVE  D[q - 1] = D[p - 1]
<1> DEFINE n == q - p
           M == { k \in 0 .. n : D[p - 1 + k] = D[p - 1] }
<1>1. n \in Nat /\ p - 1 + n = q - 1 /\ p - 1 + 0 = p - 1
  OBVIOUS
<1>2. 0 \in M
  OBVIOUS
<1>3. ASSUME NEW k \in 1 .. n, k - 1 \in M PROVE k \in M
  <2> DEFINE i == p - 1 + k
  <2>1. i \in 1 .. Len(s) /\ i \in p .. q - 1 /\ i - 1 = p - 1 + (k - 1) /\ k \in 0 .. n
    OBVIOUS
  <2>2. D[i] = D[i - 1]
    BY <2>1 DEF DiskWalk, NextDisk, Slashes
  <2>3. D[i - 1] = D[p - 1]
    BY <2>1, <1>3
  <2> QED BY <2>1, <2>2, <2>3
<1>4. 0 .. n \subseteq M
  <2> HIDE DEF M
  <2>1. \A k \in 1 .. n : k - 1 \in M => k \in M
    BY <1>3
  <2> HIDE DEF n
  <2> QED BY <1>1, <1>2, <2>1, UpToAll
<1>5. n \in M
  <2> HIDE DEF M
  <2> QED BY <1>1, <1>4
<1> QED BY <1>1, <1>5

\* Nothing is found beyond nothing.
LEMMA EmptyOn ==
  ASSUME NEW d, NEW s, Len(s) \in Nat, NEW D, DiskWalk(d, s, D), NEW j \in 0 .. Len(s), D[j] = {}
  PROVE  D[Len(s)] = {}
<1> DEFINE n == Len(s) - j
           M == { k \in 0 .. n : D[j + k] = {} }
<1>1. n \in Nat /\ j + n = Len(s) /\ j + 0 = j
  OBVIOUS
<1>2. 0 \in M
  BY <1>1
<1>3. ASSUME NEW k \in 1 .. n, k - 1 \in M PROVE k \in M
  <2> DEFINE i == j + k
  <2>1. i \in 1 .. Len(s) /\ i - 1 = j + (k - 1) /\ k \in 0 .. n
    OBVIOUS
  <2>2. D[i] = NextDisk(d, s, i, D[i - 1])
    BY <2>1 DEF DiskWalk
  <2>3. D[i - 1] = {}
    BY <2>1, <1>3
  <2>4. D[i] = {}
    BY <2>2, <2>3 DEF NextDisk
  <2> QED BY <2>1, <2>4
<1>4. 0 .. n \subseteq M
  <2> HIDE DEF M
  <2>1. \A k \in 1 .. n : k - 1 \in M => k \in M
    BY <1>3
  <2> HIDE DEF n
  <2> QED BY <1>1, <1>2, <2>1, UpToAll
<1>5. n \in M
  <2> HIDE DEF M
  <2> QED BY <1>1, <1>4
<1> QED BY <1>1, <1>5

\* What the node m says of itself.
Sh(t, m) == Short(t[m].dir, t[m].inode, t[m].len)

\* A node that is found in one that the volume has is one that the volume has.
LEMMA StepOnDisk ==
  ASSUME NEW w, NEW d, Formed(d), NEW t, TreeOK(d, t), NEW n \in 1 .. Len(t), NEW s, NEW q, s[q] # "/",
         NEW r, FoundIn(w, d, t, n, s[q], r), NEW X, Sh(t, n) \in X, r.node # 0
  PROVE  Sh(r.tree, r.node) \in NextDisk(d, s, q, X)
<1>0. Typed(d)
  BY DEF Formed
<1> DEFINE e == Sh(t, n)
           m == r.node
<1>1. /\ t[n].dir /\ TreeOK(d, r.tree) /\ m \in 1 .. Len(r.tree) /\ m # 1
      /\ EntryIn(d, t[n].inode, s[q]) = {At(d, r.tree[m].impl2)}
  BY DEF FoundIn
<1>2. At(d, r.tree[m].impl2) = Sh(r.tree, m)
  <2> HIDE DEF m
  <2> DEFINE T == r.tree
  <2>1. TreeOK(d, T) /\ m \in 1 .. Len(T) /\ m # 1
    BY <1>1
  <2> HIDE DEF T
  <2>2. At(d, T[m].impl2) = Short(T[m].dir, T[m].inode, T[m].len)
    BY <2>1, <1>0, TreeParts
  <2> QED BY <2>2 DEF Sh, T
<1>3. e.dir /\ e.cl = t[n].inode
  BY <1>1 DEF Sh, Short
<1>4. Sh(r.tree, m) \in EntryIn(d, e.cl, s[q])
  BY <1>1, <1>2, <1>3
<1> HIDE DEF e
<1>5. e \in { x \in X : x.dir }
  BY <1>3 DEF e
<1> QED BY <1>4, <1>5 DEF NextDisk

\* And it is what the volume w leads to, if anything.
LEMMA StepAsLed ==
  ASSUME NEW w, Formed(w), NEW d, Formed(d), Extends(w, d), NEW t, TreeOK(d, t), NEW n \in 1 .. Len(t),
         NEW s, NEW q, s[q] # "/", NEW r, FoundIn(w, d, t, n, s[q], r), NEW X, LedTo(w, t, n, X)
  PROVE  LedTo(w, r.tree, r.node, NextDisk(w, s, q, X))
<1>0. Typed(d) /\ Typed(w)
  BY DEF Formed
<1> DEFINE Y == NextDisk(w, s, q, X)
<1>1. Y = UNION { EntryIn(w, e.cl, s[q]) : e \in { x \in X : x.dir } }
  BY DEF NextDisk
<1>2. ASSUME NEW e, X = {e}, ~ e.dir PROVE Y = {}
  BY <1>1, <1>2
<1>3. ASSUME NEW e, X = {e}, e.dir PROVE Y = EntryIn(w, e.cl, s[q])
  BY <1>1, <1>3
<1>4. ASSUME t[n].dir, t[n].inode \in Dirs(w), Y = EntryIn(w, t[n].inode, s[q])
      PROVE  LedTo(w, r.tree, r.node, Y)
  BY <1>4 DEF FoundIn
<1>5. CASE X = {}
  <2>1. Y = {}
    BY <1>1, <1>5
  <2> QED BY <2>1 DEF LedTo
<1>6. CASE n = 1 /\ X = {Root}
  <2>1. Root.dir /\ Root.cl = RootCl
    BY DEF Root, Short
  <2>2. t[1].dir /\ t[1].inode = RootCl
    BY DEF TreeOK, Placed
  <2>3. RootCl \in Dirs(w)
    BY DEF Dirs
  <2> HIDE DEF Y
  <2>4. Y = EntryIn(w, t[n].inode, s[q])
    BY <1>3, <1>6, <2>1, <2>2
  <2>5. LedTo(w, r.tree, r.node, Y)
    BY <1>4, <1>6, <2>2, <2>3, <2>4
  <2> QED BY <2>5 DEF Y
<1>7. CASE n # 0 /\ n # 1 /\ t[n].impl2 \in Named(w) /\ X = {At(w, t[n].impl2)}
  <2> DEFINE e == At(w, t[n].impl2)
  <2>1. At(d, t[n].impl2).dir = t[n].dir /\ At(d, t[n].impl2).cl = t[n].inode
    BY <1>0, <1>7, TreeParts
  <2>2. e.dir = t[n].dir /\ e.cl = t[n].inode
    BY <1>7, <2>1 DEF Extends
  <2>3. CASE ~ t[n].dir
    <3> HIDE DEF e, Y
    <3>1. X = {e} /\ ~ e.dir
      BY <1>7, <2>2, <2>3 DEF e
    <3>2. Y = {}
      BY <1>2, <3>1
    <3> QED BY <3>2 DEF LedTo, Y
  <2>4. CASE t[n].dir
    <3>1. t[n].inode \in Dirs(w)
      BY <1>7, <2>2, <2>4 DEF Dirs
    <3> HIDE DEF e, Y
    <3>2. X = {e} /\ e.dir
      BY <1>7, <2>2, <2>4 DEF e
    <3>3. Y = EntryIn(w, t[n].inode, s[q])
      BY <1>3, <3>2, <2>2
    <3>4. LedTo(w, r.tree, r.node, Y)
      BY <1>4, <2>4, <3>1, <3>3
    <3> QED BY <3>4 DEF Y
  <2> QED BY <2>3, <2>4
<1> QED BY <1>5, <1>6, <1>7 DEF LedTo

-----------------------------------------------------------------------------
\* One turn of the search.
TurnOf(d, s, x) ==
  LET p == Skip(s, x.p)
      f == fs_finddir(d, x.tree, Ptr(x.node), IF p > Len(s) THEN "" ELSE s[p])
  IN  [tree |-> f.tree, node |-> f.node, p |-> NextSlash(s, p)]

\* Where the search is after k turns: what volumes d and w have where the path was
\* followed to, whose walks are D and V.
End(s, p) == IF p = 0 THEN Len(s) ELSE p - 1
Cur(k, m) == IF k = 0 THEN 1 ELSE m
Seen(T, m, X) == m # 0 => Sh(T, m) \in X
Stands(w, d, s, V, D, k, x) ==
  /\ TreeOK(d, x.tree) /\ Reads(w, x.tree) /\ x.node \in {0} \cup 1 .. Len(x.tree) /\ x.p \in 0 .. Len(s)
  /\ k = 0 => x.p = 1 /\ x.node = 0
  /\ k # 0 => x.node # 1
  /\ x.p = 0 \/ (k # 0 /\ x.node = 0) \/ k + 1 <= x.p
  /\ x.p = 0 /\ s[Len(s)] = "/" => x.node = 0
  /\ x.p # 0 \/ s[Len(s)] # "/" =>
       /\ Seen(x.tree, Cur(k, x.node), D[End(s, x.p)])
       /\ LedTo(w, x.tree, Cur(k, x.node), V[End(s, x.p)])

\* A turn of the search keeps to both volumes.
LEMMA TurnKeeps ==
  ASSUME NEW w, Formed(w), NEW d, Formed(d), Extends(w, d), NEW s, Slashed(s),
         NEW V, DiskWalk(w, s, V), NEW D, DiskWalk(d, s, D), NEW k \in 1 .. Len(s), NEW x,
         Stands(w, d, s, V, D, k - 1, x), x.p # 0, k = 1 \/ x.node # 0,
         NEW y, y = TurnOf(d, s, x)
  PROVE  Stands(w, d, s, V, D, k, y)
<1>0. Len(s) \in Nat /\ Typed(d)
  BY DEF Slashed, Formed
<1>1. /\ TreeOK(d, x.tree) /\ Reads(w, x.tree) /\ x.node \in {0} \cup 1 .. Len(x.tree) /\ x.p \in 1 .. Len(s)
      /\ k = 1 => x.p = 1 /\ x.node = 0
      /\ k # 1 => x.node # 1
      /\ k <= x.p
      /\ Seen(x.tree, Cur(k - 1, x.node), D[x.p - 1])
      /\ LedTo(w, x.tree, Cur(k - 1, x.node), V[x.p - 1])
  BY <1>0 DEF Stands, End
<1> DEFINE n == Ptr(x.node)
           p == x.p
           q == Skip(s, p)
           c == IF q > Len(s) THEN "" ELSE s[q]
           f == fs_finddir(d, x.tree, n, c)
<1>2. n = Cur(k - 1, x.node) /\ n \in 1 .. Len(x.tree)
  <2>1. 1 \in 1 .. Len(x.tree)
    BY <1>0, <1>1, TreeParts
  <2> QED BY <1>1, <2>1 DEF Ptr, Cur
<1>3. y.tree = f.tree /\ y.node = f.node /\ y.p = NextSlash(s, q)
  BY DEF TurnOf
<1>4. FoundIn(w, d, x.tree, n, c, f)
  <2> HIDE DEF n, c
  <2> QED BY <1>1, <1>2, FindDir
<1> HIDE DEF f, n
<1>5. q \in p .. Len(s) + 1 /\ (q <= Len(s) => s[q] # "/") /\ \A i \in p .. q - 1 : s[i] = "/"
  <2> HIDE DEF p
  <2>1. p \in 1 .. Len(s)
    BY <1>1 DEF p
  <2> QED BY <1>0, <2>1, SkipIs
<1> HIDE DEF q
<1>6. D[q - 1] = D[p - 1] /\ V[q - 1] = V[p - 1]
  <2> HIDE DEF p
  <2>1. p \in 1 .. Len(s)
    BY <1>1 DEF p
  <2>1a. q \in p .. Len(s) + 1
    BY <1>5
  <2>1b. Slashes(s, p, q)
    BY <1>5 DEF Slashes
  <2>1c. Len(s) \in Nat
    BY <1>0
  <2>2. D[q - 1] = D[p - 1]
    BY <2>1, <2>1a, <2>1b, <2>1c, Stay
  <2>3. V[q - 1] = V[p - 1]
    BY <2>1, <2>1a, <2>1b, <2>1c, Stay
  <2> QED BY <2>2, <2>3
<1>6a. q \in 1 .. Len(s) + 1
  BY <1>0, <1>1, <1>5
<1>7. y.p = IF q < Len(s) THEN q + 1 ELSE 0
  <2>1. q \in 1 .. Len(s) + 1
    BY <1>0, <1>1, <1>5
  <2> QED BY <1>3, <1>5, <2>1, NextIs
<1>8. /\ TreeOK(d, f.tree) /\ Reads(w, f.tree)
      /\ f.node \in {0} \cup 1 .. Len(f.tree) /\ f.node # 1
      /\ c \notin Names => f.node = 0
  BY <1>4 DEF FoundIn
<1>9. k # 0 /\ y.p \in 0 .. Len(s) /\ (y.p = 0 \/ k + 1 <= y.p) /\ Cur(k, y.node) = f.node
  BY <1>0, <1>1, <1>3, <1>5, <1>7 DEF Cur
<1>10. CASE q > Len(s)
  <2>1. c \notin Names
    BY <1>10, Zenon DEF Names
  <2>2. f.node = 0 /\ y.p = 0
    <3> HIDE DEF c
    <3> QED BY <1>0, <1>6a, <1>7, <1>8, <1>10, <2>1
  <2>3. s[Len(s)] = "/"
    BY <1>0, <1>1, <1>5, <1>10
  <2> QED BY <1>3, <1>8, <1>9, <2>2, <2>3 DEF Stands
<1>11. CASE q <= Len(s)
  <2>1. c = s[q] /\ q \in 1 .. Len(s) /\ s[q] # "/"
    <3>1. ~ (q > Len(s)) /\ q \in 1 .. Len(s)
      BY <1>0, <1>6a, <1>11
    <3> QED BY <1>5, <1>11, <3>1
  <2> HIDE DEF c
  <2>2. End(s, y.p) = q
    BY <1>0, <1>7, <1>11, <1>6a DEF End
  <2>3. D[q] = NextDisk(d, s, q, D[q - 1]) /\ V[q] = NextDisk(w, s, q, V[q - 1])
    BY <2>1 DEF DiskWalk
  <2>4. y.p = 0 /\ s[Len(s)] = "/" => f.node = 0
    <3> SUFFICES ASSUME y.p = 0 PROVE s[Len(s)] # "/"
      OBVIOUS
    <3>1. q = Len(s)
      BY <1>0, <1>6a, <1>7, <1>11
    <3> QED BY <3>1, <2>1
  <2>5. FoundIn(w, d, x.tree, n, s[q], f)
    BY <1>4, <2>1
  <2>6. Seen(f.tree, f.node, D[q])
    <3> DEFINE X == D[q - 1]
               t == x.tree
    <3>1. Sh(t, n) \in X /\ TreeOK(d, t) /\ n \in 1 .. Len(t)
      BY <1>1, <1>2, <1>6 DEF Seen
    <3>2. FoundIn(w, d, t, n, s[q], f)
      BY <2>5
    <3> HIDE DEF X, t
    <3>3. f.node # 0 => Sh(f.tree, f.node) \in NextDisk(d, s, q, X)
      BY <2>1, <3>1, <3>2, StepOnDisk
    <3> QED BY <2>3, <3>3 DEF Seen, X
  <2>7. LedTo(w, f.tree, f.node, V[q])
    <3> DEFINE X == V[q - 1]
               t == x.tree
    <3>1. LedTo(w, t, n, X) /\ TreeOK(d, t) /\ n \in 1 .. Len(t)
      BY <1>1, <1>2, <1>6
    <3>2. FoundIn(w, d, t, n, s[q], f)
      BY <2>5
    <3> HIDE DEF X, t
    <3>3. LedTo(w, f.tree, f.node, NextDisk(w, s, q, X))
      BY <2>1, <3>1, <3>2, StepAsLed
    <3> QED BY <2>3, <3>3 DEF X
  <2> QED BY <1>3, <1>8, <1>9, <2>2, <2>4, <2>6, <2>7 DEF Stands
<1> QED BY <1>0, <1>5, <1>10, <1>11

-----------------------------------------------------------------------------
\* The search stands still once the path is at its end, or nothing was found.
NextTurn(d, s, k, x) ==
  IF x.p = 0 \/ (k > 1 /\ x.node = NULL) THEN x ELSE TurnOf(d, s, x)

\* So does the search that stands still.
LEMMA StandsOn ==
  ASSUME NEW w, Formed(w), NEW d, Formed(d), Extends(w, d), NEW s, Slashed(s),
         NEW V, DiskWalk(w, s, V), NEW D, DiskWalk(d, s, D), NEW k \in 1 .. Len(s), NEW x,
         Stands(w, d, s, V, D, k - 1, x)
  PROVE  Stands(w, d, s, V, D, k, NextTurn(d, s, k, x))
<1> DEFINE y == NextTurn(d, s, k, x)
<1>0. k \in Nat /\ k # 0 /\ (k > 1 <=> k # 1) /\ (k - 1 = 0 <=> k = 1)
  BY DEF Slashed
<1>1. CASE x.p = 0 \/ (k > 1 /\ x.node = NULL)
  <2>1. y = x
    BY <1>1 DEF NextTurn
  <2>2. /\ TreeOK(d, x.tree) /\ Reads(w, x.tree) /\ x.node \in {0} \cup 1 .. Len(x.tree) /\ x.p \in 0 .. Len(s)
        /\ k - 1 = 0 => x.p = 1 /\ x.node = 0
        /\ k - 1 # 0 => x.node # 1
        /\ x.p = 0 /\ s[Len(s)] = "/" => x.node = 0
        /\ x.p # 0 \/ s[Len(s)] # "/" =>
             /\ Seen(x.tree, Cur(k - 1, x.node), D[End(s, x.p)])
             /\ LedTo(w, x.tree, Cur(k - 1, x.node), V[End(s, x.p)])
    BY DEF Stands
  <2>3. k # 1
    <3> SUFFICES ASSUME k = 1 PROVE FALSE
      OBVIOUS
    <3>1. x.p = 1
      BY <1>0, <2>2
    <3> QED BY <3>1, <1>0, <1>1
  <2>4. Cur(k - 1, x.node) = Cur(k, x.node)
    BY <1>0, <2>3 DEF Cur
  <2>5. x.p = 0 \/ (k # 0 /\ x.node = 0) \/ k + 1 <= x.p
    BY <1>0, <1>1 DEF NULL
  <2>6. k # 0 => x.node # 1
    BY <1>0, <2>2, <2>3
  <2>7. k = 0 => x.p = 1 /\ x.node = 0
    BY <1>0
  <2>8. Stands(w, d, s, V, D, k, x)
    BY <2>2, <2>4, <2>5, <2>6, <2>7 DEF Stands
  <2> QED BY <2>1, <2>8
<1>2. CASE ~ (x.p = 0 \/ (k > 1 /\ x.node = NULL))
  <2>1. y = TurnOf(d, s, x)
    BY <1>2 DEF NextTurn
  <2>2. x.p # 0 /\ (k = 1 \/ x.node # 0)
    BY <1>0, <1>2 DEF NULL
  <2> HIDE DEF y
  <2>3. Stands(w, d, s, V, D, k, y)
    BY <2>1, <2>2, TurnKeeps
  <2> QED BY <2>3 DEF y
<1> QED BY <1>1, <1>2

\* The search is in turns.
PathWalked(w, d, s, V, D, k, x) ==
  Stands(w, d, s, V, D, k, x) /\ x \in [tree : Seq(Node), node : Nat, p : Nat]

\* A turn, of the search's record as well.
LEMMA WalkedOn ==
  ASSUME NEW w, Formed(w), NEW d, Formed(d), Extends(w, d), NEW s, Slashed(s),
         NEW V, DiskWalk(w, s, V), NEW D, DiskWalk(d, s, D), NEW k \in 1 .. Len(s), NEW x,
         PathWalked(w, d, s, V, D, k - 1, x)
  PROVE  PathWalked(w, d, s, V, D, k, NextTurn(d, s, k, x))
<1> DEFINE y == NextTurn(d, s, k, x)
<1>1. Stands(w, d, s, V, D, k, y)
  BY StandsOn DEF PathWalked
<1>2. x \in [tree : Seq(Node), node : Nat, p : Nat]
  BY DEF PathWalked
<1>3. y = x \/ y = TurnOf(d, s, x)
  BY DEF NextTurn
<1>4. CASE y = TurnOf(d, s, x)
  <2>1. TreeOK(d, y.tree) /\ y.node \in {0} \cup 1 .. Len(y.tree) /\ y.p \in 0 .. Len(s)
    <3> HIDE DEF y
    <3> QED BY <1>1 DEF Stands
  <2>2. y.tree \in Seq(Node) /\ Len(y.tree) \in Nat
    <3>1. Typed(d)
      BY DEF Formed
    <3> HIDE DEF y
    <3> DEFINE T == y.tree
    <3>2. TreeOK(d, T)
      BY <2>1
    <3> HIDE DEF T
    <3>3. T \in Seq(Node) /\ Len(T) \in Nat
      BY <3>1, <3>2, TreeParts
    <3> QED BY <3>3 DEF T
  <2>3. y.node \in Nat /\ y.p \in Nat
    <3> HIDE DEF y
    <3> QED BY <2>1, <2>2 DEF Slashed
  <2>4. y = [tree |-> y.tree, node |-> y.node, p |-> y.p]
    BY <1>4 DEF TurnOf
  <2> HIDE DEF y, Node
  <2>5. y \in [tree : Seq(Node), node : Nat, p : Nat]
    BY <2>2, <2>3, <2>4
  <2> QED BY <1>1, <2>5 DEF PathWalked, y
<1> QED BY <1>1, <1>2, <1>3, <1>4 DEF PathWalked

\* The search begins at the root.
LEMMA WalkStarts ==
  ASSUME NEW w, Formed(w), NEW d, Formed(d), NEW s, Slashed(s), Len(s) # 0,
         NEW V, DiskWalk(w, s, V), NEW D, DiskWalk(d, s, D), NEW t, TreeOK(d, t), Reads(w, t)
  PROVE  PathWalked(w, d, s, V, D, 0, [tree |-> t, node |-> 0, p |-> 1])
<1> DEFINE x == [tree |-> t, node |-> 0, p |-> 1]
<1>1. x.tree = t /\ x.node = 0 /\ x.p = 1
  OBVIOUS
<1>2. t \in Seq(Node)
  BY DEF TreeOK
<1>3. x \in [tree : Seq(Node), node : Nat, p : Nat]
  <2> HIDE DEF Node
  <2> QED BY <1>2
<1>4. Len(s) \in Nat
  BY DEF Slashed
<1>5. 1 \in 0 .. Len(s) /\ End(s, 1) = 0 /\ Cur(0, 0) = 1
  BY <1>4 DEF End, Cur
<1>6. D[0] = {Root} /\ V[0] = {Root}
  BY DEF DiskWalk
<1>7. Sh(t, 1) = Root
  BY DEF Sh, Root, TreeOK, Placed, Short
<1>8. Seen(t, 1, D[0]) /\ LedTo(w, t, 1, V[0])
  BY <1>6, <1>7 DEF Seen, LedTo
<1> HIDE DEF x
<1>9. Stands(w, d, s, V, D, 0, x)
  BY <1>1, <1>5, <1>8 DEF Stands
<1> QED BY <1>3, <1>9 DEF x, PathWalked

-----------------------------------------------------------------------------
\* fs_finddir_path takes these turns.
LEMMA WalkSteps ==
  ASSUME NEW w, Formed(w), NEW d, Formed(d), Extends(w, d), NEW s, Slashed(s), s # << >>, Len(s) # 0,
         NEW V, DiskWalk(w, s, V), NEW D, DiskWalk(d, s, D), NEW t, TreeOK(d, t), Reads(w, t)
  PROVE  \E r : /\ PathWalked(w, d, s, V, D, Len(s), r)
                /\ fs_finddir_path(d, t, s) = [tree |-> r.tree, node |-> r.node]
<1> DEFINE n == Len(s)
           a == [tree |-> t, node |-> 0, p |-> 1]
           Is(e) == e = [k \in 0 .. Len(s) |-> IF k = 0 THEN a ELSE NextTurn(d, s, k, e[k - 1])]
           P(k, r) == PathWalked(w, d, s, V, D, k, r)
           R == [tree : Seq(Node), node : Nat, p : Nat]
           T == [k \in 0 .. n |-> { r \in R : P(k, r) }]
           g == [k \in 1 .. n |-> [x \in T[k - 1] |-> NextTurn(d, s, k, x)]]
<1>1. n \in Nat
  BY DEF Slashed
<1>2. fs_finddir_path(d, t, s) =
        [tree |-> (CHOOSE e : Is(e))[n].tree, node |-> (CHOOSE e : Is(e))[n].node]
  BY DEF fs_finddir_path, NextTurn, TurnOf
<1>4. ASSUME NEW k \in 0 .. n, NEW r, P(k, r) PROVE r \in T[k]
  <2>1. r \in R
    BY <1>4 DEF PathWalked
  <2> HIDE DEF P, R, n
  <2> QED BY <1>4, <2>1
<1>5. \A k \in 0 .. n : \A r \in T[k] : P(k, r)
  <2> HIDE DEF P, R, n
  <2> QED OBVIOUS
<1>6. \A k \in 1 .. n : k - 1 \in 0 .. n /\ k \in 0 .. n /\ k # 0
  BY <1>1
<1>7. P(0, a) /\ 0 \in 0 .. n
  BY <1>1, WalkStarts
<1>8. ASSUME NEW k \in 1 .. n, NEW x, P(k - 1, x) PROVE P(k, NextTurn(d, s, k, x))
  BY <1>8, WalkedOn
<1> HIDE DEF a, P, T
<1>9. a \in T[0] /\ \A k \in 1 .. n : \A x \in T[k - 1] : g[k][x] \in T[k]
  <2>1. a \in T[0]
    BY <1>4, <1>7
  <2>2. ASSUME NEW k \in 1 .. n, NEW x \in T[k - 1] PROVE g[k][x] \in T[k]
    <3> HIDE DEF n
    <3>1. P(k - 1, x)
      BY <1>5, <1>6
    <3>2. P(k, NextTurn(d, s, k, x))
      BY <3>1, <1>8
    <3>3. g[k][x] = NextTurn(d, s, k, x)
      OBVIOUS
    <3> HIDE DEF g
    <3> QED BY <3>2, <3>3, <1>4, <1>6
  <2> QED BY <2>1, <2>2
<1>10. PICK f : Stepped(f, n, T, a, g)
  <2> HIDE DEF g, n
  <2> QED BY <1>1, <1>9, Iterated
<1>11. /\ f = [k \in 0 .. n |-> f[k]] /\ f[0] = a
       /\ \A k \in 1 .. n : f[k] = NextTurn(d, s, k, f[k - 1])
  <2> HIDE DEF n
  <2>1. \A k \in 0 .. n : f[k] \in T[k]
    BY <1>10 DEF Stepped
  <2>2. \A k \in 1 .. n : f[k] = g[k][f[k - 1]]
    BY <1>10 DEF Stepped
  <2>3. \A k \in 1 .. n : f[k] = NextTurn(d, s, k, f[k - 1])
    BY <1>6, <2>1, <2>2
  <2>4. f = [k \in 0 .. n |-> f[k]] /\ f[0] = a
    BY <1>10 DEF Stepped
  <2> QED BY <2>3, <2>4
<1>12. Is(f)
  <2> DEFINE h == [k \in 0 .. n |-> IF k = 0 THEN a ELSE NextTurn(d, s, k, f[k - 1])]
  <2>1. \A k \in 0 .. n : f[k] = h[k]
    <3> HIDE DEF n
    <3> TAKE k \in 0 .. n
    <3>1. CASE k = 0
      BY <3>1, <1>11
    <3>2. CASE k # 0
      <4>1. k \in 1 .. n
        BY <3>2, <1>1
      <4> QED BY <4>1, <3>2, <1>11
    <3> QED BY <3>1, <3>2
  <2>2. h = [k \in 0 .. n |-> h[k]]
    OBVIOUS
  <2>3. f = h
    <3> HIDE DEF h, n
    <3> QED BY <2>1, <2>2, <1>11
  <2> QED BY <2>3
<1> DEFINE r == CHOOSE e : Is(e)
<1>13. Is(r)
  <2> HIDE DEF Is
  <2> QED BY <1>12, Zenon
<1>14. fs_finddir_path(d, t, s) = [tree |-> r[n].tree, node |-> r[n].node]
  BY <1>2
<1> HIDE DEF r
<1>15. r[0] = a /\ \A k \in 1 .. n : r[k] = NextTurn(d, s, k, r[k - 1])
  <2>1. r[0] = a
    BY <1>13, <1>7
  <2>2. ASSUME NEW k \in 1 .. n PROVE r[k] = NextTurn(d, s, k, r[k - 1])
    <3>1. k \in 0 .. Len(s) /\ k # 0
      BY <1>6
    <3> QED BY <3>1, <1>13, Zenon
  <2> QED BY <2>1, <2>2
<1> HIDE DEF Is
<1>16. \A k \in 0 .. n : P(k, r[k])
  <2> DEFINE M == { k \in 0 .. n : P(k, r[k]) }
  <2> HIDE DEF n
  <2>1. 0 \in M
    BY <1>7, <1>15
  <2>2. ASSUME NEW k \in 1 .. n, k - 1 \in M PROVE k \in M
    <3>1. P(k - 1, r[k - 1])
      BY <2>2
    <3>2. P(k, NextTurn(d, s, k, r[k - 1]))
      BY <3>1, <1>8
    <3>3. P(k, r[k])
      BY <3>2, <1>15
    <3> QED BY <3>3, <1>6
  <2>3. 0 .. n \subseteq M
    <3> HIDE DEF M
    <3> QED BY <2>1, <2>2, UpToAll, <1>1
  <2> QED BY <2>3
<1>17. P(n, r[n])
  <2>1. n \in 0 .. n
    BY <1>1
  <2> HIDE DEF n
  <2> QED BY <2>1, <1>16
<1> QED BY <1>14, <1>17 DEF P

\* A path leads where the volume says, and to what volume w has there.
PathLed(w, d, s, T, m) ==
  /\ TreeOK(d, T) /\ Reads(w, T) /\ m \in {0} \cup 1 .. Len(T)
  /\ Seen(T, m, ToDisk(d, s)) /\ LedTo(w, T, m, ToDisk(w, s))

\* What fs_finddir_path gives for a path.
LEMMA PathWalk ==
  ASSUME NEW w, Formed(w), NEW d, Formed(d), Extends(w, d), NEW t, TreeOK(d, t), Reads(w, t),
         NEW s \in Paths
  PROVE  PathLed(w, d, s, fs_finddir_path(d, t, s).tree, fs_finddir_path(d, t, s).node)
<1>0. Slashed(s) /\ (s # << >> <=> Len(s) # 0) /\ Len(s) \in Nat /\ Typed(d)
  BY PathSlashed DEF Slashed, Formed
<1>1. PICK D : /\ DiskWalk(d, s, D)
               /\ ToDisk(d, s) = IF s # << >> /\ s[Len(s)] = "/" THEN {} ELSE D[Len(s)]
  BY <1>0, DiskSteps
<1>2. PICK V : /\ DiskWalk(w, s, V)
               /\ ToDisk(w, s) = IF s # << >> /\ s[Len(s)] = "/" THEN {} ELSE V[Len(s)]
  BY <1>0, DiskSteps
<1> DEFINE r == fs_finddir_path(d, t, s)
<1>3. CASE s = << >>
  <2>1. r.tree = t /\ r.node = 1
    BY <1>3 DEF fs_finddir_path, Ptr
  <2>2. 1 \in 1 .. Len(t)
    BY <1>0, TreeParts
  <2>3. Sh(t, 1) = Root
    BY DEF Sh, Root, TreeOK, Placed, Short
  <2>4. Len(s) = 0
    BY <1>3
  <2>5. ToDisk(d, s) = {Root} /\ ToDisk(w, s) = {Root}
    <3>1. D[0] = {Root} /\ V[0] = {Root}
      BY <1>1, <1>2 DEF DiskWalk
    <3> QED BY <3>1, <2>4, <1>1, <1>2, <1>3
  <2>6. Seen(t, 1, ToDisk(d, s)) /\ LedTo(w, t, 1, ToDisk(w, s))
    BY <2>3, <2>5 DEF Seen, LedTo
  <2> HIDE DEF r
  <2>7. PathLed(w, d, s, r.tree, r.node)
    BY <2>1, <2>2, <2>6 DEF PathLed
  <2> QED BY <2>7 DEF r
<1>4. CASE s # << >>
  <2>1. PICK x : /\ PathWalked(w, d, s, V, D, Len(s), x)
                 /\ r = [tree |-> x.tree, node |-> x.node]
    <3>1. Len(s) # 0
      BY <1>0, <1>4
    <3> QED BY <3>1, <1>0, <1>1, <1>2, <1>4, WalkSteps
  <2>2. r.tree = x.tree /\ r.node = x.node
    BY <2>1
  <2>3. Len(s) \in Nat /\ Len(s) # 0 /\ Len(s) \in 0 .. Len(s)
    BY <1>0, <1>4
  <2>4. /\ TreeOK(d, x.tree) /\ Reads(w, x.tree) /\ x.node \in {0} \cup 1 .. Len(x.tree)
        /\ x.p \in 0 .. Len(s)
        /\ x.p = 0 \/ x.node = 0
        /\ x.p = 0 /\ s[Len(s)] = "/" => x.node = 0
        /\ x.p # 0 \/ s[Len(s)] # "/" =>
             /\ Seen(x.tree, x.node, D[End(s, x.p)])
             /\ LedTo(w, x.tree, x.node, V[End(s, x.p)])
    BY <2>1, <2>3 DEF PathWalked, Stands, Cur
  <2> HIDE DEF r
  <2>5. CASE s[Len(s)] = "/"
    <3>1. x.node = 0 /\ ToDisk(w, s) = {}
      BY <2>4, <2>5, <1>2, <1>4
    <3>2. Seen(x.tree, 0, ToDisk(d, s)) /\ LedTo(w, x.tree, 0, ToDisk(w, s))
      BY <3>1 DEF Seen, LedTo
    <3> QED BY <2>2, <2>4, <3>1, <3>2 DEF PathLed, r
  <2>6. CASE s[Len(s)] # "/" /\ x.p = 0
    <3>1. ToDisk(w, s) = V[Len(s)] /\ ToDisk(d, s) = D[Len(s)] /\ End(s, x.p) = Len(s)
      BY <2>6, <1>1, <1>2 DEF End
    <3> QED BY <2>2, <2>4, <2>6, <3>1 DEF PathLed, r
  <2>7. CASE s[Len(s)] # "/" /\ x.p # 0
    <3>1. x.node = 0 /\ Seen(x.tree, 0, ToDisk(d, s))
      BY <2>4, <2>7 DEF Seen
    <3>2. V[End(s, x.p)] = {}
      BY <2>4, <2>7, <3>1 DEF LedTo
    <3>3. End(s, x.p) \in 0 .. Len(s)
      BY <2>3, <2>4, <2>7 DEF End
    <3>4. V[Len(s)] = {}
      BY <1>0, <1>2, <3>2, <3>3, EmptyOn
    <3>5. LedTo(w, x.tree, 0, ToDisk(w, s))
      BY <3>4, <1>2, <2>7 DEF LedTo
    <3> QED BY <2>2, <2>4, <3>1, <3>5 DEF PathLed, r
  <2> QED BY <2>5, <2>6, <2>7
<1> QED BY <1>3, <1>4

-----------------------------------------------------------------------------
\* All of two nodes but the length.
Resized(a, b) == /\ a.name = b.name /\ a.dir = b.dir /\ a.inode = b.inode
                 /\ a.impl = b.impl /\ a.first = b.first /\ a.impl2 = b.impl2

\* A tree that is as it should be on one volume is on another that extends it, if
\* the lengths are what they are there.
LEMMA TreeMoved ==
  ASSUME NEW d, Formed(d), NEW e, Formed(e), Extends(d, e), NEW t, TreeOK(d, t),
         NEW U, U \in Seq(Node), Len(U) = Len(t), \A m \in 1 .. Len(t) : Resized(U[m], t[m]),
         U[1].len = 0, \A m \in 1 .. Len(t) : m # 1 => At(e, U[m].impl2) = Sh(U, m)
  PROVE  TreeOK(e, U)
<1>0. Typed(d)
  BY DEF Formed
<1>1. t \in Seq(Node) /\ t # << >> /\ Placed(d, t) /\ \A n \in DOMAIN t : Listed(d, t, n)
  BY DEF TreeOK
<1>2. /\ DOMAIN t = 1 .. Len(t) /\ DOMAIN U = 1 .. Len(t) /\ U # << >> /\ Len(t) \in Nat /\ 1 \in 1 .. Len(t)
      /\ \A x \in 2 .. Len(t) : x \in 1 .. Len(t) /\ x # 1
  <2> HIDE DEF Node
  <2> QED BY <1>1
<1>3. \A m \in 1 .. Len(t) : /\ U[m].name = t[m].name /\ U[m].dir = t[m].dir /\ U[m].inode = t[m].inode
                             /\ U[m].impl2 = t[m].impl2 /\ U[m].first = t[m].first
  BY DEF Resized
<1>4. Placed(e, U)
  <2>1. U[1].dir /\ U[1].inode = RootCl /\ U[1].len = 0
    BY <1>1, <1>2, <1>3 DEF Placed
  <2>2. ASSUME NEW n \in 2 .. Len(U)
        PROVE  /\ U[n].impl2 \in Named(e) /\ At(e, U[n].impl2) = Short(U[n].dir, U[n].inode, U[n].len)
               /\ \A m \in 2 .. Len(U) : U[n].impl2 = U[m].impl2 => n = m
               /\ \E p \in DOMAIN U : \E i \in DOMAIN U[p].first : U[p].first[i].node = n
    <3>1. /\ t[n].impl2 \in Named(d)
          /\ \A m \in 2 .. Len(t) : t[n].impl2 = t[m].impl2 => n = m
          /\ \E p \in DOMAIN t : \E i \in DOMAIN t[p].first : t[p].first[i].node = n
      BY <1>1 DEF Placed
    <3>2. \A m \in 2 .. Len(U) : U[n].impl2 = U[m].impl2 => n = m
      BY <3>1, <1>2, <1>3
    <3>3. \E p \in DOMAIN U : \E i \in DOMAIN U[p].first : U[p].first[i].node = n
      BY <3>1, <1>2, <1>3
    <3>4. U[n].impl2 = t[n].impl2 /\ At(e, U[n].impl2) = Sh(U, n)
      BY <1>2, <1>3
    <3>5. U[n].impl2 \in Named(e)
      BY <3>1, <3>4 DEF Extends
    <3> QED BY <3>2, <3>3, <3>4, <3>5 DEF Sh
  <2> QED BY <2>1, <2>2 DEF Placed
<1>5. ASSUME NEW m \in 1 .. Len(t) PROVE Listed(e, U, m)
  <2> DEFINE g == t[m].first
             c == t[m].inode
             gs == Entries(d, c)
             hs == Entries(e, c)
  <2>1. U[m].first = g /\ U[m].inode = c /\ U[m].dir = t[m].dir
    BY <1>3
  <2> SUFFICES ASSUME g # << >> PROVE Listed(e, U, m)
    BY <2>1 DEF Listed
  <2>2. /\ t[m].dir /\ Len(g) <= Len(gs)
        /\ \A i \in DOMAIN g :
             /\ g[i].name = gs[i].name /\ g[i].node \in {NULL} \cup 2 .. Len(t)
             /\ g[i].node = NULL => gs[i].at = {}
             /\ g[i].node # NULL => gs[i].at = { t[g[i].node].impl2 } /\ t[g[i].node].name = g[i].name
    BY <1>1, <1>2 DEF Listed
  <2>3. c \in Dirs(d) /\ c \in 0 .. MaxCl
    BY <2>2, TreeDir
  <2>4. gs \in Seq(Dirents) /\ hs \in Seq(Dirents) /\ DOMAIN g = 1 .. Len(g) /\ Len(g) \in Nat
    <3>1. gs \in Seq(Dirents) /\ hs \in Seq(Dirents)
      <4>1. Typed(e)
        BY DEF Formed
      <4> HIDE DEF c
      <4> QED BY <1>0, <4>1, <2>3, EntriesSeq
    <3>2. DOMAIN g = 1 .. Len(g) /\ Len(g) \in Nat
      BY <1>0, TreeParts
    <3> QED BY <3>1, <3>2
  <2>5. Len(gs) <= Len(hs) /\ \A i \in DOMAIN gs : hs[i] = gs[i]
    BY <2>3 DEF Extends
  <2> HIDE DEF g, gs, hs, c
  <2>6. Len(gs) \in Nat /\ Len(hs) \in Nat /\ DOMAIN gs = 1 .. Len(gs)
    BY <2>4
  <2>7. Len(g) <= Len(hs) /\ \A i \in DOMAIN g : hs[i] = gs[i]
    BY <2>2, <2>4, <2>5, <2>6
  <2>8. ASSUME NEW i \in DOMAIN g
        PROVE  /\ g[i].name = hs[i].name /\ g[i].node \in {NULL} \cup 2 .. Len(U)
               /\ g[i].node = NULL => hs[i].at = {}
               /\ g[i].node # NULL => hs[i].at = { U[g[i].node].impl2 } /\ U[g[i].node].name = g[i].name
    <3>1. /\ g[i].name = hs[i].name /\ g[i].node \in {NULL} \cup 2 .. Len(U)
          /\ g[i].node = NULL => hs[i].at = {}
          /\ g[i].node # NULL => hs[i].at = { t[g[i].node].impl2 } /\ t[g[i].node].name = g[i].name
      BY <2>2, <2>7, <2>8
    <3>2. g[i].node # NULL => g[i].node \in 1 .. Len(t)
      BY <3>1, <1>2
    <3> QED BY <3>1, <3>2, <1>3
  <2>9. U[m].dir /\ Len(g) <= Len(hs)
    BY <2>1, <2>2, <2>7
  <2> QED BY <2>1, <2>8, <2>9 DEF Listed, g, hs, c
<1> QED BY <1>2, <1>4, <1>5 DEF TreeOK

\* Lengths have nothing to do with what was read.
LEMMA ReadsMoved ==
  ASSUME NEW w, NEW t, Reads(w, t), NEW U, DOMAIN U = DOMAIN t, \A m \in DOMAIN t : Resized(U[m], t[m])
  PROVE  Reads(w, U)
BY DEF Reads, Resized

\* The tree on a volume that has grown.
LEMMA TreeGrows ==
  ASSUME NEW d, Formed(d), NEW e, Formed(e), Grows(d, e), NEW t, TreeOK(d, t)
  PROVE  TreeOK(e, t)
<1>0. Typed(d)
  BY DEF Formed
<1>1. t \in Seq(Node) /\ t[1].len = 0
  BY DEF TreeOK, Placed
<1>2. \A m \in 1 .. Len(t) : m # 1 => At(e, t[m].impl2) = Sh(t, m)
  <2> TAKE m \in 1 .. Len(t)
  <2> HAVE m # 1
  <2>1. t[m].impl2 \in Named(d) /\ At(d, t[m].impl2) = Short(t[m].dir, t[m].inode, t[m].len)
    BY <1>0, TreeParts
  <2>2. At(e, t[m].impl2) = At(d, t[m].impl2)
    BY <2>1 DEF Grows
  <2> QED BY <2>1, <2>2 DEF Sh
<1>3. Extends(d, e)
  BY DEF Grows
<1>4. \A m \in 1 .. Len(t) : Resized(t[m], t[m])
  BY DEF Resized
<1> QED BY <1>1, <1>2, <1>3, <1>4, TreeMoved

\* A file that is closed: its node's length.
WithLen(t, n, l) == [t EXCEPT ![n].len = l]

\* The tree with another length of one node.
LEMMA WithLenIs ==
  ASSUME NEW t, t \in Seq(Node), NEW n \in 1 .. Len(t), NEW l \in Nat, NEW U, U = WithLen(t, n, l)
  PROVE  /\ U \in Seq(Node) /\ Len(U) = Len(t) /\ Resized(U[n], t[n]) /\ U[n].len = l
         /\ \A m \in 1 .. Len(t) : m # n => U[m] = t[m]
<1>1. t[n] \in Node
  BY ElemIn
<1> DEFINE x == [t[n] EXCEPT !.len = l]
<1>2. x \in Node /\ x.len = l
  BY <1>1 DEF Node
<1>3. Resized(x, t[n])
  BY <1>1 DEF Resized, Node
<1>4. U = [t EXCEPT ![n] = x]
  BY DEF WithLen
<1> HIDE DEF x, Node, Resized
<1>5. /\ [t EXCEPT ![n] = x] \in Seq(Node) /\ Len([t EXCEPT ![n] = x]) = Len(t)
      /\ [t EXCEPT ![n] = x][n] = x /\ \A m \in 1 .. Len(t) : m # n => [t EXCEPT ![n] = x][m] = t[m]
  BY <1>2
<1> QED BY <1>2, <1>3, <1>4, <1>5

\* fat_close writes the length to the node and to its entry.
LEMMA CloseKeeps ==
  ASSUME NEW w, Formed(w), NEW d, Formed(d), Extends(w, d), NEW t, TreeOK(d, t), Reads(w, t),
         NEW n \in 1 .. Len(t), ~ t[n].dir, NEW l \in Nat, NEW U, U = WithLen(t, n, l),
         NEW e, e = Sized(d, t[n].impl2, l)
  PROVE  Formed(e) /\ (Linked(d) => Linked(e)) /\ Extends(w, e) /\ TreeOK(e, U) /\ Reads(w, U)
<1>0. Typed(d)
  BY DEF Formed
<1>1. t \in Seq(Node) /\ t[1].dir /\ t[1].len = 0
  BY DEF TreeOK, Placed
<1>2. n # 1
  BY <1>1
<1>2a. Len(t) \in Nat /\ DOMAIN t = 1 .. Len(t) /\ 1 \in 1 .. Len(t)
  BY <1>0, TreeParts
<1>3. \A m \in 1 .. Len(t) : m # 1 =>
        /\ t[m].impl2 \in Named(d) /\ At(d, t[m].impl2) = Short(t[m].dir, t[m].inode, t[m].len)
        /\ At(d, t[m].impl2).dir = t[m].dir /\ At(d, t[m].impl2).cl = t[m].inode
        /\ \A p \in 1 .. Len(t) : p # 1 /\ t[m].impl2 = t[p].impl2 => m = p
  BY <1>0, TreeParts
<1> DEFINE pl == t[n].impl2
<1>4. pl \in Named(d)
  BY <1>2, <1>3
<1>5. e = Sized(d, pl, l)
  OBVIOUS
<1> HIDE DEF pl
<1>6. /\ Formed(e) /\ (Linked(d) => Linked(e)) /\ Extends(d, e)
      /\ At(e, pl) = Short(At(d, pl).dir, At(d, pl).cl, l)
      /\ \A x \in Spots : x # pl => At(e, x) = At(d, x)
  BY <1>4, <1>5, SizeKept
<1>7. Extends(w, e)
  BY <1>6, GrowsOn
<1>8. /\ U \in Seq(Node) /\ Len(U) = Len(t) /\ Resized(U[n], t[n]) /\ U[n].len = l
      /\ \A m \in 1 .. Len(t) : m # n => U[m] = t[m]
  BY <1>1, WithLenIs
<1>9. \A m \in 1 .. Len(t) : Resized(U[m], t[m])
  BY <1>8 DEF Resized
<1>10. U[1].len = 0
  BY <1>1, <1>2, <1>8, <1>2a
<1>11. ASSUME NEW m \in 1 .. Len(t), m # 1 PROVE At(e, U[m].impl2) = Sh(U, m)
  <2>1. U[m].impl2 = t[m].impl2 /\ U[m].dir = t[m].dir /\ U[m].inode = t[m].inode
    BY <1>9 DEF Resized
  <2>2. CASE m = n
    <3>1. At(d, pl).dir = t[n].dir /\ At(d, pl).cl = t[n].inode
      BY <1>2, <1>3 DEF pl
    <3> QED BY <2>1, <2>2, <3>1, <1>6, <1>8 DEF Sh, pl
  <2>3. CASE m # n
    <3>1. U[m] = t[m]
      BY <2>3, <1>8
    <3>2. t[m].impl2 \in Named(d) /\ t[m].impl2 # pl /\ At(d, t[m].impl2) = Sh(t, m)
      BY <2>3, <1>2, <1>3, <1>11 DEF pl, Sh
    <3>3. t[m].impl2 \in Spots
      BY <1>0, <3>2, NamedAt
    <3>4. At(e, t[m].impl2) = At(d, t[m].impl2)
      BY <3>2, <3>3, <1>6
    <3> QED BY <3>1, <3>2, <3>4 DEF Sh
  <2> QED BY <2>2, <2>3
<1>12. TreeOK(e, U)
  BY <1>6, <1>8, <1>9, <1>10, <1>11, TreeMoved
<1>13. Reads(w, U)
  <2>1. DOMAIN U = DOMAIN t
    BY <1>2a, <1>8
  <2>2. \A m \in DOMAIN t : Resized(U[m], t[m])
    BY <1>2a, <1>9
  <2> QED BY <2>1, <2>2, ReadsMoved
<1> QED BY <1>6, <1>7, <1>12, <1>13

-----------------------------------------------------------------------------
\* The volume is well formed, and linked unless the power failed while a directory
\* grew; the tree is as the volume has it; and all that was on the volume when it
\* was mounted, itself well formed, is still there, and was read as it was then.
VfsIInv ==
  /\ Formed(disk) /\ (~ torn => Linked(disk))
  /\ TreeOK(disk, tree) /\ torn \in BOOLEAN /\ creates \in Nat
  /\ Extends(was, disk) /\ Reads(was, tree) /\ Formed(was)

\* The first state.
LEMMA InitInv == Init => VfsIInv
<1> SUFFICES ASSUME Init PROVE VfsIInv
  OBVIOUS
<1>1. Formed(disk) /\ Linked(disk) /\ was = disk /\ tree = Mount(disk) /\ torn = FALSE /\ creates = 0
  BY VfsAssumption DEF Init
<1>2. TreeOK(disk, Mount(disk)) /\ Reads(disk, Mount(disk))
  BY <1>1, MountKeeps
<1>3. Extends(disk, disk)
  BY <1>1, GrowsSelf
<1>4. torn \in BOOLEAN /\ ~ torn /\ creates \in Nat
  BY <1>1
<1>5. TreeOK(disk, tree) /\ Extends(was, disk) /\ Reads(was, tree) /\ Formed(was)
  BY <1>1, <1>2, <1>3
<1> QED BY <1>1, <1>4, <1>5 DEF VfsIInv

\* Every action keeps the invariant: a search,
LEMMA KopenStep ==
  ASSUME VfsIInv, NEW s \in Paths, kopen(s)
  PROVE  VfsIInv'
<1>1. Formed(disk) /\ TreeOK(disk, tree) /\ Extends(was, disk) /\ Reads(was, tree) /\ Formed(was)
  BY DEF VfsIInv
<1> DEFINE r == fs_finddir_path(disk, tree, s)
<1>2. PathLed(was, disk, s, r.tree, r.node)
  BY <1>1, PathWalk
<1> HIDE DEF r
<1>3. TreeOK(disk, r.tree) /\ Reads(was, r.tree)
  BY <1>2 DEF PathLed
<1>4. tree' = r.tree /\ disk' = disk /\ was' = was /\ torn' = torn /\ creates' = creates
  BY DEF kopen, r
<1> QED BY <1>3, <1>4 DEF VfsIInv

\* a listing,
LEMMA ReaddirStep ==
  ASSUME VfsIInv, NEW n \in DOMAIN tree, fs_readdir(n)
  PROVE  VfsIInv'
<1>1. Formed(disk) /\ TreeOK(disk, tree) /\ Extends(was, disk) /\ Reads(was, tree) /\ Formed(was)
  BY DEF VfsIInv
<1>2. n \in 1 .. Len(tree) /\ tree[n].dir
  <2>1. Typed(disk)
    BY <1>1 DEF Formed
  <2>2. DOMAIN tree = 1 .. Len(tree)
    BY <1>1, <2>1, TreeParts
  <2> QED BY <2>2 DEF fs_readdir
<1>3. TreeOK(disk, Filled(disk, tree, n)) /\ Reads(was, Filled(disk, tree, n))
  BY <1>1, <1>2, FilledKeeps
<1>4. /\ tree' = Filled(disk, tree, n)
      /\ disk' = disk /\ was' = was /\ torn' = torn /\ creates' = creates
  BY DEF fs_readdir
<1> QED BY <1>3, <1>4 DEF VfsIInv

\* a file closed,
LEMMA CloseStep ==
  ASSUME VfsIInv, NEW n \in DOMAIN tree, NEW l \in Lens, fat_close(n, l)
  PROVE  VfsIInv'
<1>1. Formed(disk) /\ TreeOK(disk, tree) /\ Extends(was, disk) /\ Reads(was, tree) /\ Formed(was)
  BY DEF VfsIInv
<1>1a. Typed(disk) /\ l \in Nat /\ ~ tree[n].dir
  BY <1>1, VfsAssumption DEF Formed, fat_close
<1>2. n \in 1 .. Len(tree)
  <2>1. DOMAIN tree = 1 .. Len(tree)
    BY <1>1, <1>1a, TreeParts
  <2> QED BY <2>1
<1>3. At(disk, tree[n].impl2).t = "short"
  <2>1. n # 1
    BY <1>1, <1>1a DEF TreeOK, Placed
  <2>2. tree[n].impl2 \in Named(disk)
    BY <1>1, <1>1a, <1>2, <2>1, TreeParts
  <2> QED BY <2>2, <1>1a, NamedAt
<1> DEFINE U == WithLen(tree, n, l)
           e == Sized(disk, tree[n].impl2, l)
<1>4. /\ tree' = U /\ disk' = e
      /\ was' = was /\ torn' = torn /\ creates' = creates
  BY <1>3 DEF fat_close, WithLen, WriteSize, Sized
<1>4a. U = WithLen(tree, n, l) /\ e = Sized(disk, tree[n].impl2, l)
  OBVIOUS
<1> HIDE DEF U, e
<1>5. Formed(e) /\ (Linked(disk) => Linked(e)) /\ Extends(was, e) /\ TreeOK(e, U) /\ Reads(was, U)
  BY <1>1, <1>1a, <1>2, <1>4a, CloseKeeps
<1> QED BY <1>4, <1>5 DEF VfsIInv

\* (each write of _add_dirent leaves a volume that is as it should be)
LEMMA CreateWrites ==
  ASSUME VfsIInv, NEW n \in DOMAIN tree, CanCreate(n), NEW fn \in NewNames, NEW dir \in BOOLEAN
  PROVE  Written(disk, _add_dirent(disk, n, fn, dir))
<1>1. Formed(disk) /\ Linked(disk) /\ TreeOK(disk, tree)
  BY DEF VfsIInv, CanCreate
<1>2. tree[n].inode \in Dirs(disk)
  <2>1. Typed(disk)
    BY <1>1 DEF Formed
  <2>2. n \in 1 .. Len(tree)
    BY <1>1, <2>1, TreeParts
  <2>3. tree[n].dir
    BY DEF CanCreate
  <2> QED BY <1>1, <2>2, <2>3, TreeDir
<1>3. PICK b, c \in Clusters : b # c /\ disk.fat[b] = 0 /\ disk.fat[c] = 0
  BY DEF CanCreate
<1>4. fn \in Names
  BY VfsAssumption
<1> QED BY <1>1, <1>2, <1>3, <1>4, CreateKept

\* a file created,
LEMMA CreateStep ==
  ASSUME VfsIInv, NEW n \in DOMAIN tree, NEW fn \in NewNames, NEW dir \in BOOLEAN,
         fs_create(n, fn, dir)
  PROVE  VfsIInv'
<1> DEFINE w == _add_dirent(disk, n, fn, dir)
           e == w[Len(w)]
<1>1. /\ Formed(disk) /\ TreeOK(disk, tree) /\ Extends(was, disk) /\ Reads(was, tree) /\ Formed(was)
      /\ creates \in Nat /\ torn \in BOOLEAN
  BY DEF VfsIInv
<1>2. /\ CanCreate(n) /\ disk' = e /\ creates' = creates + 1
      /\ tree' = tree /\ was' = was /\ torn' = torn
  BY DEF fs_create
<1>3. Written(disk, w)
  BY <1>2, CreateWrites
<1> HIDE DEF w
<1>4. Formed(e) /\ Grows(disk, e) /\ Linked(e)
  <2>1. Len(w) \in 1 .. Len(w)
    BY <1>3 DEF Written
  <2> QED BY <1>3, <2>1 DEF Written
<1> HIDE DEF e
<1>5. TreeOK(e, tree)
  BY <1>1, <1>4, TreeGrows
<1>6. Extends(was, e)
  <2>1. Extends(disk, e)
    BY <1>4 DEF Grows
  <2> QED BY <1>1, <1>4, <2>1, GrowsOn
<1>7. creates + 1 \in Nat
  BY <1>1
<1> QED BY <1>1, <1>2, <1>4, <1>5, <1>6, <1>7 DEF VfsIInv

\* Power fails: the volume is one that has grown, or the same.
LEMMA PowerFailsTo ==
  ASSUME VfsIInv, PowerFails
  PROVE  /\ \E e : Restart(e) /\ Formed(e) /\ Grows(disk, e) /\ (~ torn' => Linked(e))
         /\ torn' \in BOOLEAN /\ creates' \in Nat
<1>1. Formed(disk) /\ (~ torn => Linked(disk)) /\ creates \in Nat /\ torn \in BOOLEAN
  BY DEF VfsIInv
<1>2. CASE Restart(disk) /\ UNCHANGED << torn, creates >>
  <2>1. Grows(disk, disk)
    BY <1>1, GrowsSelf
  <2> QED BY <1>1, <1>2, <2>1
<1>3. CASE \E n \in DOMAIN tree, fn \in NewNames, dir \in BOOLEAN :
             /\ CanCreate(n) /\ creates' = creates + 1
             /\ LET w == _add_dirent(disk, n, fn, dir) IN
                \E k \in 1 .. Len(w) - 1 : Restart(w[k]) /\ torn' = (Len(w) = 5 /\ k = 1)
  <2>1. PICK n \in DOMAIN tree, fn \in NewNames, dir \in BOOLEAN :
          /\ CanCreate(n) /\ creates' = creates + 1
          /\ \E k \in 1 .. Len(_add_dirent(disk, n, fn, dir)) - 1 :
               /\ Restart(_add_dirent(disk, n, fn, dir)[k])
               /\ torn' = (Len(_add_dirent(disk, n, fn, dir)) = 5 /\ k = 1)
    BY <1>3, Zenon
  <2> DEFINE w == _add_dirent(disk, n, fn, dir)
  <2>2. Written(disk, w)
    BY <2>1, CreateWrites
  <2>3. PICK k \in 1 .. Len(w) - 1 : Restart(w[k]) /\ torn' = (Len(w) = 5 /\ k = 1)
    BY <2>1
  <2> HIDE DEF w
  <2>4. k \in 1 .. Len(w)
    BY <2>2 DEF Written
  <2>5. Formed(w[k]) /\ Grows(disk, w[k]) /\ (Linked(w[k]) \/ (Len(w) = 5 /\ k = 1))
    BY <2>2, <2>4 DEF Written
  <2>6. torn' \in BOOLEAN /\ (~ torn' => Linked(w[k]))
    BY <2>3, <2>5
  <2>7. creates' \in Nat
    BY <1>1, <2>1
  <2> QED BY <2>3, <2>5, <2>6, <2>7
<1> QED BY <1>2, <1>3 DEF PowerFails

\* a restart.
LEMMA PowerStep ==
  ASSUME VfsIInv, PowerFails
  PROVE  VfsIInv'
<1>1. PICK e : Restart(e) /\ Formed(e) /\ Grows(disk, e) /\ (~ torn' => Linked(e))
  BY PowerFailsTo
<1>2. torn' \in BOOLEAN /\ creates' \in Nat
  BY PowerFailsTo
<1>3. disk' = e /\ was' = e /\ tree' = Mount(e)
  BY <1>1 DEF Restart
<1>4. TreeOK(e, Mount(e)) /\ Reads(e, Mount(e)) /\ Extends(e, e)
  BY <1>1, MountKeeps, GrowsSelf
<1> QED BY <1>1, <1>2, <1>3, <1>4 DEF VfsIInv

\* Every step does.
LEMMA StepInv == VfsIInv /\ [Next]_vars => VfsIInv'
<1> SUFFICES ASSUME VfsIInv, [Next]_vars PROVE VfsIInv'
  OBVIOUS
<1>1. CASE \E s \in Paths : kopen(s)
  BY <1>1, KopenStep
<1>2. ASSUME NEW n \in DOMAIN tree, fs_readdir(n) PROVE VfsIInv'
  BY <1>2, ReaddirStep
<1>3. ASSUME NEW n \in DOMAIN tree, NEW l \in Lens, fat_close(n, l) PROVE VfsIInv'
  BY <1>3, CloseStep
<1>4. ASSUME NEW n \in DOMAIN tree, NEW fn \in NewNames, NEW dir \in BOOLEAN, fs_create(n, fn, dir)
      PROVE  VfsIInv'
  BY <1>4, CreateStep
<1>5. CASE PowerFails
  BY <1>5, PowerStep
<1>6. CASE UNCHANGED vars
  BY <1>6 DEF vars, VfsIInv
<1> QED BY <1>1, <1>2, <1>3, <1>4, <1>5, <1>6 DEF Next

\* VfsIInv holds in every state: whatever is opened, listed, closed and created
\* (fs.c:98 to 212, fat.c:123 to 640), and whenever the power fails meanwhile.
THEOREM VfsInvariant == Spec => []VfsIInv
BY InitInv, StepInv, PTL DEF Spec

\* What the invariant says of the volume and the tree.
LEMMA SoundDisk == VfsIInv => EntriesSound
<1> SUFFICES ASSUME VfsIInv, ~ torn PROVE
      /\ Followed(disk)
      /\ \A pl, ql \in Named(disk) :
           LET b == At(disk, pl).cl  c == At(disk, ql).cl IN
           b # 0 /\ c # 0 =>
             /\ b = c => pl = ql
             /\ b # c => ToSet(ChainFrom(disk, b)) \cap ToSet(ChainFrom(disk, c)) = {}
             /\ c \notin ToSet(ChainFrom(disk, RootCl))
  BY DEF EntriesSound
<1>1. Formed(disk) /\ Linked(disk)
  BY DEF VfsIInv
<1> QED BY <1>1, DiskSound DEF Apart

\* Every name on the volume is followed by its entry, and no cluster belongs to two
\* files: _add_dirent (fat.c:123) finds room, grows a directory and takes a cluster
\* for the file in one call, without giving anything away twice.
THEOREM VfsEntriesSound == Spec => []EntriesSound
BY VfsInvariant, SoundDisk, PTL

\* A node is of what is at its place.
LEMMA TreeSound == VfsIInv => TreeShowsDisk
<1> SUFFICES ASSUME VfsIInv, NEW n \in DOMAIN tree
             PROVE  LET f == tree[n].first  es == Entries(disk, tree[n].inode) IN
                    f # << >> =>
                      /\ Len(f) <= Len(es)
                      /\ \A i \in DOMAIN f :
                           /\ f[i].name = es[i].name
                           /\ IF f[i].node = NULL THEN es[i].at = {}
                              ELSE LET x == tree[f[i].node] IN
                                   /\ es[i].at = { x.impl2 } /\ x.name = f[i].name
                                   /\ At(disk, x.impl2) = Short(x.dir, x.inode, x.len)
  BY DEF TreeShowsDisk
<1> DEFINE f == tree[n].first
           es == Entries(disk, tree[n].inode)
<1> SUFFICES ASSUME f # << >>
             PROVE  /\ Len(f) <= Len(es)
                    /\ \A i \in DOMAIN f :
                         /\ f[i].name = es[i].name
                         /\ IF f[i].node = NULL THEN es[i].at = {}
                            ELSE LET x == tree[f[i].node] IN
                                 /\ es[i].at = { x.impl2 } /\ x.name = f[i].name
                                 /\ At(disk, x.impl2) = Short(x.dir, x.inode, x.len)
  OBVIOUS
<1>1. TreeOK(disk, tree)
  BY DEF VfsIInv
<1>2. /\ Len(f) <= Len(es)
      /\ \A i \in DOMAIN f :
           /\ f[i].name = es[i].name /\ f[i].node \in {NULL} \cup 2 .. Len(tree)
           /\ f[i].node = NULL => es[i].at = {}
           /\ f[i].node # NULL => es[i].at = { tree[f[i].node].impl2 } /\ tree[f[i].node].name = f[i].name
  BY <1>1 DEF TreeOK, Listed
<1>3. \A m \in 2 .. Len(tree) :
        At(disk, tree[m].impl2) = Short(tree[m].dir, tree[m].inode, tree[m].len)
  BY <1>1 DEF TreeOK, Placed
<1> HIDE DEF f, es
<1> QED BY <1>2, <1>3

\* A directory that was read shows what is on the volume: _read_dir32 (fat.c:249)
\* puts each name with its own entry, and no later call, not fat_close (fat.c:481)
\* nor _add_dirent, makes the nodes differ from what is there.
THEOREM VfsTreeShowsDisk == Spec => []TreeShowsDisk
BY VfsInvariant, TreeSound, PTL

\* What a path that was followed finds.
LEMMA FoundIs ==
  ASSUME NEW d, NEW t, NEW s, NEW r, r = fs_finddir_path(d, t, s)
  PROVE  Found(d, t, s) = IF r.node = 0 THEN {} ELSE { Sh(r.tree, r.node) }
BY DEF Found, Sh, NULL

\* A search in this state.
LEMMA PathsSound == VfsIInv => PathsLead
<1> SUFFICES ASSUME VfsIInv, NEW s \in Paths
             PROVE  /\ Found(disk, tree, s) \subseteq ToDisk(disk, s)
                    /\ ToDisk(was, s) # {} => Found(disk, tree, s) # {}
  BY DEF PathsLead
<1>1. Formed(disk) /\ TreeOK(disk, tree) /\ Extends(was, disk) /\ Reads(was, tree) /\ Formed(was)
  BY DEF VfsIInv
<1> DEFINE r == fs_finddir_path(disk, tree, s)
<1>2. PathLed(was, disk, s, r.tree, r.node)
  BY <1>1, PathWalk
<1>3. Found(disk, tree, s) = IF r.node = 0 THEN {} ELSE { Sh(r.tree, r.node) }
  BY FoundIs
<1> HIDE DEF r
<1>4. Seen(r.tree, r.node, ToDisk(disk, s)) /\ LedTo(was, r.tree, r.node, ToDisk(was, s))
  BY <1>2 DEF PathLed
<1> QED BY <1>3, <1>4 DEF Seen, LedTo

\* fs_finddir_path (fs.c:181) leads where the volume says, for every path, and
\* finds for ever what was there when the volume was mounted.
THEOREM VfsPathsLead == Spec => []PathsLead
BY VfsInvariant, PathsSound, PTL

\* A search after a restart.
LEMMA PowerSound ==
  ASSUME VfsIInv, PowerFails, NEW s \in Paths
  PROVE  ToDisk(disk, s) \subseteq Found(disk', tree', s)
<1>1. PICK e : Restart(e) /\ Formed(e) /\ Grows(disk, e)
  BY PowerFailsTo
<1>2. disk' = e /\ tree' = Mount(e)
  BY <1>1 DEF Restart
<1>3. Formed(disk) /\ Extends(disk, e)
  BY <1>1 DEF VfsIInv, Grows
<1> DEFINE t == Mount(e)
<1>4. TreeOK(e, t) /\ Reads(e, t)
  BY <1>1, MountKeeps
<1> HIDE DEF t
<1>5. Reads(disk, t)
  <2>1. \A n \in DOMAIN t : t[n].inode \in Dirs(disk) =>
          /\ t[n].inode \in Dirs(e)
          /\ Len(Entries(disk, t[n].inode)) \in Nat /\ Len(Entries(e, t[n].inode)) \in Nat
          /\ Len(Entries(disk, t[n].inode)) <= Len(Entries(e, t[n].inode))
    <3> SUFFICES ASSUME NEW c, c \in Dirs(disk)
                 PROVE  /\ c \in Dirs(e) /\ Len(Entries(disk, c)) \in Nat /\ Len(Entries(e, c)) \in Nat
                        /\ Len(Entries(disk, c)) <= Len(Entries(e, c))
      BY Zenon
    <3>1. c \in 0 .. MaxCl /\ Typed(disk) /\ Typed(e)
      BY <1>1, <1>3, FormedChains DEF Formed
    <3>2. Len(Entries(disk, c)) \in Nat /\ Len(Entries(e, c)) \in Nat
      BY <3>1, EntriesSeq
    <3>3. Len(Entries(disk, c)) <= Len(Entries(e, c))
      BY <1>3 DEF Extends
    <3>4. c \in Dirs(e)
      <4>1. CASE c = RootCl
        BY <4>1 DEF Dirs
      <4>2. CASE c # RootCl
        <5>1. PICK pl \in Named(disk) : At(disk, pl).dir /\ c = At(disk, pl).cl
          BY <4>2 DEF Dirs
        <5>2. pl \in Named(e) /\ At(e, pl).dir /\ c = At(e, pl).cl
          BY <5>1, <1>3 DEF Extends
        <5> QED BY <5>2 DEF Dirs
      <4> QED BY <4>1, <4>2
    <3> QED BY <3>2, <3>3, <3>4
  <2>2. \A n \in DOMAIN t : Len(t[n].first) \in Nat
    <3>1. Typed(e)
      BY <1>1 DEF Formed
    <3> QED BY <3>1, <1>4, TreeParts
  <2> QED BY <1>4, <2>1, <2>2 DEF Reads
<1> DEFINE r == fs_finddir_path(e, t, s)
<1>6. PathLed(disk, e, s, r.tree, r.node)
  BY <1>1, <1>3, <1>4, <1>5, PathWalk
<1>7. Found(e, t, s) = IF r.node = 0 THEN {} ELSE { Sh(r.tree, r.node) }
  BY FoundIs
<1> HIDE DEF r
<1> DEFINE T == r.tree
           m == r.node
<1>8. TreeOK(e, T) /\ m \in {0} \cup 1 .. Len(T) /\ LedTo(disk, T, m, ToDisk(disk, s))
  BY <1>6 DEF PathLed
<1> HIDE DEF T, m
<1>9. CASE m = 1 /\ ToDisk(disk, s) = {Root}
  <2>1. Sh(T, 1) = Root
    BY <1>8 DEF Sh, Root, TreeOK, Placed, Short
  <2> QED BY <1>2, <1>7, <1>9, <2>1 DEF T, m, t
<1>10. CASE m # 0 /\ m # 1 /\ T[m].impl2 \in Named(disk) /\ ToDisk(disk, s) = {At(disk, T[m].impl2)}
  <2>1. At(e, T[m].impl2) = At(disk, T[m].impl2)
    BY <1>1, <1>10 DEF Grows
  <2>2. At(e, T[m].impl2) = Sh(T, m)
    <3>1. Typed(e)
      BY <1>1 DEF Formed
    <3> QED BY <3>1, <1>8, <1>10, TreeParts DEF Sh
  <2> QED BY <1>2, <1>7, <1>10, <2>1, <2>2 DEF T, m, t
<1> QED BY <1>8, <1>9, <1>10 DEF LedTo

\* After a power failure between any two writes of _add_dirent (fat.c:123 to 247)
\* every file that was on the volume is found, of its kind and length.
THEOREM VfsPowerLossKeeps == Spec => PowerLossKeeps
<1>1. VfsIInv /\ [Next]_vars => [PowerFails => \A s \in Paths : ToDisk(disk, s) \subseteq Found(disk', tree', s)]_vars
  BY PowerSound
<1> QED BY <1>1, VfsInvariant, PTL DEF Spec, PowerLossKeeps
================================================================================
