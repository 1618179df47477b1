----------------------------- MODULE PipelineProofs -----------------------------
(*****************************************************************************)
(* Theorems about Pipeline, for every number of SUTs, VIFs, tunnel ports and *)
(* frames, and every mode of deployment.                                     *)
(*****************************************************************************)
EXTENDS Pipeline, WellFoundedInduction, TLAPS

-------------------------------------------------------------------------------
(* Induction, and what FlattenSeq computes. *)

\* A set of naturals has a least element.
LEMMA LeastNat ==
  ASSUME NEW T \in SUBSET Nat, T # {}
  PROVE  \E x \in T : \A y \in T : x <= y
<1> DEFINE R == OpToRel(<, Nat)
<1>1. IsWellFoundedOn(R, Nat)
  BY NatLessThanWellFounded, Zenon
<1>2. \E x \in T : \A y \in T : ~(<<y, x>> \in R)
  <2> HIDE DEF R
  <2> QED
    BY <1>1, WFMin, Zenon
<1>3. \A x, y \in Nat : ~(<<y, x>> \in R) => x <= y
  BY DEF OpToRel
<1> HIDE DEF R
<1> QED
  BY <1>2, <1>3

\* Induction: a set with 0 and, with n, n + 1, holds every natural.
LEMMA SetInduction ==
  ASSUME NEW S, 0 \in S, \A n \in Nat : n \in S => n + 1 \in S
  PROVE  \A n \in Nat : n \in S
<1> SUFFICES ASSUME NEW m \in Nat, m \notin S PROVE FALSE
  OBVIOUS
<1> DEFINE T == {n \in Nat : n \notin S}
<1>1. PICK x \in T : \A y \in T : x <= y
  <2>1. T \in SUBSET Nat /\ T # {}
    OBVIOUS
  <2> HIDE DEF T
  <2> QED
    BY <2>1, LeastNat
<1>2. x \in Nat /\ x # 0 /\ x \notin S
  BY <1>1
<1>3. x - 1 \in Nat /\ x - 1 \notin T
  BY <1>1, <1>2
<1>4. (x - 1) + 1 \in S
  BY <1>2, <1>3
<1> QED
  BY <1>2, <1>4

\* The recursion of FlattenSeq: the function it is taken from exists, and stays in a set
\* that is closed under concatenation.
LEMMA FlattenStages ==
  ASSUME NEW G, \A a, b \in G : a \o b \in G, NEW seqs \in Seq(G), Len(seqs) > 0
  PROVE  \E f \in [1..Len(seqs) -> G] :
           /\ \A i \in 1..Len(seqs) : f[i] = IF i = 1 THEN seqs[1] ELSE f[i - 1] \o seqs[i]
           /\ FlattenSeq(seqs) = f[Len(seqs)]
<1> DEFINE Stages(f, n) == \A i \in 1..n : f[i] = IF i = 1 THEN seqs[1] ELSE f[i - 1] \o seqs[i]
           S == {n \in Nat : n <= Len(seqs) => \E f \in [1..n -> G] : Stages(f, n)}
<1>1. Len(seqs) \in Nat /\ \A i \in 1..Len(seqs) : seqs[i] \in G
  OBVIOUS
<1>2. 0 \in S
  <2>1. \A f : Stages(f, 0)
    OBVIOUS
  <2>2. [i \in 1..0 |-> seqs[1]] \in [1..0 -> G]
    OBVIOUS
  <2> QED
    BY <2>1, <2>2
<1>3. ASSUME NEW n \in Nat, n \in S PROVE n + 1 \in S
  <2> SUFFICES ASSUME n + 1 <= Len(seqs) PROVE \E f \in [1..(n + 1) -> G] : Stages(f, n + 1)
    OBVIOUS
  <2>1. PICK f \in [1..n -> G] : Stages(f, n)
    BY <1>1, <1>3
  <2> DEFINE last == IF n = 0 THEN seqs[1] ELSE f[n] \o seqs[n + 1]
             g == [i \in 1..(n + 1) |-> IF i <= n THEN f[i] ELSE last]
  <2>2. last \in G
    BY <1>1, <2>1
  <2>3. g \in [1..(n + 1) -> G]
    BY <2>1, <2>2
  <2>4. ASSUME NEW i \in 1..(n + 1) PROVE g[i] = IF i = 1 THEN seqs[1] ELSE g[i - 1] \o seqs[i]
    <3>1. CASE i <= n
      <4>1. i \in 1..n /\ (i # 1 => i - 1 \in 1..n /\ i - 1 <= n /\ i - 1 \in 1..(n + 1))
        BY <3>1
      <4>2. f[i] = IF i = 1 THEN seqs[1] ELSE f[i - 1] \o seqs[i]
        BY <2>1, <4>1, Zenon
      <4>3. g[i] = f[i] /\ (i # 1 => g[i - 1] = f[i - 1])
        BY <3>1, <4>1, Zenon
      <4> QED
        BY <4>2, <4>3, Zenon
    <3>2. CASE i = n + 1
      <4>1. g[i] = last
        BY <3>2
      <4>2. n # 0 => g[i - 1] = f[n]
        BY <3>2
      <4> QED
        BY <3>2, <4>1, <4>2
    <3> QED
      BY <3>1, <3>2
  <2> QED
    BY <2>3, <2>4
<1>4. Len(seqs) \in S
  <2> HIDE DEF S
  <2> QED
    BY <1>1, <1>2, <1>3, SetInduction
<1>5. PICK f \in [1..Len(seqs) -> G] : Stages(f, Len(seqs))
  BY <1>1, <1>4
<1> DEFINE n == Len(seqs)
           Def(h) == [i \in 1..n |-> IF i = 1 THEN seqs[i] ELSE h[i - 1] \o seqs[i]]
           flatten == CHOOSE h : h = Def(h)
<1>6. f = Def(f)
  BY <1>5
<1>7. flatten = Def(flatten)
  <2> HIDE DEF Def
  <2> QED
    BY <1>6, Zenon
<1>8. FlattenSeq(seqs) = flatten[n]
  <2>1. Len(seqs) # 0
    BY <1>1
  <2> QED
    BY <2>1, Zenon DEF FlattenSeq
<1>9. \A i \in 1..n : flatten[i] = IF i = 1 THEN seqs[1] ELSE flatten[i - 1] \o seqs[i]
  <2> HIDE DEF flatten
  <2> QED
    BY <1>7
<1> HIDE DEF flatten
<1>10. \A i \in Nat : i \in {j \in Nat : j \in 1..n => flatten[j] = f[j]}
  <2> DEFINE A == {j \in Nat : j \in 1..n => flatten[j] = f[j]}
  <2>1. 0 \in A
    OBVIOUS
  <2>2. ASSUME NEW j \in Nat, j \in A PROVE j + 1 \in A
    <3> SUFFICES ASSUME j + 1 \in 1..n PROVE flatten[j + 1] = f[j + 1]
      OBVIOUS
    <3>1. j = 0 \/ (j \in 1..n /\ flatten[j] = f[j])
      BY <1>1, <2>2
    <3>2. (j + 1) - 1 = j /\ (j + 1 = 1 <=> j = 0)
      OBVIOUS
    <3>3. j + 1 \in 1..n => f[j + 1] = IF j = 0 THEN seqs[1] ELSE f[j] \o seqs[j + 1]
      <4>1. j + 1 \in 1..n => f[j + 1] = IF j + 1 = 1 THEN seqs[1] ELSE f[(j + 1) - 1] \o seqs[j + 1]
        BY <1>5, Zenon
      <4> QED
        BY <4>1, <3>2, Zenon
    <3>4. j + 1 \in 1..n => flatten[j + 1] = IF j = 0 THEN seqs[1] ELSE flatten[j] \o seqs[j + 1]
      <4>1. j + 1 \in 1..n => flatten[j + 1] = IF j + 1 = 1 THEN seqs[1] ELSE flatten[(j + 1) - 1] \o seqs[j + 1]
        BY <1>9, Zenon
      <4> QED
        BY <4>1, <3>2, Zenon
    <3> QED
      BY <3>1, <3>3, <3>4, Zenon
  <2>3. \A i \in Nat : i \in A
    <3> HIDE DEF A
    <3> QED
      BY <2>1, <2>2, SetInduction
  <2> QED
    BY <2>3
<1>11. n \in Nat /\ n \in 1..n
  BY <1>1
<1>12. flatten[n] = f[n]
  BY <1>10, <1>11, Zenon
<1> QED
  BY <1>5, <1>8, <1>12, Zenon

\* The concatenation of sequences of a set that is closed under it is in the set.
LEMMA FlattenInto ==
  ASSUME NEW X, NEW seq \in Seq(X), NEW G, <<>> \in G, \A a, b \in G : a \o b \in G,
         NEW g \in [DOMAIN seq -> G]
  PROVE  FlattenSeq(g) \in G
<1>1. g \in Seq(G)
  OBVIOUS
<1>2. CASE Len(g) = 0
  <2>1. g = <<>>
    BY <1>1, <1>2
  <2>2. FlattenSeq(g) = g
    BY <1>2, Zenon DEF FlattenSeq
  <2> QED
    BY <2>1, <2>2
<1>3. CASE Len(g) > 0
  <2>1. PICK f \in [1..Len(g) -> G] : FlattenSeq(g) = f[Len(g)]
    BY <1>1, <1>3, FlattenStages
  <2>2. Len(g) \in 1..Len(g)
    BY <1>1, <1>3
  <2> QED
    BY <2>1, <2>2
<1> QED
  BY <1>1, <1>2, <1>3

\* What is in every one of the sequences is in their concatenation: element types.
LEMMA FlattenSeqOf ==
  ASSUME NEW X, NEW seq \in Seq(X), NEW T, NEW g \in [DOMAIN seq -> Seq(T)]
  PROVE  FlattenSeq(g) \in Seq(T)
<1>1. <<>> \in Seq(T) /\ \A a, b \in Seq(T) : a \o b \in Seq(T)
  OBVIOUS
<1> QED
  BY <1>1, FlattenInto

\* A concatenation has the type of its parts.
LEMMA ConcatSeq ==
  ASSUME NEW T, NEW a \in Seq(T), NEW b \in Seq(T)
  PROVE  a \o b \in Seq(T)
  OBVIOUS

\* The elements of a concatenation.
LEMMA ConcatHolds ==
  ASSUME NEW T, NEW a \in Seq(T), NEW b \in Seq(T)
  PROVE  /\ \A i \in DOMAIN a : i \in DOMAIN (a \o b) /\ (a \o b)[i] = a[i]
         /\ \A j \in DOMAIN b : Len(a) + j \in DOMAIN (a \o b) /\ (a \o b)[Len(a) + j] = b[j]
  OBVIOUS

\* No element is lost by FlattenSeq.
LEMMA FlattenHolds ==
  ASSUME NEW T, NEW g \in Seq(Seq(T)), NEW k \in 1..Len(g), NEW j \in DOMAIN g[k]
  PROVE  \E i \in DOMAIN FlattenSeq(g) : FlattenSeq(g)[i] = g[k][j]
<1>1. /\ g \in Seq(Seq(T)) /\ Len(g) \in Nat /\ Len(g) > 0 /\ k \in 1..Len(g)
      /\ \A a, b \in Seq(T) : a \o b \in Seq(T)
      /\ \A i \in 1..Len(g) : g[i] \in Seq(T)
  OBVIOUS
<1>2. PICK f \in [1..Len(g) -> Seq(T)] :
        /\ \A i \in 1..Len(g) : f[i] = IF i = 1 THEN g[1] ELSE f[i - 1] \o g[i]
        /\ FlattenSeq(g) = f[Len(g)]
  BY <1>1, FlattenStages
<1> DEFINE Has(n) == \E i \in DOMAIN f[n] : f[n][i] = g[k][j]
           S == {n \in Nat : n \in k..Len(g) => Has(n)}
<1>3. Has(k)
  <2>1. CASE k = 1
    BY <1>1, <1>2, <2>1
  <2>2. CASE k # 1
    <3>1. k - 1 \in 1..Len(g)
      BY <1>1, <2>2
    <3>2. f[k] = f[k - 1] \o g[k]
      BY <1>1, <1>2, <2>2, Zenon
    <3>3. f[k - 1] \in Seq(T) /\ g[k] \in Seq(T)
      BY <1>1, <1>2, <3>1, Zenon
    <3>4. PICK a \in Seq(T) : a = f[k - 1]
      BY <3>3
    <3>5. PICK b \in Seq(T) : b = g[k]
      BY <3>3
    <3>6. j \in DOMAIN b /\ f[k] = a \o b
      BY <3>2, <3>4, <3>5, Zenon
    <3>7. Len(a) + j \in DOMAIN (a \o b) /\ (a \o b)[Len(a) + j] = b[j]
      BY <3>6, ConcatHolds, SMTT(30)
    <3> QED
      BY <3>5, <3>6, <3>7, Zenon
  <2> QED
    BY <2>1, <2>2
<1>4. 0 \in S
  BY <1>1
<1>5. ASSUME NEW n \in Nat, n \in S PROVE n + 1 \in S
  <2> SUFFICES ASSUME n + 1 \in k..Len(g), n + 1 # k PROVE Has(n + 1)
    BY <1>3
  <2>1. n \in k..Len(g) /\ n \in 1..Len(g) /\ n + 1 \in 1..Len(g) /\ n + 1 # 1 /\ (n + 1) - 1 = n
    BY <1>1
  <2>2. PICK i \in DOMAIN f[n] : f[n][i] = g[k][j]
    BY <1>5, <2>1
  <2>3. f[n + 1] = f[(n + 1) - 1] \o g[n + 1]
    BY <1>2, <2>1, Zenon
  <2>4. PICK a \in Seq(T) : a = f[n]
    BY <1>2, <2>1, Zenon
  <2>5. PICK b \in Seq(T) : b = g[n + 1]
    BY <1>1, <2>1, Zenon
  <2>6. i \in DOMAIN a /\ f[n + 1] = a \o b
    BY <2>1, <2>2, <2>3, <2>4, <2>5, Zenon
  <2>7. i \in DOMAIN (a \o b) /\ (a \o b)[i] = a[i]
    BY <2>6, ConcatHolds
  <2> QED
    BY <2>2, <2>4, <2>6, <2>7, Zenon
<1>6. Len(g) \in S
  <2> HIDE DEF S
  <2> QED
    BY <1>1, <1>4, <1>5, SetInduction
<1> QED
  BY <1>1, <1>2, <1>6

\* A bounded set of naturals has a largest element.
LEMMA LargestNat ==
  ASSUME NEW T \in SUBSET Nat, T # {}, NEW n \in Nat, \A x \in T : x <= n
  PROVE  \E x \in T : \A y \in T : y <= x
<1> DEFINE U == {n - x : x \in T}
<1>1. U \in SUBSET Nat /\ U # {}
  <2>1. \A x \in T : n - x \in Nat
    OBVIOUS
  <2> QED
    BY <2>1, Zenon
<1>2. PICK u \in U : \A v \in U : u <= v
  <2> HIDE DEF U
  <2> QED
    BY <1>1, LeastNat
<1>3. PICK x \in T : u = n - x
  BY <1>2
<1>4. ASSUME NEW y \in T PROVE y <= x
  <2>1. n - x <= n - y
    BY <1>2, <1>3
  <2> QED
    BY <2>1
<1> QED
  BY <1>4

-------------------------------------------------------------------------------
(* Port numbers and VNIs. *)

\* The VIFs, SUT by SUT.
LEMMA VifsAre ==
  /\ \A x \in Vifs : x[1] \in Suts /\ x[2] \in Range(VifsOf[x[1]]) /\ x = <<x[1], x[2]>>
  /\ \A s \in Suts : \A v \in Range(VifsOf[s]) : v \in Nat /\ <<s, v>> \in Vifs
<1>1. \A s \in Suts : \A v \in Range(VifsOf[s]) : v \in Nat
  BY PipelineAssumption DEF Range
<1>2. \A x \in Vifs : x[1] \in Suts /\ x[2] \in Range(VifsOf[x[1]]) /\ x = <<x[1], x[2]>>
  BY DEF Vifs
<1>3. \A s \in Suts : \A v \in Range(VifsOf[s]) : <<s, v>> \in Vifs
  BY DEF Vifs
<1> QED
  BY <1>1, <1>2, <1>3

\* The numbers of local ports, uplinks and tunnel ports are apart.
LEMMA PortNumbers ==
  /\ \A s \in Suts : \A v \in Range(VifsOf[s]) : Ofp(v) \in Locals(s) /\ Ofp(v) \in Nat /\ Ofp(v) >= 10
  /\ \A s \in Suts : Locals(s) \subseteq Nat /\ Locals(s) \cap Externals = {}
  /\ Externals \subseteq Nat /\ Range(TunnelIds) \subseteq Externals
  /\ 0 \notin Externals /\ OFP_UPLINK_BASE \notin Range(TunnelIds)
<1>1. /\ TunnelIds \in Seq(Nat)
      /\ \A i \in DOMAIN TunnelIds : TunnelIds[i] > 10 /\ \A x \in Vifs : TunnelIds[i] # Ofp(x[2])
  BY PipelineAssumption DEF OFP_VHOST_BASE
<1>2. \A s \in Suts : \A v \in Range(VifsOf[s]) : Ofp(v) \in Locals(s) /\ Ofp(v) \in Nat /\ Ofp(v) >= 10
  <2> SUFFICES ASSUME NEW s \in Suts, NEW v \in Range(VifsOf[s])
               PROVE  Ofp(v) \in Locals(s) /\ Ofp(v) \in Nat /\ Ofp(v) >= 10
    OBVIOUS
  <2>1. v \in Nat
    BY VifsAre
  <2>2. Ofp(v) \in Locals(s)
    BY DEF Locals
  <2> QED
    BY <2>1, <2>2 DEF Ofp, OFP_VHOST_BASE
<1>3. \A t \in Range(TunnelIds) : t \in Nat /\ t > 10
  BY <1>1 DEF Range
<1>4. ASSUME NEW s \in Suts, NEW v \in Range(VifsOf[s]) PROVE Ofp(v) \notin Range(TunnelIds)
  <2>1. PICK x \in Vifs : x[2] = v
    BY VifsAre
  <2> QED
    BY <1>1, <2>1 DEF Range
<1>5. \A s \in Suts : Locals(s) \subseteq Nat
  BY <1>2 DEF Locals, OFP_LOCAL
<1>6. \A s \in Suts : Locals(s) \cap Externals = {}
  BY <1>2, <1>3, <1>4 DEF Locals, OFP_LOCAL, Externals, OFP_UPLINK_BASE
<1>7. /\ Externals \subseteq Nat /\ Range(TunnelIds) \subseteq Externals
      /\ 0 \notin Externals /\ OFP_UPLINK_BASE \notin Range(TunnelIds)
  BY <1>3 DEF Externals, OFP_UPLINK_BASE
<1> QED
  BY <1>2, <1>5, <1>6, <1>7

\* VNIs by index are positive, and VNI_NONE is what the others have.
LEMMA VniValue ==
  ASSUME assigned \in BOOLEAN
  PROVE  /\ \A s \in Suts : \A p \in Locals(s) : Vni(p) \in Nat /\ (~assigned => Vni(p) = VNI_NONE)
         /\ \A s \in Suts : \A v \in Range(VifsOf[s]) :
              Vni(Ofp(v)) \in Vnis /\ (assigned => Vni(Ofp(v)) # VNI_NONE)
         /\ Vnis \subseteq Nat /\ (~assigned => Vnis \subseteq {VNI_NONE})
         /\ assigned => VNI_NONE \notin Vnis
<1> USE DEF Vni, Ofp, OFP_VHOST_BASE, OFP_LOCAL, VNI_NONE
<1>1. ASSUME NEW s \in Suts, NEW v \in Range(VifsOf[s])
      PROVE  Vni(Ofp(v)) \in Nat /\ (~assigned => Vni(Ofp(v)) = 0) /\ (assigned => Vni(Ofp(v)) # 0)
  <2>1. v \in Nat
    BY VifsAre
  <2> QED
    BY <2>1
<1>2. Vni(0) \in Nat /\ Vni(0) = 0
  OBVIOUS
<1> HIDE DEF Vni, Ofp
<1>3. \A s \in Suts : \A p \in Locals(s) : Vni(p) \in Nat /\ (~assigned => Vni(p) = VNI_NONE)
  BY <1>1, <1>2 DEF Locals
<1>4. \A s \in Suts : \A v \in Range(VifsOf[s]) : Vni(Ofp(v)) \in Vnis
  <2> SUFFICES ASSUME NEW s \in Suts, NEW v \in Range(VifsOf[s]) PROVE Vni(Ofp(v)) \in Vnis
    OBVIOUS
  <2>1. PICK x \in Vifs : x[2] = v
    BY VifsAre
  <2> QED
    BY <2>1 DEF Vnis
<1>5. \A n \in Vnis : \E s \in Suts : \E v \in Range(VifsOf[s]) : n = Vni(Ofp(v))
  BY VifsAre DEF Vnis
<1> QED
  BY <1>1, <1>3, <1>4, <1>5

-------------------------------------------------------------------------------
(* The lists that the flows and ports are made from. *)

\* The other SUTs.
LEMMA RemotesAre ==
  ASSUME NEW s \in Suts
  PROVE  Remotes(s) \in Seq(Suts \ {s})
<1> DEFINE seq == [i \in Suts |-> i]
           g == [i \in DOMAIN seq |-> IF seq[i] = s THEN <<>> ELSE <<seq[i]>>]
<1>1. seq \in Seq(Suts)
  BY PipelineAssumption DEF Suts
<1>2. g \in [DOMAIN seq -> Seq(Suts \ {s})]
  <2> DEFINE T == Suts \ {s}
  <2>1. \A i \in Suts : i # s => i \in T
    OBVIOUS
  <2> HIDE DEF T
  <2>2. <<>> \in Seq(T) /\ \A i \in Suts : i # s => <<i>> \in Seq(T)
    BY <2>1
  <2>3. g \in [DOMAIN seq -> Seq(T)]
    BY <2>2
  <2> QED
    BY <2>3 DEF T
<1>3. Remotes(s) = FlattenSeq(g)
  BY DEF Remotes, ForEach
<1> HIDE DEF seq, g
<1> QED
  BY <1>1, <1>2, <1>3, FlattenSeqOf

\* The VNIs of a bridge are those of its VIFs.
LEMMA VniKeysAre ==
  ASSUME TypeOK, NEW s \in Suts
  PROVE  VniKeys(s) \in Seq({Vni(p) : p \in Range(vifs[s])})
<1> DEFINE N == {Vni(p) : p \in Range(vifs[s])}
           seq == [i \in DOMAIN vifs[s] |-> i]
           g == [i \in DOMAIN seq |->
                  IF \E j \in 1..(seq[i] - 1) : Vni(vifs[s][j]) = Vni(vifs[s][seq[i]])
                    THEN <<>> ELSE <<Vni(vifs[s][seq[i]])>>]
<1>0. vifs[s] \in Seq(Nat)
  BY DEF TypeOK
<1>1. seq \in Seq(DOMAIN vifs[s])
  BY <1>0
<1>2. \A i \in DOMAIN seq : Vni(vifs[s][seq[i]]) \in N
  BY DEF Range
<1>3. g \in [DOMAIN seq -> Seq(N)]
  <2> HIDE DEF N, seq
  <2>1. \A i \in DOMAIN seq : <<Vni(vifs[s][seq[i]])>> \in Seq(N) /\ <<>> \in Seq(N)
    BY <1>2
  <2> QED
    BY <2>1, Zenon
<1>4. VniKeys(s) = FlattenSeq(g)
  BY DEF VniKeys, ForEach
<1> HIDE DEF seq, g
<1> QED
  BY <1>1, <1>3, <1>4, FlattenSeqOf

\* The VIFs of a VNI.
LEMMA LocalOfpsAre ==
  ASSUME TypeOK, Ports, NEW s \in Suts, NEW n
  PROVE  LocalOfps(s, n) \in Seq({p \in Locals(s) : Vni(p) = n})
<1> DEFINE T == {p \in Locals(s) : Vni(p) = n}
           g == [i \in DOMAIN vifs[s] |-> IF Vni(vifs[s][i]) = n THEN <<vifs[s][i]>> ELSE <<>>]
<1>1. vifs[s] \in Seq(Nat)
  BY DEF TypeOK
<1>2. \A i \in DOMAIN vifs[s] : vifs[s][i] \in Locals(s)
  BY DEF Ports, SutPorts, Range
<1>3. \A i \in DOMAIN vifs[s] : Vni(vifs[s][i]) = n => <<vifs[s][i]>> \in Seq(T)
  BY <1>2
<1>4. g \in [DOMAIN vifs[s] -> Seq(T)]
  <2>1. <<>> \in Seq(T)
    OBVIOUS
  <2> HIDE DEF T
  <2> QED
    BY <1>3, <2>1
<1>5. LocalOfps(s, n) = FlattenSeq(g)
  BY DEF LocalOfps, ForEach
<1> HIDE DEF g
<1> QED
  BY <1>1, <1>4, <1>5, FlattenSeqOf

\* The options of the ports that a deployment creates.
LEMMA PortOptionsAre ==
  ASSUME TypeOK, Ports, NEW s \in Suts
  PROVE  PortOptions(s) \in Seq([rip : (Suts \ {s}) \cup {FLOW},
                                 vni : {Vni(p) : p \in Range(vifs[s])} \cup {FLOW}])
<1> DEFINE R == (Suts \ {s}) \cup {FLOW}
           N == {Vni(p) : p \in Range(vifs[s])} \cup {FLOW}
           O == [rip : R, vni : N]
           rips == IF kw.rip = "flow" THEN <<FLOW>> ELSE Remotes(s)
           vnis == IF kw.tid = "flow" THEN <<FLOW>> ELSE VniKeys(s)
           h(r) == [j \in DOMAIN vnis |-> <<[rip |-> r, vni |-> vnis[j]]>>]
           g == [i \in DOMAIN rips |-> FlattenSeq(h(rips[i]))]
<1>1. rips \in Seq(R)
  <2>1. Remotes(s) \in Seq(Suts \ {s})
    BY RemotesAre
  <2>2. Remotes(s) \in Seq(R) /\ <<FLOW>> \in Seq(R)
    BY <2>1
  <2> QED
    BY <2>2
<1>2. vnis \in Seq(N)
  <2>1. VniKeys(s) \in Seq({Vni(p) : p \in Range(vifs[s])})
    BY VniKeysAre
  <2>2. VniKeys(s) \in Seq(N) /\ <<FLOW>> \in Seq(N)
    BY <2>1
  <2> QED
    BY <2>2
<1>3. PortOptions(s) = FlattenSeq(g)
  BY DEF PortOptions, ForEach
<1> HIDE DEF rips, vnis, R, N
<1>4. ASSUME NEW i \in DOMAIN rips PROVE FlattenSeq(h(rips[i])) \in Seq(O)
  <2>1. rips[i] \in R
    BY <1>1
  <2>2. h(rips[i]) \in [DOMAIN vnis -> Seq(O)]
    BY <1>2, <2>1
  <2> HIDE DEF h, O
  <2> QED
    BY <1>2, <2>2, FlattenSeqOf
<1>5. g \in [DOMAIN rips -> Seq(O)]
  <2> HIDE DEF O, h
  <2> QED
    BY <1>4
<1>6. PortOptions(s) \in Seq(O)
  <2> HIDE DEF O, g
  <2> QED
    BY <1>1, <1>3, <1>5, FlattenSeqOf
<1> QED
  BY <1>6 DEF R, N

\* The tunnel ports of a bridge.
LEMMA TnlsAre ==
  ASSUME TypeOK, NEW s \in Suts
  PROVE  /\ tnls[s] \in Seq(TnlPorts)
         /\ \A i \in DOMAIN tnls[s] :
              /\ tnls[s][i] \in TnlPorts
              /\ tnls[s][i].ofp \in Range(TunnelIds) /\ tnls[s][i].ofp \in Nat
              /\ tnls[s][i].rip \in Suts \cup {FLOW} /\ tnls[s][i].vni \in Nat \cup {FLOW}
<1>1. tnls[s] \in Seq(TnlPorts)
  BY DEF TypeOK
<1>2. \A i \in DOMAIN tnls[s] : tnls[s][i] \in TnlPorts
  BY <1>1
<1>3. \A t \in TnlPorts : /\ t.ofp \in Range(TunnelIds) /\ t.rip \in Suts \cup {FLOW}
                          /\ t.vni \in Nat \cup {FLOW}
  BY DEF TnlPorts
<1>4. \A p \in Range(TunnelIds) : p \in Nat
  BY PortNumbers, Zenon
<1> QED
  BY <1>1, <1>2, <1>3, <1>4

\* The uplinks of a bridge.
LEMMA UplinksAre == Uplinks \in Seq({OFP_UPLINK_BASE})
<1>1. <<>> \in Seq({OFP_UPLINK_BASE}) /\ <<OFP_UPLINK_BASE>> \in Seq({OFP_UPLINK_BASE})
  OBVIOUS
<1> QED
  BY <1>1 DEF Uplinks

\* The flows of INPUT are typed.
LEMMA InputFlowsTyped ==
  ASSUME TypeOK, NEW s \in Suts, NEW m \in Overlays \cup {"native"}
  PROVE  InputFlows(s, m) \subseteq InFlows
<1>1. \A p \in Locals(s) : p \in Int /\ Vni(p) \in Nat
  BY PortNumbers, VniValue DEF TypeOK
<1>2. \A t \in Range(TunnelIds) : t \in Int
  <2>1. \A t \in Range(TunnelIds) : t \in Nat
    BY PortNumbers, Zenon
  <2> QED
    BY <2>1
<1>3. ANY \in Int /\ OFP_UPLINK_BASE \in Int /\ 0 \in Nat
  BY DEF ANY, OFP_UPLINK_BASE
<1> QED
  BY <1>1, <1>2, <1>3 DEF InputFlows, InFlows, InFlow, Overlays

\* generate_input_flows makes the flows of its deployment.
LEMMA GeneratedInput ==
  ASSUME TypeOK, Ports, NEW s \in Suts, NEW m \in Overlays \cup {"native"}
  PROVE  generate_input_flows(s, m) \in Seq(InputFlows(s, m))
<1> DEFINE I == InputFlows(s, m)
           load == IF m = "qinq" THEN "load2" ELSE "load"
           g == [i \in DOMAIN vifs[s] |-> <<InFlow(vifs[s][i], load, Vni(vifs[s][i]))>>]
           t == [i \in DOMAIN tnls[s] |-> <<InFlow(tnls[s][i].ofp, "tun_id", 0)>>]
           u(set) == [i \in DOMAIN Uplinks |-> <<InFlow(Uplinks[i], set, 0)>>]
<1>1. CASE m = "native"
  <2>1. InFlow(ANY, "nothing", 0) \in I
    BY <1>1 DEF InputFlows
  <2> HIDE DEF I
  <2>2. <<InFlow(ANY, "nothing", 0)>> \in Seq(I)
    BY <2>1
  <2> QED
    BY <1>1, <2>2 DEF generate_input_flows, I
<1>2. CASE m # "native"
  <2>0. m \in {"tnl", "vlan", "qinq"}
    BY <1>2 DEF Overlays
  <2>1. vifs[s] \in Seq(Nat) /\ tnls[s] \in Seq(TnlPorts)
    BY DEF TypeOK
  <2>2. \A i \in DOMAIN vifs[s] : vifs[s][i] \in Locals(s)
    BY DEF Ports, SutPorts, Range
  <2>3. \A p \in Locals(s) : InFlow(p, load, Vni(p)) \in I
    BY <2>0 DEF InputFlows
  <2>4. \A i \in DOMAIN vifs[s] : <<InFlow(vifs[s][i], load, Vni(vifs[s][i]))>> \in Seq(I)
    <3> HIDE DEF I, load
    <3> QED
      BY <2>2, <2>3
  <2>5. FlattenSeq(g) \in Seq(I)
    <3> HIDE DEF I, load
    <3>1. g \in [DOMAIN vifs[s] -> Seq(I)]
      BY <2>4
    <3> HIDE DEF g
    <3> QED
      BY <2>1, <3>1, FlattenSeqOf
  <2>6. CASE m = "tnl"
    <3>1. \A i \in DOMAIN tnls[s] : tnls[s][i].ofp \in Range(TunnelIds)
      BY TnlsAre
    <3>2. \A p \in Range(TunnelIds) : InFlow(p, "tun_id", 0) \in I
      BY <2>6 DEF InputFlows
    <3> HIDE DEF I
    <3>3. \A i \in DOMAIN tnls[s] : <<InFlow(tnls[s][i].ofp, "tun_id", 0)>> \in Seq(I)
      BY <3>1, <3>2
    <3>4. t \in [DOMAIN tnls[s] -> Seq(I)]
      BY <3>3
    <3>5. FlattenSeq(t) \in Seq(I)
      <4> HIDE DEF t
      <4> QED
        BY <2>1, <3>4, FlattenSeqOf
    <3>6. generate_input_flows(s, m) = FlattenSeq(g) \o FlattenSeq(t)
      BY <2>6 DEF generate_input_flows, ForEach
    <3> HIDE DEF g, t
    <3> QED
      BY <2>5, <3>5, <3>6 DEF I
  <2>7. ASSUME NEW set, \/ m = "vlan" /\ set = "tag"
                        \/ m = "qinq" /\ set = "tags"
        PROVE  generate_input_flows(s, m) \in Seq(I)
    <3>1. InFlow(OFP_UPLINK_BASE, set, 0) \in I
      BY <2>7 DEF InputFlows
    <3> HIDE DEF I
    <3>2. Uplinks \in Seq({OFP_UPLINK_BASE})
      BY UplinksAre
    <3>3. \A i \in DOMAIN Uplinks : Uplinks[i] = OFP_UPLINK_BASE
      BY <3>2
    <3>4. \A i \in DOMAIN Uplinks : <<InFlow(Uplinks[i], set, 0)>> \in Seq(I)
      BY <3>1, <3>3
    <3>5. u(set) \in [DOMAIN Uplinks -> Seq(I)]
      BY <3>4
    <3>6. FlattenSeq(u(set)) \in Seq(I)
      <4> HIDE DEF u
      <4> QED
        BY <3>2, <3>5, FlattenSeqOf
    <3>7. generate_input_flows(s, m) = FlattenSeq(g) \o FlattenSeq(u(set))
      BY <2>7 DEF generate_input_flows, ForEach
    <3> HIDE DEF g, u
    <3> QED
      BY <2>5, <3>6, <3>7
  <2> QED
    BY <2>0, <2>6, <2>7
<1> QED
  BY <1>1, <1>2

-------------------------------------------------------------------------------
(* The actions of the flows of OUTPUT. *)

\* Lists of actions that push no tag, for frames of a VNI.
PlainActs(s, vni) ==
  {a \in Seq(Actions) : \A i \in DOMAIN a :
     /\ a[i].op \in {"out", "tun_dst", "tun_id", "md"}
     /\ a[i].op = "out" =>
          \/ a[i].arg \in Locals(s) /\ Vni(a[i].arg) = vni
          \/ \E t \in Range(tnls[s]) : /\ t.ofp = a[i].arg
                                       /\ \/ t.vni = FLOW /\ Before(a, i, "tun_id")
                                          \/ t.vni = vni}

\* The elements of a concatenation, by their position.
LEMMA ConcatSplit ==
  ASSUME NEW T, NEW a \in Seq(T), NEW b \in Seq(T), NEW i \in DOMAIN (a \o b)
  PROVE  \/ i \in DOMAIN a /\ (a \o b)[i] = a[i]
         \/ \E k \in DOMAIN b : i = Len(a) + k /\ (a \o b)[i] = b[k]
<1>1. CASE i <= Len(a)
  BY <1>1
<1>2. CASE i > Len(a)
  <2>1. i - Len(a) \in DOMAIN b /\ i = Len(a) + (i - Len(a)) /\ (a \o b)[i] = b[i - Len(a)]
    BY <1>2
  <2> QED
    BY <2>1
<1> QED
  BY <1>1, <1>2

\* What comes before in a part of a list comes before in the list.
LEMMA BeforeConcat ==
  ASSUME NEW a \in Seq(Actions), NEW b \in Seq(Actions), NEW op
  PROVE  /\ \A i \in DOMAIN a : Before(a, i, op) <=> Before(a \o b, i, op)
         /\ \A k \in DOMAIN b : Before(b, k, op) => Before(a \o b, Len(a) + k, op)
         /\ \A k \in DOMAIN b : Before(a \o b, Len(a) + k, op) =>
              Before(b, k, op) \/ \E j \in DOMAIN a : a[j].op = op
         /\ \A k \in DOMAIN b : \A j \in DOMAIN a : a[j].op = op => Before(a \o b, Len(a) + k, op)
<1> DEFINE c == a \o b
<1>0. /\ Len(a) \in Nat /\ Len(b) \in Nat /\ DOMAIN a = 1..Len(a) /\ DOMAIN b = 1..Len(b)
      /\ \A i \in 1..Len(a) : c[i] = a[i]
      /\ \A k \in 1..Len(b) : c[Len(a) + k] = b[k]
  OBVIOUS
<1> HIDE DEF c
<1>1. ASSUME NEW i \in DOMAIN a PROVE Before(a, i, op) <=> Before(c, i, op)
  <2>1. \A j \in 1..(i - 1) : c[j] = a[j]
    BY <1>0
  <2> QED
    BY <2>1 DEF Before
<1>2. ASSUME NEW k \in DOMAIN b, Before(b, k, op) PROVE Before(c, Len(a) + k, op)
  <2>1. PICK j \in 1..(k - 1) : b[j].op = op
    BY <1>2 DEF Before
  <2>2. Len(a) + j \in 1..(Len(a) + k - 1) /\ c[Len(a) + j] = b[j]
    BY <1>0, <2>1
  <2> QED
    BY <2>1, <2>2 DEF Before
<1>3. ASSUME NEW k \in DOMAIN b, Before(c, Len(a) + k, op)
      PROVE  Before(b, k, op) \/ \E j \in DOMAIN a : a[j].op = op
  <2>1. PICK j \in 1..(Len(a) + k - 1) : c[j].op = op
    BY <1>3 DEF Before
  <2>2. CASE j <= Len(a)
    BY <1>0, <2>1, <2>2
  <2>3. CASE j > Len(a)
    <3>1. j - Len(a) \in 1..(k - 1) /\ j - Len(a) \in 1..Len(b)
      BY <1>0, <2>1, <2>3
    <3>2. c[Len(a) + (j - Len(a))] = b[j - Len(a)]
      BY <1>0, <3>1
    <3>3. Len(a) + (j - Len(a)) = j
      BY <1>0, <2>1
    <3> QED
      BY <2>1, <3>1, <3>2, <3>3 DEF Before
  <2> QED
    BY <1>0, <2>1, <2>2, <2>3
<1>4. ASSUME NEW k \in DOMAIN b, NEW j \in DOMAIN a, a[j].op = op PROVE Before(c, Len(a) + k, op)
  <2>1. j \in 1..(Len(a) + k - 1) /\ c[j] = a[j]
    BY <1>0
  <2> QED
    BY <1>4, <2>1 DEF Before
<1> QED
  BY <1>1, <1>2, <1>3, <1>4 DEF c

\* Such lists can be joined.
LEMMA PlainConcat ==
  ASSUME NEW s, NEW n, NEW a \in PlainActs(s, n), NEW b \in PlainActs(s, n)
  PROVE  a \o b \in PlainActs(s, n)
<1>1. a \in Seq(Actions) /\ b \in Seq(Actions)
  BY DEF PlainActs
<1>2. PICK c \in Seq(Actions) : c = a \o b
  BY <1>1, ConcatSeq, Zenon
<1>3. ASSUME NEW i \in DOMAIN c
      PROVE  /\ c[i].op \in {"out", "tun_dst", "tun_id", "md"}
             /\ c[i].op = "out" =>
                  \/ c[i].arg \in Locals(s) /\ Vni(c[i].arg) = n
                  \/ \E t \in Range(tnls[s]) : /\ t.ofp = c[i].arg
                                               /\ \/ t.vni = FLOW /\ Before(c, i, "tun_id")
                                                  \/ t.vni = n
  <2>1. \/ i \in DOMAIN a /\ c[i] = a[i]
        \/ \E k \in DOMAIN b : i = Len(a) + k /\ c[i] = b[k]
    BY <1>1, <1>2, <1>3, ConcatSplit
  <2>2. CASE i \in DOMAIN a /\ c[i] = a[i]
    <3>1. Before(a, i, "tun_id") => Before(c, i, "tun_id")
      BY <1>1, <1>2, <2>2, BeforeConcat
    <3> QED
      BY <2>2, <3>1 DEF PlainActs
  <2>3. ASSUME NEW k \in DOMAIN b, i = Len(a) + k, c[i] = b[k]
        PROVE  /\ c[i].op \in {"out", "tun_dst", "tun_id", "md"}
               /\ c[i].op = "out" =>
                    \/ c[i].arg \in Locals(s) /\ Vni(c[i].arg) = n
                    \/ \E t \in Range(tnls[s]) : /\ t.ofp = c[i].arg
                                                 /\ \/ t.vni = FLOW /\ Before(c, i, "tun_id")
                                                    \/ t.vni = n
    <3>1. Before(b, k, "tun_id") => Before(c, i, "tun_id")
      BY <1>1, <1>2, <2>3, BeforeConcat
    <3> QED
      BY <2>3, <3>1 DEF PlainActs
  <2> QED
    BY <2>1, <2>2, <2>3
<1> QED
  BY <1>2, <1>3 DEF PlainActs

\* They are sound under every overlay.
LEMMA PlainIsSound ==
  ASSUME NEW s, NEW m, NEW n, NEW a \in PlainActs(s, n)
  PROVE  SoundActs(s, m, a, n)
<1>1. /\ a \in Seq(Actions)
      /\ \A i \in DOMAIN a : a[i].op \in {"out", "tun_dst", "tun_id", "md"}
  BY DEF PlainActs
<1>2. ASSUME NEW i \in DOMAIN a PROVE ~Before(a, i, "push_lo") /\ ~Before(a, i, "push_hi")
  <2>1. \A j \in 1..(i - 1) : j \in DOMAIN a
    BY <1>1
  <2> QED
    BY <1>1, <2>1 DEF Before
<1> QED
  BY <1>1, <1>2 DEF PlainActs, SoundActs

\* Output to VIFs of the VNI.
LEMMA OutIsPlain ==
  ASSUME TypeOK, NEW s \in Suts, NEW n, NEW p \in Locals(s), Vni(p) = n
  PROVE  Out(p) \in PlainActs(s, n)
<1>1. p \in Nat
  BY PortNumbers
<1>2. Out(p) \in Seq(Actions)
  BY <1>1 DEF Out, Act, Actions
<1>3. \A i \in DOMAIN Out(p) : Out(p)[i] = Act("out", p)
  BY DEF Out
<1> QED
  BY <1>2, <1>3 DEF PlainActs, Act

\* _tnl_as ends with the output to its port, after the VNI is set when the port has none.
LEMMA TnlAsIs ==
  ASSUME TypeOK, NEW s \in Suts, NEW t \in TnlPorts, NEW md \in BOOLEAN
  PROVE  \E pre \in Seq({x \in Actions : x.op \in {"tun_dst", "tun_id", "md"}}) :
           /\ TnlAs(s, t, md) = pre \o Out(t.ofp)
           /\ t.vni = FLOW => \E j \in DOMAIN pre : pre[j].op = "tun_id"
<1> DEFINE P == {x \in Actions : x.op \in {"tun_dst", "tun_id", "md"}}
           g == [i \in DOMAIN Remotes(s) |-> <<Act("tun_dst", Remotes(s)[i])>>]
           dst == IF t.rip = FLOW THEN FlattenSeq(g) ELSE <<>>
           tun == IF t.vni = FLOW THEN <<Act("tun_id", 0)>> ELSE <<>>
           meta == IF md THEN <<Act("md", 0)>> ELSE <<>>
<1>1. Act("tun_id", 0) \in P /\ Act("md", 0) \in P /\ \A r \in Suts : Act("tun_dst", r) \in P
  BY PipelineAssumption DEF Act, Actions, Suts
<1>2. TnlAs(s, t, md) = ((dst \o tun) \o meta) \o Out(t.ofp)
  BY DEF TnlAs, ForEach
<1>3. dst \in Seq(P)
  <2>1. Remotes(s) \in Seq(Suts \ {s})
    BY RemotesAre
  <2> HIDE DEF P
  <2>2. \A i \in DOMAIN Remotes(s) : Remotes(s)[i] \in Suts
    BY <2>1
  <2>3. \A i \in DOMAIN Remotes(s) : <<Act("tun_dst", Remotes(s)[i])>> \in Seq(P)
    BY <1>1, <2>2
  <2>4. g \in [DOMAIN Remotes(s) -> Seq(P)]
    BY <2>3
  <2>5. FlattenSeq(g) \in Seq(P)
    <3> HIDE DEF g
    <3> QED
      BY <2>1, <2>4, FlattenSeqOf
  <2>6. <<>> \in Seq(P)
    OBVIOUS
  <2> QED
    BY <2>5, <2>6
<1> HIDE DEF P, dst
<1>4. tun \in Seq(P) /\ meta \in Seq(P)
  BY <1>1
<1>5. t.vni = FLOW => 1 \in DOMAIN tun /\ tun[1].op = "tun_id"
  BY DEF Act
<1> HIDE DEF tun, meta
<1>6. PICK a \in Seq(P) : a = dst \o tun
  BY <1>3, <1>4, ConcatSeq, Zenon
<1>7. PICK pre \in Seq(P) : pre = a \o meta
  BY <1>4, ConcatSeq, Zenon
<1>8. ASSUME t.vni = FLOW PROVE \E j \in DOMAIN pre : pre[j].op = "tun_id"
  <2>1. Len(dst) + 1 \in DOMAIN a /\ a[Len(dst) + 1] = tun[1]
    BY <1>3, <1>4, <1>5, <1>6, <1>8, ConcatHolds
  <2>2. pre[Len(dst) + 1] = a[Len(dst) + 1] /\ Len(dst) + 1 \in DOMAIN pre
    BY <1>4, <1>6, <1>7, <2>1, ConcatHolds
  <2> QED
    BY <1>5, <1>8, <2>1, <2>2
<1> QED
  BY <1>2, <1>6, <1>7, <1>8 DEF P

\* The list of a tunnel port whose VNI is open or the frame's.
LEMMA TnlAsPlain ==
  ASSUME TypeOK, NEW s \in Suts, NEW t \in Range(tnls[s]), NEW md \in BOOLEAN
  PROVE  /\ TnlAs(s, t, md) \in Seq(Actions)
         /\ \A i \in DOMAIN TnlAs(s, t, md) :
              TnlAs(s, t, md)[i].op = "out" => TnlAs(s, t, md)[i].arg = t.ofp
         /\ \A n : t.vni \in {FLOW, n} => TnlAs(s, t, md) \in PlainActs(s, n)
<1>1. t \in TnlPorts /\ t.ofp \in Nat
  BY TnlsAre DEF Range
<1> DEFINE P == {x \in Actions : x.op \in {"tun_dst", "tun_id", "md"}}
<1>2. PICK pre \in Seq(P) : /\ TnlAs(s, t, md) = pre \o Out(t.ofp)
                            /\ t.vni = FLOW => \E j \in DOMAIN pre : pre[j].op = "tun_id"
  BY <1>1, TnlAsIs
<1>3. pre \in Seq(Actions) /\ Out(t.ofp) \in Seq(Actions)
  <2>1. \A i \in DOMAIN pre : pre[i] \in Actions
    BY <1>2
  <2>2. pre \in Seq(Actions)
    BY <1>2, <2>1
  <2>3. Act("out", t.ofp) \in Actions
    BY <1>1 DEF Act, Actions
  <2> QED
    BY <2>2, <2>3 DEF Out
<1>4. PICK c \in Seq(Actions) : c = pre \o Out(t.ofp)
  BY <1>3, ConcatSeq, Zenon
<1>5. DOMAIN Out(t.ofp) = {1} /\ Out(t.ofp)[1].op = "out" /\ Out(t.ofp)[1].arg = t.ofp
  BY DEF Out, Act
<1>6. ASSUME NEW i \in DOMAIN c
      PROVE  \/ c[i].op \in {"tun_dst", "tun_id", "md"}
             \/ /\ c[i].op = "out" /\ c[i].arg = t.ofp
                /\ t.vni = FLOW => Before(c, i, "tun_id")
  <2>1. \/ i \in DOMAIN pre /\ c[i] = pre[i]
        \/ \E k \in DOMAIN Out(t.ofp) : i = Len(pre) + k /\ c[i] = Out(t.ofp)[k]
    BY <1>3, <1>4, ConcatSplit
  <2>2. CASE i \in DOMAIN pre /\ c[i] = pre[i]
    <3>1. pre[i] \in P
      BY <2>2
    <3> QED
      BY <2>2, <3>1
  <2>3. ASSUME NEW k \in DOMAIN Out(t.ofp), i = Len(pre) + k, c[i] = Out(t.ofp)[k]
        PROVE  /\ c[i].op = "out" /\ c[i].arg = t.ofp
               /\ t.vni = FLOW => Before(c, i, "tun_id")
    <3>1. \A j \in DOMAIN pre : pre[j].op = "tun_id" => Before(c, i, "tun_id")
      BY <1>3, <1>4, <2>3, BeforeConcat
    <3> QED
      BY <1>2, <1>5, <2>3, <3>1
  <2> QED
    BY <2>1, <2>2, <2>3
<1>7. \A n : t.vni \in {FLOW, n} => c \in PlainActs(s, n)
  <2> SUFFICES ASSUME NEW n, t.vni \in {FLOW, n} PROVE c \in PlainActs(s, n)
    OBVIOUS
  <2> QED
    BY <1>4, <1>6 DEF PlainActs
<1>8. TnlAs(s, t, md) = c
  BY <1>2, <1>4
<1> HIDE DEF P
<1>9. \A i \in DOMAIN c : c[i].op = "out" => c[i].arg = t.ofp
  BY <1>6
<1> QED
  BY <1>7, <1>8, <1>9

\* Tags and then the uplinks, after the VIFs.
LEMMA UplinkIsSound ==
  ASSUME NEW s, NEW m \in L2Overlays, NEW n, NEW loc \in PlainActs(s, n),
         NEW ups \in Seq({Act("out", OFP_UPLINK_BASE)})
  PROVE  /\ UplinkAs(m) \o ups \in Seq(Actions)
         /\ loc \o (UplinkAs(m) \o ups) \in Seq(Actions)
         /\ SoundActs(s, m, loc \o (UplinkAs(m) \o ups), n)
         /\ \A i \in DOMAIN (UplinkAs(m) \o ups) :
              (UplinkAs(m) \o ups)[i].op = "out" => (UplinkAs(m) \o ups)[i].arg = OFP_UPLINK_BASE
<1> DEFINE hi == m = "qinq"
<1>1. UplinkAs(m) \in Seq(Actions) /\ ups \in Seq(Actions) /\ loc \in Seq(Actions)
  <2>1. Act("push_lo", 0) \in Actions /\ Act("push_hi", 0) \in Actions /\ Act("out", OFP_UPLINK_BASE) \in Actions
    BY DEF Act, Actions, OFP_UPLINK_BASE
  <2>2. loc \in Seq(Actions)
    BY DEF PlainActs
  <2>3. ups \in Seq(Actions)
    BY <2>1
  <2> QED
    BY <2>1, <2>2, <2>3 DEF UplinkAs
<1>2. PICK u \in Seq(Actions) : u = UplinkAs(m)
  BY <1>1
<1>3. /\ 1 \in DOMAIN u /\ u[1].op = "push_lo"
      /\ \A j \in DOMAIN u : u[j].op \in {"push_lo", "push_hi"}
      /\ (\E j \in DOMAIN u : u[j].op = "push_hi") <=> hi
  BY <1>2 DEF UplinkAs, Act, L2Overlays
<1>4. \A x, y \in Seq(Actions) : x \o y \in Seq(Actions)
  OBVIOUS
<1>5. PICK v \in Seq(Actions) : v = u \o ups
  BY <1>1, <1>4, Zenon
<1>6. PICK c \in Seq(Actions) : c = loc \o v
  BY <1>1, <1>4, Zenon
<1>7. \A k \in DOMAIN ups : ups[k].op = "out" /\ ups[k].arg = OFP_UPLINK_BASE
  BY DEF Act
<1>8. ASSUME NEW i \in DOMAIN v
      PROVE  \/ v[i].op \in {"push_lo", "push_hi"}
             \/ /\ v[i].op = "out" /\ v[i].arg = OFP_UPLINK_BASE
                /\ Before(v, i, "push_lo") /\ (Before(v, i, "push_hi") <=> hi)
  <2>1. \/ i \in DOMAIN u /\ v[i] = u[i]
        \/ \E k \in DOMAIN ups : i = Len(u) + k /\ v[i] = ups[k]
    BY <1>1, <1>5, ConcatSplit
  <2>2. ASSUME NEW k \in DOMAIN ups, i = Len(u) + k, v[i] = ups[k]
        PROVE  /\ v[i].op = "out" /\ v[i].arg = OFP_UPLINK_BASE
               /\ Before(v, i, "push_lo") /\ (Before(v, i, "push_hi") <=> hi)
    <3>1. Before(v, i, "push_lo")
      BY <1>1, <1>3, <1>5, <2>2, BeforeConcat
    <3>2. hi => Before(v, i, "push_hi")
      BY <1>1, <1>3, <1>5, <2>2, BeforeConcat
    <3>3. ~Before(ups, k, "push_hi")
      <4>1. \A j \in 1..(k - 1) : j \in DOMAIN ups
        OBVIOUS
      <4> QED
        BY <1>7, <4>1 DEF Before
    <3>4. Before(v, i, "push_hi") => hi
      <4>1. Before(v, i, "push_hi") => Before(ups, k, "push_hi") \/ \E j \in DOMAIN u : u[j].op = "push_hi"
        <5>1. Before(u \o ups, Len(u) + k, "push_hi") =>
                Before(ups, k, "push_hi") \/ \E j \in DOMAIN u : u[j].op = "push_hi"
          BY <1>1, <2>2, BeforeConcat, Zenon
        <5> QED
          BY <1>5, <2>2, <5>1, Zenon
      <4> QED
        BY <1>3, <3>3, <4>1
    <3> QED
      BY <1>7, <2>2, <3>1, <3>2, <3>4
  <2> QED
    BY <1>3, <2>1, <2>2
<1>9. /\ \A i \in DOMAIN loc : loc[i].op \in {"out", "tun_dst", "tun_id", "md"}
      /\ SoundActs(s, m, loc, n)
  BY PlainIsSound DEF PlainActs
<1>10. ASSUME NEW i \in DOMAIN loc
       PROVE  \A op : Before(loc, i, op) <=> Before(c, i, op)
  BY <1>1, <1>6, BeforeConcat
<1>11. ASSUME NEW k \in DOMAIN v
       PROVE  /\ Before(v, k, "push_lo") => Before(c, Len(loc) + k, "push_lo")
              /\ Before(v, k, "push_hi") <=> Before(c, Len(loc) + k, "push_hi")
  <2>1. \A op : Before(v, k, op) => Before(c, Len(loc) + k, op)
    BY <1>1, <1>6, BeforeConcat
  <2>2. Before(c, Len(loc) + k, "push_hi") =>
          Before(v, k, "push_hi") \/ \E j \in DOMAIN loc : loc[j].op = "push_hi"
    BY <1>1, <1>6, BeforeConcat
  <2> QED
    BY <1>9, <2>1, <2>2
<1>12. ASSUME NEW i \in DOMAIN c
       PROVE  \/ i \in DOMAIN loc /\ c[i] = loc[i]
              \/ \E k \in DOMAIN v : i = Len(loc) + k /\ c[i] = v[k]
  BY <1>1, <1>6, ConcatSplit
<1>13. SoundActs(s, m, c, n)
  <2> SUFFICES ASSUME NEW i \in DOMAIN c
               PROVE  /\ c[i].op # "out_reg1"
                      /\ c[i].op = "out" =>
                           \/ c[i].arg = OFP_LOCAL
                           \/ /\ ~Before(c, i, "push_lo") /\ ~Before(c, i, "push_hi")
                              /\ \/ c[i].arg \in Locals(s) /\ Vni(c[i].arg) = n
                                 \/ \E t \in Range(tnls[s]) : /\ t.ofp = c[i].arg
                                                              /\ \/ t.vni = FLOW /\ Before(c, i, "tun_id")
                                                                 \/ t.vni = n
                           \/ /\ c[i].arg = OFP_UPLINK_BASE
                              /\ Before(c, i, "push_lo")
                              /\ Before(c, i, "push_hi") <=> m = "qinq"
    BY DEF SoundActs
  <2>1. CASE i \in DOMAIN loc /\ c[i] = loc[i]
    BY <1>9, <1>10, <2>1 DEF SoundActs
  <2>2. ASSUME NEW k \in DOMAIN v, i = Len(loc) + k, c[i] = v[k]
        PROVE  /\ c[i].op # "out_reg1"
               /\ c[i].op = "out" => /\ c[i].arg = OFP_UPLINK_BASE
                                     /\ Before(c, i, "push_lo")
                                     /\ Before(c, i, "push_hi") <=> m = "qinq"
    BY <1>8, <1>11, <2>2
  <2> QED
    BY <1>12, <2>1, <2>2
<1>14. \A i \in DOMAIN v : v[i].op = "out" => v[i].arg = OFP_UPLINK_BASE
  BY <1>8
<1> QED
  BY <1>2, <1>5, <1>6, <1>13, <1>14

-------------------------------------------------------------------------------
(* The flows of OUTPUT that a deployment generates. *)

Deployments == Overlays \cup {"native"}

\* Flows that are sound when the deployment is an overlay.
GoodFlows(s, m) == {f \in OutFlows : m \in Overlays => SoundFlow(s, m, f)}

\* No action is a list for any VNI.
LEMMA EmptyIsPlain == \A s, n : <<>> \in PlainActs(s, n)
  BY DEF PlainActs

\* Output to the uplinks.
LEMMA UplinkOuts ==
  ForEach(Uplinks, Out) \in Seq({Act("out", OFP_UPLINK_BASE)})
<1> DEFINE g == [i \in DOMAIN Uplinks |-> Out(Uplinks[i])]
           T == {Act("out", OFP_UPLINK_BASE)}
<1>1. Uplinks \in Seq({OFP_UPLINK_BASE})
  BY UplinksAre
<1>2. \A i \in DOMAIN Uplinks : Uplinks[i] = OFP_UPLINK_BASE
  BY <1>1
<1>3. Out(OFP_UPLINK_BASE) \in Seq(T)
  BY DEF Out
<1>4. g \in [DOMAIN Uplinks -> Seq(T)]
  <2> HIDE DEF T
  <2> QED
    BY <1>2, <1>3
<1>5. ForEach(Uplinks, Out) = FlattenSeq(g)
  BY DEF ForEach
<1> HIDE DEF g
<1> QED
  BY <1>1, <1>4, <1>5, FlattenSeqOf

\* Output to VIFs of a VNI, all of them or all but one.
LEMMA LocalOuts ==
  ASSUME TypeOK, Ports, NEW s \in Suts, NEW n, NEW p
  PROVE  /\ FlattenSeq([i \in DOMAIN LocalOfps(s, n) |-> Out(LocalOfps(s, n)[i])]) \in PlainActs(s, n)
         /\ FlattenSeq([i \in DOMAIN LocalOfps(s, n) |->
                         IF LocalOfps(s, n)[i] = p THEN <<>> ELSE Out(LocalOfps(s, n)[i])])
              \in PlainActs(s, n)
<1> DEFINE seq == LocalOfps(s, n)
           G == PlainActs(s, n)
           g == [i \in DOMAIN seq |-> Out(seq[i])]
           h == [i \in DOMAIN seq |-> IF seq[i] = p THEN <<>> ELSE Out(seq[i])]
<1>1. seq \in Seq({q \in Locals(s) : Vni(q) = n})
  BY LocalOfpsAre
<1>2. \A i \in DOMAIN seq : seq[i] \in Locals(s) /\ Vni(seq[i]) = n
  BY <1>1
<1>3. <<>> \in G /\ \A a, b \in G : a \o b \in G
  BY EmptyIsPlain, PlainConcat
<1>4. \A i \in DOMAIN seq : Out(seq[i]) \in G
  BY <1>2, OutIsPlain
<1> HIDE DEF seq, G
<1>5. g \in [DOMAIN seq -> G] /\ h \in [DOMAIN seq -> G]
  BY <1>3, <1>4
<1>6. FlattenSeq(g) \in G /\ FlattenSeq(h) \in G
  <2> HIDE DEF g, h
  <2> QED
    BY <1>1, <1>3, <1>5, FlattenInto
<1> QED
  BY <1>6 DEF seq, G

\* Flooding from a VIF.
LEMMA LocalFloodSound ==
  ASSUME TypeOK, Ports, NEW s \in Suts, NEW m \in Deployments, NEW md \in BOOLEAN, NEW p, NEW n
  PROVE  /\ LocalFloodAs(s, p, n, m, md) \in Seq(Actions)
         /\ m \in Overlays => SoundActs(s, m, LocalFloodAs(s, p, n, m, md), n)
<1> DEFINE loc == FlattenSeq([i \in DOMAIN LocalOfps(s, n) |->
                     IF LocalOfps(s, n)[i] = p THEN <<>> ELSE Out(LocalOfps(s, n)[i])])
           ups == ForEach(Uplinks, Out)
           G == PlainActs(s, n)
           g == [i \in DOMAIN tnls[s] |-> IF tnls[s][i].vni \in {FLOW, n} THEN TnlAs(s, tnls[s][i], md) ELSE <<>>]
<1>1. loc \in G
  BY LocalOuts
<1>2. ups \in Seq({Act("out", OFP_UPLINK_BASE)})
  BY UplinkOuts
<1>3. CASE m = "tnl"
  <2>1. tnls[s] \in Seq(TnlPorts)
    BY TnlsAre
  <2>2. <<>> \in G /\ \A a, b \in G : a \o b \in G
    BY EmptyIsPlain, PlainConcat
  <2>3. \A i \in DOMAIN tnls[s] : tnls[s][i].vni \in {FLOW, n} => TnlAs(s, tnls[s][i], md) \in G
    <3>1. \A i \in DOMAIN tnls[s] : tnls[s][i] \in Range(tnls[s])
      BY DEF Range
    <3> QED
      BY <3>1, TnlAsPlain
  <2>4. LocalFloodAs(s, p, n, m, md) = loc \o FlattenSeq(g)
    BY <1>3 DEF LocalFloodAs, ForEach
  <2> HIDE DEF G, loc
  <2>5. g \in [DOMAIN tnls[s] -> G]
    BY <2>2, <2>3
  <2>6. FlattenSeq(g) \in G
    <3> HIDE DEF g
    <3> QED
      BY <2>1, <2>2, <2>5, FlattenInto
  <2>7. loc \o FlattenSeq(g) \in G
    <3> HIDE DEF g
    <3> QED
      BY <1>1, <2>2, <2>6
  <2>8. SoundActs(s, m, loc \o FlattenSeq(g), n) /\ loc \o FlattenSeq(g) \in Seq(Actions)
    <3> HIDE DEF g
    <3> QED
      BY <2>7, PlainIsSound DEF G, PlainActs
  <2> QED
    BY <2>4, <2>8
<1>4. CASE m \in L2Overlays
  <2>1. LocalFloodAs(s, p, n, m, md) = loc \o (UplinkAs(m) \o ups)
    BY <1>4 DEF LocalFloodAs, L2Overlays, ForEach
  <2> HIDE DEF loc, ups
  <2>2. /\ loc \o (UplinkAs(m) \o ups) \in Seq(Actions)
        /\ SoundActs(s, m, loc \o (UplinkAs(m) \o ups), n)
    BY <1>1, <1>2, <1>4, UplinkIsSound, Zenon
  <2> QED
    BY <2>1, <2>2, Zenon
<1>5. CASE m = "native"
  <2>1. LocalFloodAs(s, p, n, m, md) = loc \o ups
    BY <1>5 DEF LocalFloodAs, ForEach
  <2>2. loc \in Seq(Actions)
    BY <1>1 DEF PlainActs
  <2>3. Act("out", OFP_UPLINK_BASE) \in Actions
    BY DEF Act, Actions, OFP_UPLINK_BASE
  <2> HIDE DEF loc, ups
  <2>4. ups \in Seq(Actions)
    BY <1>2, <2>3
  <2>5. loc \o ups \in Seq(Actions)
    BY <2>2, <2>4, ConcatSeq, Zenon
  <2> QED
    BY <1>5, <2>1, <2>5 DEF Overlays
<1> QED
  BY <1>3, <1>4, <1>5 DEF Deployments, Overlays, L2Overlays

\* Flooding from external ports.
LEMMA ExternalFloodGood ==
  ASSUME TypeOK, Ports, NEW s \in Suts, NEW m \in Deployments, NEW md \in BOOLEAN, NEW n \in Nat
  PROVE  ExternalFlood(s, n, m, md) \in Seq(GoodFlows(s, m))
<1> DEFINE acts == FlattenSeq([i \in DOMAIN LocalOfps(s, n) |-> Out(LocalOfps(s, n)[i])])
           T == GoodFlows(s, m)
           meta == IF md THEN n ELSE ANY
           g == [i \in DOMAIN tnls[s] |-> <<OutFlow(100, tnls[s][i].ofp, n, 0, meta, acts)>>]
           h(reg0) == [i \in DOMAIN Uplinks |-> <<OutFlow(100, Uplinks[i], reg0, 0, ANY, acts)>>]
<1>1. acts \in PlainActs(s, n)
  BY LocalOuts
<1>2. acts \in Seq(Actions) /\ SoundActs(s, m, acts, n)
  <2> HIDE DEF acts
  <2> QED
    BY <1>1, PlainIsSound DEF PlainActs
<1>3. n # ANY /\ n \in Int /\ meta \in Int /\ ANY \in Int
  BY DEF ANY
<1>4. ASSUME NEW p \in Externals, NEW x \in Int PROVE OutFlow(100, p, n, 0, x, acts) \in T
  <2>1. p \in Int
    BY PortNumbers
  <2> HIDE DEF acts
  <2> QED
    BY <1>2, <1>3, <2>1 DEF OutFlow, OutFlows, GoodFlows, SoundFlow, FloodsExternal
<1>5. ASSUME m = "native", NEW p \in Externals PROVE OutFlow(100, p, ANY, 0, ANY, acts) \in T
  <2>1. p \in Int
    BY PortNumbers
  <2> HIDE DEF acts
  <2> QED
    BY <1>2, <1>3, <1>5, <2>1 DEF OutFlow, OutFlows, GoodFlows, Overlays
<1>6. tnls[s] \in Seq(TnlPorts) /\ \A i \in DOMAIN tnls[s] : tnls[s][i].ofp \in Externals
  BY TnlsAre, PortNumbers
<1>7. Uplinks \in Seq({OFP_UPLINK_BASE}) /\ OFP_UPLINK_BASE \in Externals
  BY UplinksAre DEF Externals
<1>8. \A i \in DOMAIN Uplinks : Uplinks[i] \in Externals
  BY <1>7
<1>9. ExternalFlood(s, n, m, md) = CASE m = "tnl" -> FlattenSeq(g)
                                     [] m \in {"vlan", "qinq"} -> FlattenSeq(h(n))
                                     [] OTHER -> FlattenSeq(h(ANY))
  BY DEF ExternalFlood, ForEach
<1> HIDE DEF acts, T, meta
<1>10. g \in [DOMAIN tnls[s] -> Seq(T)] /\ h(n) \in [DOMAIN Uplinks -> Seq(T)]
  <2>1. \A p \in Externals : \A x \in Int : <<OutFlow(100, p, n, 0, x, acts)>> \in Seq(T)
    BY <1>4
  <2> QED
    BY <1>3, <1>6, <1>8, <2>1
<1>11. m = "native" => h(ANY) \in [DOMAIN Uplinks -> Seq(T)]
  <2>1. m = "native" => \A p \in Externals : <<OutFlow(100, p, ANY, 0, ANY, acts)>> \in Seq(T)
    BY <1>5
  <2> QED
    BY <1>8, <2>1
<1>12. FlattenSeq(g) \in Seq(T)
  <2> HIDE DEF g
  <2> QED
    BY <1>6, <1>10, FlattenSeqOf
<1>13. FlattenSeq(h(n)) \in Seq(T) /\ (m = "native" => FlattenSeq(h(ANY)) \in Seq(T))
  <2> HIDE DEF h
  <2> QED
    BY <1>7, <1>10, <1>11, FlattenSeqOf
<1>14. m \in {"tnl", "vlan", "qinq", "native"}
  BY DEF Deployments, Overlays
<1> HIDE DEF g, h
<1> QED
  BY <1>9, <1>12, <1>13, <1>14 DEF T

\* All flooding flows.
LEMMA FloodingGood ==
  ASSUME TypeOK, Ports, NEW s \in Suts, NEW m \in Deployments, NEW md \in BOOLEAN
  PROVE  Flooding(s, m, md) \in Seq(GoodFlows(s, m))
<1> DEFINE T == GoodFlows(s, m)
           keys == VniKeys(s)
           seq(n) == LocalOfps(s, n)
           h(n) == [j \in DOMAIN seq(n) |->
                     <<OutFlow(100, seq(n)[j], ANY, 0, ANY, LocalFloodAs(s, seq(n)[j], n, m, md))>>]
           g == [i \in DOMAIN keys |-> FlattenSeq(h(keys[i])) \o ExternalFlood(s, keys[i], m, md)]
<1>1. keys \in Seq({Vni(p) : p \in Range(vifs[s])})
  BY VniKeysAre
<1>2. \A p \in Range(vifs[s]) : Vni(p) \in Nat
  BY VniValue DEF Ports, SutPorts, TypeOK
<1>3. \A i \in DOMAIN keys : keys[i] \in Nat
  <2> HIDE DEF keys
  <2> QED
    BY <1>1, <1>2
<1>4. ASSUME NEW n \in Nat PROVE FlattenSeq(h(n)) \in Seq(T)
  <2>1. seq(n) \in Seq({q \in Locals(s) : Vni(q) = n})
    BY LocalOfpsAre
  <2>2. \A j \in DOMAIN seq(n) : seq(n)[j] \in Locals(s) /\ Vni(seq(n)[j]) = n
    <3> HIDE DEF seq
    <3> QED
      BY <2>1
  <2>3. ASSUME NEW q \in Locals(s), Vni(q) = n
        PROVE  <<OutFlow(100, q, ANY, 0, ANY, LocalFloodAs(s, q, n, m, md))>> \in Seq(T)
    <3> DEFINE acts == LocalFloodAs(s, q, n, m, md)
    <3>1. acts \in Seq(Actions) /\ (m \in Overlays => SoundActs(s, m, acts, n))
      BY LocalFloodSound
    <3>2. q \in Int /\ ANY \in Int
      BY PortNumbers DEF ANY
    <3> HIDE DEF acts
    <3>3. OutFlow(100, q, ANY, 0, ANY, acts) \in T
      BY <2>3, <3>1, <3>2 DEF OutFlow, OutFlows, GoodFlows, SoundFlow, FloodsVif
    <3> HIDE DEF T
    <3>4. <<OutFlow(100, q, ANY, 0, ANY, acts)>> \in Seq(T)
      BY <3>3
    <3> QED
      BY <3>4 DEF acts
  <2> HIDE DEF T, seq
  <2>4. h(n) \in [DOMAIN seq(n) -> Seq(T)]
    BY <2>2, <2>3
  <2> HIDE DEF h
  <2> QED
    BY <2>1, <2>4, FlattenSeqOf
<1>5. \A n \in Nat : ExternalFlood(s, n, m, md) \in Seq(T)
  BY ExternalFloodGood
<1>6. Flooding(s, m, md) = FlattenSeq(g)
  BY DEF Flooding, ForEach
<1> HIDE DEF T, h, keys
<1>7. g \in [DOMAIN keys -> Seq(T)]
  <2>1. \A n \in Nat : FlattenSeq(h(n)) \o ExternalFlood(s, n, m, md) \in Seq(T)
    BY <1>4, <1>5, ConcatSeq, Zenon
  <2> QED
    BY <1>3, <2>1
<1> HIDE DEF g
<1>8. FlattenSeq(g) \in Seq(T)
  BY <1>1, <1>7, FlattenSeqOf
<1> QED
  BY <1>6, <1>8 DEF T

\* The unicast flows of tunnel ports, and that each has one.
LEMMA UnicastTunnel ==
  ASSUME TypeOK, Ports, NEW s \in Suts, NEW m \in Deployments, NEW md \in BOOLEAN
  PROVE  LET g == [i \in DOMAIN tnls[s] |->
                    <<OutFlow(20, ANY, ANY, tnls[s][i].ofp, ANY, TnlAs(s, tnls[s][i], md))>>]
         IN  /\ FlattenSeq(g) \in Seq(GoodFlows(s, m))
             /\ \A t \in Range(tnls[s]) :
                  \E i \in DOMAIN FlattenSeq(g) : UnicastTo(t.ofp, FlattenSeq(g)[i])
<1> DEFINE T == GoodFlows(s, m)
           F(t) == OutFlow(20, ANY, ANY, t.ofp, ANY, TnlAs(s, t, md))
           g == [i \in DOMAIN tnls[s] |-> <<F(tnls[s][i])>>]
<1>1. /\ tnls[s] \in Seq(TnlPorts)
      /\ \A i \in DOMAIN tnls[s] : tnls[s][i].ofp \in Externals /\ tnls[s][i].ofp \in Int
      /\ \A i \in DOMAIN tnls[s] : tnls[s][i] \in Range(tnls[s])
  BY TnlsAre, PortNumbers DEF Range
<1>2. ASSUME NEW t \in Range(tnls[s]) PROVE F(t) \in T
  <2> DEFINE acts == TnlAs(s, t, md)
  <2>1. /\ acts \in Seq(Actions)
        /\ \A i \in DOMAIN acts : acts[i].op = "out" => acts[i].arg = t.ofp
        /\ \A n : t.vni \in {FLOW, n} => acts \in PlainActs(s, n)
    BY TnlAsPlain
  <2>2. t.ofp \in Externals /\ t.ofp \in Int /\ ANY \in Int
    BY <1>1 DEF Range, ANY
  <2> HIDE DEF acts
  <2>3. ASSUME NEW n, t.vni \in {FLOW, n} PROVE SoundActs(s, m, acts, n)
    BY <2>1, <2>3, PlainIsSound
  <2>4. OutFlow(20, ANY, ANY, t.ofp, ANY, acts) \in OutFlows
    BY <2>1, <2>2 DEF OutFlow, OutFlows
  <2>5. ToExternal(s, m, OutFlow(20, ANY, ANY, t.ofp, ANY, acts))
    BY <2>1, <2>2, <2>3 DEF OutFlow, ToExternal
  <2> QED
    BY <2>4, <2>5 DEF GoodFlows, SoundFlow, acts
<1>3. \A t : UnicastTo(t.ofp, F(t))
  BY DEF UnicastTo, OutFlow
<1> HIDE DEF T, F
<1>4. g \in [DOMAIN tnls[s] -> Seq(T)]
  <2>1. \A i \in DOMAIN tnls[s] : <<F(tnls[s][i])>> \in Seq(T)
    BY <1>1, <1>2
  <2> QED
    BY <2>1
<1>5. FlattenSeq(g) \in Seq(T)
  <2> HIDE DEF g
  <2> QED
    BY <1>1, <1>4, FlattenSeqOf
<1>6. ASSUME NEW t \in Range(tnls[s])
      PROVE  \E i \in DOMAIN FlattenSeq(g) : UnicastTo(t.ofp, FlattenSeq(g)[i])
  <2>1. PICK k \in DOMAIN tnls[s] : t = tnls[s][k]
    BY DEF Range
  <2>2. 1 \in DOMAIN g[k] /\ g[k][1] = F(t)
    BY <2>1
  <2>3. \E i \in DOMAIN FlattenSeq(g) : FlattenSeq(g)[i] = g[k][1]
    <3> HIDE DEF g
    <3>1. PICK seq \in Seq(TnlPorts) : seq = tnls[s]
      BY <1>1
    <3>2. PICK n \in Nat : n = Len(seq) /\ DOMAIN seq = 1..n
      OBVIOUS
    <3>3. g \in Seq(Seq(T)) /\ k \in 1..Len(g)
      BY <1>4, <2>1, <3>1, <3>2
    <3> QED
      BY <2>2, <3>3, FlattenHolds
  <2> HIDE DEF g
  <2> QED
    BY <1>3, <2>2, <2>3
<1> QED
  BY <1>5, <1>6 DEF T, F

\* The unicast flows of uplinks.
LEMMA UnicastUplink ==
  ASSUME TypeOK, Ports, NEW s \in Suts, NEW m \in Deployments
  PROVE  /\ m \in L2Overlays =>
              FlattenSeq([i \in DOMAIN Uplinks |->
                <<OutFlow(20, ANY, ANY, Uplinks[i], ANY, UplinkAs(m) \o Out(Uplinks[i]))>>])
                \in Seq(GoodFlows(s, m))
         /\ m = "native" =>
              FlattenSeq([i \in DOMAIN Uplinks |->
                <<OutFlow(20, ANY, ANY, Uplinks[i], ANY, Out(Uplinks[i]))>>])
                \in Seq(GoodFlows(s, m))
<1> DEFINE T == GoodFlows(s, m)
           U == OFP_UPLINK_BASE
           g == [i \in DOMAIN Uplinks |->
                  <<OutFlow(20, ANY, ANY, Uplinks[i], ANY, UplinkAs(m) \o Out(Uplinks[i]))>>]
           h == [i \in DOMAIN Uplinks |-> <<OutFlow(20, ANY, ANY, Uplinks[i], ANY, Out(Uplinks[i]))>>]
<1>1. Uplinks \in Seq({U}) /\ U \in Externals /\ U \in Int /\ ANY \in Int
  BY UplinksAre DEF Externals, OFP_UPLINK_BASE, ANY
<1>2. \A i \in DOMAIN Uplinks : Uplinks[i] = U
  BY <1>1
<1>3. Out(U) \in Seq({Act("out", U)}) /\ Out(U) \in Seq(Actions)
  BY DEF Out, Act, Actions, OFP_UPLINK_BASE
<1>4. ASSUME m \in L2Overlays PROVE OutFlow(20, ANY, ANY, U, ANY, UplinkAs(m) \o Out(U)) \in T
  <2> DEFINE acts == UplinkAs(m) \o Out(U)
  <2>1. ASSUME NEW n
        PROVE  /\ acts \in Seq(Actions)
               /\ SoundActs(s, m, <<>> \o acts, n)
               /\ \A i \in DOMAIN acts : acts[i].op = "out" => acts[i].arg = U
    <3>1. <<>> \in PlainActs(s, n)
      BY EmptyIsPlain, Zenon
    <3> QED
      BY <1>3, <1>4, <3>1, UplinkIsSound, Zenon
  <2> HIDE DEF acts
  <2>2. /\ acts \in Seq(Actions)
        /\ \A i \in DOMAIN acts : acts[i].op = "out" => acts[i].arg = U
    BY <2>1, Zenon
  <2>3. <<>> \o acts = acts
    BY <2>2
  <2>4. \A n : SoundActs(s, m, acts, n)
    BY <2>1, <2>3
  <2>5. OutFlow(20, ANY, ANY, U, ANY, acts) \in OutFlows
    BY <1>1, <2>2 DEF OutFlow, OutFlows
  <2>6. ToExternal(s, m, OutFlow(20, ANY, ANY, U, ANY, acts))
    BY <1>1, <2>2, <2>4 DEF OutFlow, ToExternal
  <2> QED
    BY <2>5, <2>6 DEF GoodFlows, SoundFlow, acts
<1>5. ASSUME m = "native" PROVE OutFlow(20, ANY, ANY, U, ANY, Out(U)) \in T
  BY <1>1, <1>3, <1>5 DEF OutFlow, OutFlows, GoodFlows, Overlays
<1> HIDE DEF T, U
<1>6. ASSUME m \in L2Overlays PROVE FlattenSeq(g) \in Seq(T)
  <2>1. <<OutFlow(20, ANY, ANY, U, ANY, UplinkAs(m) \o Out(U))>> \in Seq(T)
    BY <1>4, <1>6
  <2>2. g \in [DOMAIN Uplinks -> Seq(T)]
    BY <1>2, <2>1
  <2> HIDE DEF g
  <2> QED
    BY <1>1, <2>2, FlattenSeqOf
<1>7. ASSUME m = "native" PROVE FlattenSeq(h) \in Seq(T)
  <2>1. <<OutFlow(20, ANY, ANY, U, ANY, Out(U))>> \in Seq(T)
    BY <1>5, <1>7
  <2>2. h \in [DOMAIN Uplinks -> Seq(T)]
    BY <1>2, <2>1
  <2> HIDE DEF h
  <2> QED
    BY <1>1, <2>2, FlattenSeqOf
<1> QED
  BY <1>6, <1>7 DEF T

\* The flows that check the metadata, and those of VIFs.
LEMMA UnicastLocal ==
  ASSUME TypeOK, Ports, NEW s \in Suts, NEW m \in Deployments
  PROVE  /\ FlattenSeq([i \in DOMAIN tnls[s] |-> FlattenSeq([j \in DOMAIN VniKeys(s) |->
               <<OutFlow(15, tnls[s][i].ofp, ANY, ANY, VniKeys(s)[j], <<Act("out_reg1", 0)>>)>>])])
              \in Seq(GoodFlows(s, m))
         /\ FlattenSeq([i \in DOMAIN vifs[s] |-> <<OutFlow(10, ANY, ANY, vifs[s][i], ANY, Out(vifs[s][i]))>>])
              \in Seq(GoodFlows(s, m))
<1> DEFINE T == GoodFlows(s, m)
           keys == VniKeys(s)
           acts == <<Act("out_reg1", 0)>>
           h(p) == [j \in DOMAIN keys |-> <<OutFlow(15, p, ANY, ANY, keys[j], acts)>>]
           g == [i \in DOMAIN tnls[s] |-> FlattenSeq(h(tnls[s][i].ofp))]
           v == [i \in DOMAIN vifs[s] |-> <<OutFlow(10, ANY, ANY, vifs[s][i], ANY, Out(vifs[s][i]))>>]
<1>1. keys \in Seq({Vni(p) : p \in Range(vifs[s])})
  BY VniKeysAre
<1>2. \A p \in Range(vifs[s]) : Vni(p) \in Nat
  BY VniValue DEF Ports, SutPorts, TypeOK
<1>3. \A i \in DOMAIN keys : keys[i] \in Int
  <2> HIDE DEF keys
  <2> QED
    BY <1>1, <1>2
<1>4. tnls[s] \in Seq(TnlPorts) /\ \A i \in DOMAIN tnls[s] : tnls[s][i].ofp \in Int
  BY TnlsAre
<1>5. ANY \in Int /\ acts \in Seq(Actions)
  BY DEF ANY, Act, Actions
<1>6. ASSUME NEW i \in DOMAIN tnls[s] PROVE kind = "int"
  <2>1. DOMAIN tnls[s] # {} /\ DOMAIN <<>> = {}
    OBVIOUS
  <2>2. kind = "phy" => tnls[s] = <<>>
    BY DEF Ports, SutPorts
  <2> QED
    BY <2>1, <2>2, PipelineAssumption DEF TypeOK
<1>7. ASSUME NEW i \in DOMAIN tnls[s], NEW n \in Int
      PROVE  OutFlow(15, tnls[s][i].ofp, ANY, ANY, n, acts) \in T
  BY <1>4, <1>5, <1>6 DEF OutFlow, OutFlows, GoodFlows, SoundFlow, ByMetadata
<1>8. ASSUME NEW p \in Locals(s) PROVE OutFlow(10, ANY, ANY, p, ANY, Out(p)) \in T
  <2>1. p \in Nat /\ p \in Int
    BY PortNumbers
  <2>2. Out(p) \in Seq(Actions)
    BY <2>1 DEF Out, Act, Actions
  <2> QED
    BY <1>5, <2>1, <2>2 DEF OutFlow, OutFlows, GoodFlows, SoundFlow, ToVif
<1>9. vifs[s] \in Seq(Nat) /\ \A i \in DOMAIN vifs[s] : vifs[s][i] \in Locals(s)
  BY DEF Ports, SutPorts, Range, TypeOK
<1> HIDE DEF T, keys, acts
<1>10. ASSUME NEW i \in DOMAIN tnls[s] PROVE FlattenSeq(h(tnls[s][i].ofp)) \in Seq(T)
  <2>1. \A n \in Int : <<OutFlow(15, tnls[s][i].ofp, ANY, ANY, n, acts)>> \in Seq(T)
    BY <1>7
  <2>2. h(tnls[s][i].ofp) \in [DOMAIN keys -> Seq(T)]
    BY <1>3, <2>1
  <2> HIDE DEF h
  <2> QED
    BY <1>1, <2>2, FlattenSeqOf
<1>11. FlattenSeq(g) \in Seq(T)
  <2>1. g \in [DOMAIN tnls[s] -> Seq(T)]
    <3> HIDE DEF h
    <3> QED
      BY <1>10
  <2> HIDE DEF g
  <2> QED
    BY <1>4, <2>1, FlattenSeqOf
<1>12. FlattenSeq(v) \in Seq(T)
  <2>1. \A p \in Locals(s) : <<OutFlow(10, ANY, ANY, p, ANY, Out(p))>> \in Seq(T)
    BY <1>8
  <2>2. v \in [DOMAIN vifs[s] -> Seq(T)]
    BY <1>9, <2>1
  <2> HIDE DEF v
  <2> QED
    BY <1>9, <2>2, FlattenSeqOf
<1> QED
  BY <1>11, <1>12 DEF T, keys, acts

\* generate_output_flows makes sound flows, and the tunnel overlay's has a unicast flow
\* for every tunnel port.
LEMMA GeneratedOutput ==
  ASSUME TypeOK, Ports, NEW s \in Suts, NEW m \in Deployments, NEW md \in BOOLEAN
  PROVE  LET flows == generate_output_flows(s, m, md)
         IN  /\ flows \in Seq(GoodFlows(s, m))
             /\ m = "tnl" => \A t \in Range(tnls[s]) : \E i \in DOMAIN flows : UnicastTo(t.ofp, flows[i])
<1> DEFINE T == GoodFlows(s, m)
           flood == Flooding(s, m, md)
           tnl == FlattenSeq([i \in DOMAIN tnls[s] |->
                    <<OutFlow(20, ANY, ANY, tnls[s][i].ofp, ANY, TnlAs(s, tnls[s][i], md))>>])
           l2 == FlattenSeq([i \in DOMAIN Uplinks |->
                    <<OutFlow(20, ANY, ANY, Uplinks[i], ANY, UplinkAs(m) \o Out(Uplinks[i]))>>])
           native == FlattenSeq([i \in DOMAIN Uplinks |->
                    <<OutFlow(20, ANY, ANY, Uplinks[i], ANY, Out(Uplinks[i]))>>])
           meta == FlattenSeq([i \in DOMAIN tnls[s] |-> FlattenSeq([j \in DOMAIN VniKeys(s) |->
                    <<OutFlow(15, tnls[s][i].ofp, ANY, ANY, VniKeys(s)[j], <<Act("out_reg1", 0)>>)>>])])
           loc == FlattenSeq([i \in DOMAIN vifs[s] |->
                    <<OutFlow(10, ANY, ANY, vifs[s][i], ANY, Out(vifs[s][i]))>>])
           ext == IF m = "tnl" THEN tnl ELSE IF m \in L2Overlays THEN l2 ELSE native
           check == IF md THEN meta ELSE <<>>
<1>1. m \in {"tnl", "vlan", "qinq", "native"}
  BY DEF Deployments, Overlays
<1>2. /\ tnl \in Seq(T)
      /\ \A t \in Range(tnls[s]) : \E i \in DOMAIN tnl : UnicastTo(t.ofp, tnl[i])
  BY UnicastTunnel
<1>3. (m \in L2Overlays => l2 \in Seq(T)) /\ (m = "native" => native \in Seq(T))
  BY UnicastUplink
<1>4. meta \in Seq(T) /\ loc \in Seq(T)
  BY UnicastLocal
<1>5. flood \in Seq(T)
  BY FloodingGood
<1>6. Unicast(s, m, md) = (ext \o check) \o loc
  BY <1>1 DEF Unicast, ForEach, L2Overlays
<1>7. generate_output_flows(s, m, md) = flood \o ((ext \o check) \o loc)
  BY <1>6 DEF generate_output_flows
<1> HIDE DEF T, flood, tnl, l2, native, meta, loc
<1>8. ext \in Seq(T) /\ check \in Seq(T)
  <2>1. <<>> \in Seq(T)
    OBVIOUS
  <2> QED
    BY <1>1, <1>2, <1>3, <1>4, <2>1 DEF L2Overlays
<1>9. m = "tnl" => ext = tnl
  OBVIOUS
<1> HIDE DEF ext, check
<1>10. PICK a \in Seq(T) : a = ext \o check
  BY <1>8, ConcatSeq, Zenon
<1>11. PICK b \in Seq(T) : b = a \o loc
  BY <1>4, ConcatSeq, Zenon
<1>12. PICK c \in Seq(T) : c = flood \o b
  BY <1>5, ConcatSeq, Zenon
<1>13. generate_output_flows(s, m, md) = c
  BY <1>7, <1>10, <1>11, <1>12, Zenon
<1>14. ASSUME m = "tnl", NEW t \in Range(tnls[s]) PROVE \E i \in DOMAIN c : UnicastTo(t.ofp, c[i])
  <2>1. PICK i \in DOMAIN ext : UnicastTo(t.ofp, ext[i])
    BY <1>2, <1>9, <1>14
  <2>2. i \in DOMAIN a /\ a[i] = ext[i]
    BY <1>8, <1>10, <2>1, ConcatHolds
  <2>3. i \in DOMAIN b /\ b[i] = a[i]
    BY <1>4, <1>11, <2>2, ConcatHolds
  <2>4. Len(flood) + i \in DOMAIN c /\ c[Len(flood) + i] = b[i]
    BY <1>5, <1>12, <2>3, ConcatHolds
  <2> QED
    BY <2>1, <2>2, <2>3, <2>4
<1> QED
  BY <1>13, <1>14 DEF T

\* A table has the flows written to it and, for each, one with its match.
LEMMA Provisioned ==
  ASSUME NEW T, NEW flows \in Seq(T), NEW table
  PROVE  /\ provision_flows(table, flows) \subseteq table \cup T
         /\ provision_flows({}, flows) \subseteq T
         /\ \A i \in DOMAIN flows : \E g \in provision_flows({}, flows) : Match(g) = Match(flows[i])
<1> DEFINE Stays(i) == \A j \in DOMAIN flows : j > i => Match(flows[j]) # Match(flows[i])
<1>1. \A i \in DOMAIN flows : flows[i] \in T
  OBVIOUS
<1>2. \A t : provision_flows(t, flows) =
             {g \in t : \A i \in DOMAIN flows : Match(flows[i]) # Match(g)}
             \cup {flows[i] : i \in {i \in DOMAIN flows : Stays(i)}}
  BY DEF provision_flows
<1>3. ASSUME NEW k \in DOMAIN flows
      PROVE  \E g \in provision_flows({}, flows) : Match(g) = Match(flows[k])
  <2> DEFINE same == {j \in DOMAIN flows : Match(flows[j]) = Match(flows[k])}
  <2>1. same \in SUBSET Nat /\ same # {} /\ Len(flows) \in Nat /\ \A j \in same : j <= Len(flows)
    OBVIOUS
  <2>2. PICK j \in same : \A i \in same : i <= j
    <3> HIDE DEF same
    <3> QED
      BY <2>1, LargestNat
  <2>3. Stays(j)
    <3> SUFFICES ASSUME NEW i \in DOMAIN flows, i > j, Match(flows[i]) = Match(flows[j]) PROVE FALSE
      OBVIOUS
    <3>1. i \in same
      BY <2>2
    <3>2. i <= j
      BY <2>2, <3>1
    <3> QED
      BY <2>1, <2>2, <3>2
  <2>4. flows[j] \in provision_flows({}, flows)
    <3> HIDE DEF Stays
    <3> QED
      BY <1>2, <2>2, <2>3
  <2> QED
    BY <2>2, <2>4
<1> HIDE DEF Stays
<1>4. provision_flows(table, flows) \subseteq table \cup T /\ provision_flows({}, flows) \subseteq T
  BY <1>1, <1>2
<1> QED
  BY <1>3, <1>4

\* The match of a flow tells whether it is a port's unicast flow.
LEMMA UnicastByMatch ==
  ASSUME NEW f \in OutFlows, NEW g \in OutFlows, Match(f) = Match(g), NEW p, UnicastTo(p, f)
  PROVE  UnicastTo(p, g)
<1>1. ASSUME NEW h \in OutFlows PROVE Match(h) = <<h.prio, h.in, h.reg0, h.reg1, h.md>>
  BY DEF Match, OutFlows
<1>2. <<f.prio, f.in, f.reg0, f.reg1, f.md>> = <<g.prio, g.in, g.reg0, g.reg1, g.md>>
  BY <1>1
<1> QED
  BY <1>2 DEF UnicastTo

\* OUTPUT after a deployment has written it.
LEMMA OutputWritten ==
  ASSUME TypeOK, Ports, NEW s \in Suts, NEW m \in Deployments, NEW md \in BOOLEAN
  PROVE  LET output == provision_flows({}, generate_output_flows(s, m, md))
         IN  /\ output \subseteq OutFlows
             /\ m \in Overlays => \A f \in output : SoundFlow(s, m, f)
             /\ m = "tnl" => \A t \in Range(tnls[s]) : \E f \in output : UnicastTo(t.ofp, f)
<1> DEFINE T == GoodFlows(s, m)
           flows == generate_output_flows(s, m, md)
           output == provision_flows({}, flows)
<1>1. /\ flows \in Seq(T)
      /\ m = "tnl" => \A t \in Range(tnls[s]) : \E i \in DOMAIN flows : UnicastTo(t.ofp, flows[i])
  BY GeneratedOutput
<1>2. T \subseteq OutFlows /\ (m \in Overlays => \A f \in T : SoundFlow(s, m, f))
  BY DEF GoodFlows
<1> HIDE DEF T, flows
<1>3. /\ output \subseteq T
      /\ \A i \in DOMAIN flows : \E g \in output : Match(g) = Match(flows[i])
  BY <1>1, Provisioned, Zenon
<1>4. \A i \in DOMAIN flows : flows[i] \in T
  BY <1>1
<1> HIDE DEF output
<1>5. ASSUME m = "tnl", NEW t \in Range(tnls[s]) PROVE \E f \in output : UnicastTo(t.ofp, f)
  <2>1. PICK i \in DOMAIN flows : UnicastTo(t.ofp, flows[i])
    BY <1>1, <1>5
  <2>2. PICK g \in output : Match(g) = Match(flows[i])
    BY <1>3
  <2>3. g \in OutFlows /\ flows[i] \in OutFlows
    BY <1>2, <1>3, <1>4
  <2> QED
    BY <2>1, <2>2, <2>3, UnicastByMatch
<1> QED
  BY <1>2, <1>3, <1>5 DEF output, flows

-------------------------------------------------------------------------------
(* A packet through the tables of a SUT. *)

\* It comes from a VIF of the SUT, or from the network.
FromVif(s, in, p) == \E v \in Range(VifsOf[s]) : in = Ofp(v) /\ p.src = <<s, v>> /\ p.tags = <<>>
FromNet(s, in, p) == p.to = s /\ in \in InPorts(p)
Enters(s, in, p) == FromVif(s, in, p) \/ FromNet(s, in, p)

\* It belongs to a VNI: that of its VIF, or the one it carries.
EntersAs(s, in, p, m, n) ==
  \/ FromVif(s, in, p) /\ n = Vni(in)
  \/ FromNet(s, in, p) /\ Carries(p, m, n)

\* Where the network delivers a packet.
LEMMA InPortsAre ==
  ASSUME TypeOK, NEW s \in Suts, NEW in, NEW p, FromNet(s, in, p)
  PROVE  /\ in \in Externals
         /\ kind = "phy" => in = OFP_UPLINK_BASE
         /\ kind # "phy" => \E t \in Range(tnls[s]) : /\ t.ofp = in /\ t.rip \in {FLOW, p.from}
                                                      /\ t.vni \in {FLOW, p.tun}
<1>1. CASE kind = "phy"
  BY <1>1 DEF FromNet, InPorts, Externals
<1>2. CASE kind # "phy"
  <2>1. PICK i \in DOMAIN tnls[s] : /\ in = tnls[s][i].ofp /\ tnls[s][i].rip \in {FLOW, p.from}
                                    /\ tnls[s][i].vni \in {FLOW, p.tun}
    BY <1>2 DEF FromNet, InPorts, WorkingPorts
  <2>2. tnls[s][i] \in Range(tnls[s])
    BY DEF Range
  <2>3. in \in Externals
    BY <2>1, TnlsAre, PortNumbers
  <2> QED
    BY <1>2, <2>1, <2>2, <2>3
<1> QED
  BY <1>1, <1>2

\* A local port is not where the network delivers.
LEMMA LocalInPort ==
  ASSUME TypeOK, NEW s \in Suts, NEW in, NEW p
  PROVE  /\ FromVif(s, in, p) => in \in Locals(s) /\ in \notin Externals /\ in \in Nat /\ in # 0
         /\ FromNet(s, in, p) => in \in Externals /\ in \notin Locals(s) /\ in \in Nat
<1>1. ASSUME FromVif(s, in, p) PROVE in \in Locals(s) /\ in \notin Externals /\ in \in Nat /\ in # 0
  <2>1. PICK v \in Range(VifsOf[s]) : in = Ofp(v)
    BY <1>1 DEF FromVif
  <2>2. Ofp(v) \in Locals(s) /\ Ofp(v) \in Nat /\ Ofp(v) >= 10
    BY PortNumbers
  <2>3. Locals(s) \cap Externals = {}
    BY PortNumbers
  <2> QED
    BY <2>1, <2>2, <2>3
<1>2. ASSUME FromNet(s, in, p) PROVE in \in Externals /\ in \notin Locals(s) /\ in \in Nat
  <2>1. in \in Externals
    BY <1>2, InPortsAre
  <2>2. Locals(s) \cap Externals = {} /\ Externals \subseteq Nat
    BY PortNumbers
  <2> QED
    BY <2>1, <2>2
<1> QED
  BY <1>1, <1>2

\* The flow of INPUT that a packet meets.
LEMMA InputFlowMet ==
  ASSUME TypeOK, NEW s \in Suts, NEW in, NEW p, NEW m \in Deployments, Fits(m),
         NEW f \in InputFlows(s, m), f.in \in {ANY, in}
  PROVE  /\ FromVif(s, in, p) =>
              \/ m = "native" /\ f.set = "nothing"
              \/ m \in {"tnl", "vlan"} /\ f.set = "load" /\ f.vni = Vni(in)
              \/ m = "qinq" /\ f.set = "load2" /\ f.vni = Vni(in)
         /\ FromNet(s, in, p) =>
              \/ m = "native" /\ f.set = "nothing"
              \/ m = "tnl" /\ kind = "int" /\ f.set = "tun_id"
              \/ m = "vlan" /\ kind = "phy" /\ f.set = "tag"
              \/ m = "qinq" /\ kind = "phy" /\ f.set = "tags"
<1>1. CASE m = "native"
  BY <1>1 DEF InputFlows, InFlow
<1>2. CASE m \in {"tnl", "vlan", "qinq"}
  <2>1. /\ Locals(s) \subseteq Nat /\ Externals \subseteq Nat
        /\ Range(TunnelIds) \subseteq Externals /\ OFP_UPLINK_BASE \in Externals
    BY PortNumbers DEF Externals
  <2>2. \/ /\ f.in \in Locals(s) /\ f.vni = Vni(f.in)
           /\ f.set = IF m = "qinq" THEN "load2" ELSE "load"
        \/ /\ f.in \in Externals
           /\ \/ m = "tnl" /\ f.set = "tun_id"
              \/ m = "vlan" /\ f.set = "tag"
              \/ m = "qinq" /\ f.set = "tags"
    <3>1. CASE m = "tnl"
      BY <2>1, <3>1 DEF InputFlows, InFlow
    <3>2. CASE m = "vlan"
      BY <2>1, <3>2 DEF InputFlows, InFlow
    <3>3. CASE m = "qinq"
      BY <2>1, <3>3 DEF InputFlows, InFlow
    <3> QED
      BY <1>2, <3>1, <3>2, <3>3
  <2>3. f.in # ANY
    BY <2>1, <2>2 DEF ANY
  <2>4. f.in = in
    BY <2>3
  <2>5. (m = "tnl" => kind = "int") /\ (m \in {"vlan", "qinq"} => kind = "phy")
    BY DEF Fits, L2Overlays
  <2> QED
    BY <1>2, <2>2, <2>4, <2>5, LocalInPort
<1> QED
  BY <1>1, <1>2 DEF Deployments, Overlays

\* What CORE learns from a packet, whatever INPUT is in place.
LEMMA EntryLearned ==
  ASSUME TypeOK, Tables, NEW s \in Suts, NEW in, NEW p, Enters(s, in, p),
         NEW f \in tables[s].input, f.in \in {ANY, in}
  PROVE  SoundEntry(s, [reg0 |-> InputReg0(f, p), mac |-> p.src, port |-> in])
<1>1. PICK m \in Deployments : Fits(m) /\ f \in InputFlows(s, m)
  BY DEF Tables, SutTables, Deployments
<1> DEFINE e == [reg0 |-> InputReg0(f, p), mac |-> p.src, port |-> in]
<1>2. CASE FromVif(s, in, p)
  <2>1. e.reg0[1] \in {VNI_NONE, Vni(in)}
    <3>1. \/ f.set = "nothing"
          \/ f.set \in {"load", "load2"} /\ f.vni = Vni(in)
      BY <1>1, <1>2, InputFlowMet
    <3> QED
      BY <3>1 DEF InputReg0, VNI_NONE
  <2> QED
    BY <1>2, <2>1 DEF FromVif, SoundEntry
<1>3. CASE FromNet(s, in, p)
  <2>1. CASE kind = "phy"
    BY <1>3, <2>1, InPortsAre DEF SoundEntry
  <2>2. CASE kind # "phy"
    <3>1. PICK t \in Range(tnls[s]) : t.ofp = in /\ t.vni \in {FLOW, p.tun}
      BY <1>3, <2>2, InPortsAre
    <3>2. f.set = "nothing" \/ f.set = "tun_id"
      BY <1>1, <1>3, <2>2, InputFlowMet
    <3>3. e.reg0[1] \in {VNI_NONE, p.tun}
      BY <3>2 DEF InputReg0, VNI_NONE
    <3> QED
      BY <3>1, <3>3 DEF SoundEntry
  <2> QED
    BY <2>1, <2>2
<1> QED
  BY <1>2, <1>3 DEF Enters

\* reg0 holds a VNI the way an overlay's flows use it.
HoldsVni(reg0, m, n) == reg0[1] = n /\ (m = "qinq" => reg0[2] = n + 100)

Untagging(f, p) == InputTags(f, p) = <<>>

\* Under an overlay INPUT puts the VNI in reg0 and takes the tags off.
LEMMA InputSound ==
  ASSUME TypeOK, Tables, NEW s \in Suts, NEW m \in Overlays, prog[s] = m, NEW n \in Nat,
         NEW in, NEW p, EntersAs(s, in, p, m, n),
         NEW f \in tables[s].input, f.in \in {ANY, in}
  PROVE  HoldsVni(InputReg0(f, p), m, n) /\ Untagging(f, p)
<1> USE DEF HoldsVni, Untagging
<1>1. Fits(m) /\ f \in InputFlows(s, m) /\ m \in Deployments /\ m \in {"tnl", "vlan", "qinq"}
  BY DEF Tables, SutTables, Deployments, Overlays
<1>2. CASE FromVif(s, in, p) /\ n = Vni(in)
  <2>1. \/ m \in {"tnl", "vlan"} /\ f.set = "load" /\ f.vni = n
        \/ m = "qinq" /\ f.set = "load2" /\ f.vni = n
    BY <1>1, <1>2, InputFlowMet
  <2>2. p.tags = <<>>
    BY <1>2 DEF FromVif
  <2>3. InputReg0(f, p)[1] = n /\ (m = "qinq" => InputReg0(f, p)[2] = n + 100)
    BY <2>1 DEF InputReg0
  <2>4. InputTags(f, p) = SubSeq(<<>>, 1, 0)
    BY <2>1, <2>2 DEF InputTags
  <2> QED
    BY <2>3, <2>4
<1>3. CASE FromNet(s, in, p) /\ Carries(p, m, n)
  <2>1. \/ m = "tnl" /\ f.set = "tun_id"
        \/ m = "vlan" /\ f.set = "tag"
        \/ m = "qinq" /\ f.set = "tags"
    <3>1. FromNet(s, in, p) =>
            \/ m = "native"
            \/ m = "tnl" /\ f.set = "tun_id"
            \/ m = "vlan" /\ f.set = "tag"
            \/ m = "qinq" /\ f.set = "tags"
      BY <1>1, InputFlowMet
    <3> QED
      BY <1>1, <1>3, <3>1
  <2>2. CASE m = "tnl"
    <3>1. p.tags = <<>> /\ p.tun = n /\ f.set = "tun_id"
      BY <1>3, <2>1, <2>2 DEF Carries
    <3>2. InputTags(f, p) = SubSeq(<<>>, 1, 0)
      BY <3>1 DEF InputTags
    <3> QED
      BY <2>2, <3>1, <3>2 DEF InputReg0
  <2>3. CASE m = "vlan"
    <3>1. p.tags = <<n>> /\ f.set = "tag"
      BY <1>3, <2>1, <2>3 DEF Carries
    <3>2. InputTags(f, p) = SubSeq(<<n>>, 2, 1)
      BY <3>1 DEF InputTags
    <3>3. InputReg0(f, p) = <<n, 0>>
      <4>1. <<n>> # <<>> /\ Head(<<n>>) = n
        OBVIOUS
      <4> QED
        BY <3>1, <4>1 DEF InputReg0
    <3> QED
      BY <2>3, <3>2, <3>3
  <2>4. CASE m = "qinq"
    <3>1. p.tags = <<n + 100, n>> /\ f.set = "tags"
      BY <1>3, <2>1, <2>4 DEF Carries
    <3>2. InputTags(f, p) = SubSeq(<<n + 100, n>>, 3, 2)
      BY <3>1 DEF InputTags
    <3>3. InputReg0(f, p) = <<n, n + 100>>
      BY <3>1 DEF InputReg0
    <3> QED
      BY <3>2, <3>3
  <2> QED
    BY <1>1, <2>2, <2>3, <2>4
<1> QED
  BY <1>2, <1>3 DEF EntersAs

\* What reg1 may be for a frame of a VNI: nothing, the VIF it is for, or a way out that
\* takes the VNI.
Leads(s, n, dst, reg1) ==
  \/ reg1 = 0
  \/ \E v \in Range(VifsOf[s]) : dst = <<s, v>> /\ reg1 = Ofp(v) /\ Vni(reg1) = n
  \/ kind = "phy" /\ reg1 = OFP_UPLINK_BASE
  \/ \E t \in Range(tnls[s]) : t.ofp = reg1 /\ t.vni \in {FLOW, n}

\* An entry that a frame of a VNI finds: what was learned without a VNI is only found when
\* no VIF has one.
LEMMA EntryLeads ==
  ASSUME TypeOK, Ports, NEW s \in Suts, NEW n \in Vnis, NEW e, SoundEntry(s, e), e.reg0[1] = n
  PROVE  Leads(s, n, e.mac, e.port)
<1>1. n \in Nat /\ (n = VNI_NONE => ~assigned) /\ assigned \in BOOLEAN
  BY VniValue DEF TypeOK
<1>2. CASE \E v \in Range(VifsOf[s]) : /\ e.mac = <<s, v>> /\ e.port = Ofp(v)
                                       /\ e.reg0[1] \in {VNI_NONE, Vni(Ofp(v))}
  <2>1. PICK v \in Range(VifsOf[s]) : /\ e.mac = <<s, v>> /\ e.port = Ofp(v)
                                      /\ n \in {VNI_NONE, Vni(Ofp(v))}
    BY <1>2
  <2>2. ~assigned => Vni(Ofp(v)) = VNI_NONE
    <3>1. Ofp(v) \in Locals(s)
      BY PortNumbers
    <3> QED
      BY <1>1, <3>1, VniValue
  <2>3. Vni(Ofp(v)) = n
    BY <1>1, <2>1, <2>2
  <2> QED
    BY <2>1, <2>3 DEF Leads
<1>3. CASE kind = "phy" /\ e.port = OFP_UPLINK_BASE
  BY <1>3 DEF Leads
<1>4. CASE \E t \in Range(tnls[s]) : t.ofp = e.port /\ (t.vni = FLOW \/ e.reg0[1] \in {VNI_NONE, t.vni})
  <2>1. PICK t \in Range(tnls[s]) : t.ofp = e.port /\ (t.vni = FLOW \/ n \in {VNI_NONE, t.vni})
    BY <1>4
  <2>2. ~assigned => t.vni \in {FLOW, VNI_NONE}
    BY DEF Ports, SutPorts, Range
  <2>3. t.vni \in {FLOW, n}
    BY <1>1, <2>1, <2>2
  <2> QED
    BY <2>1, <2>3 DEF Leads
<1> QED
  BY <1>2, <1>3, <1>4 DEF SoundEntry

\* The lookup in FIB, after the packet's own entry.
LEMMA LookupLeads ==
  ASSUME TypeOK, Ports, NEW s \in Suts, NEW n \in Vnis, NEW table, \A e \in table : SoundEntry(s, e),
         NEW reg0, reg0[1] = n, NEW dst
  PROVE  Leads(s, n, dst, Lookup(table, reg0, dst))
<1> DEFINE Hit(e) == e.reg0 = reg0 /\ e.mac = dst
<1>1. CASE \E e \in table : Hit(e)
  <2>1. PICK e \in table : Hit(e) /\ Lookup(table, reg0, dst) = e.port
    BY <1>1 DEF Lookup
  <2>2. SoundEntry(s, e) /\ e.reg0[1] = n /\ e.mac = dst
    BY <2>1
  <2> QED
    BY <2>1, <2>2, EntryLeads
<1>2. CASE ~\E e \in table : Hit(e)
  <2>1. Lookup(table, reg0, dst) = 0
    BY <1>2 DEF Lookup
  <2> QED
    BY <2>1 DEF Leads
<1> QED
  BY <1>1, <1>2

\* FIB after a packet.
LEMMA LearnedSound ==
  ASSUME TypeOK, Tables, FibEntries, NEW s \in Suts, NEW in, NEW p, Enters(s, in, p),
         NEW f \in tables[s].input, f.in \in {ANY, in}
  PROVE  \A e \in Learned(s, InputReg0(f, p), p.src, in) : SoundEntry(s, e)
<1> DEFINE new == [reg0 |-> InputReg0(f, p), mac |-> p.src, port |-> in]
<1>1. SoundEntry(s, new)
  BY EntryLearned
<1>2. \A e \in Learned(s, InputReg0(f, p), p.src, in) : e \in fib[s] \/ e = new
  BY DEF Learned
<1> HIDE DEF new
<1> QED
  BY <1>1, <1>2 DEF FibEntries

\* The copy that leaves at an action.
CopyOf(acts, i, reg0, reg1, tags) ==
  [port |-> IF acts[i].op = "out" THEN acts[i].arg ELSE reg1,
   tags |-> (IF Before(acts, i, "push_hi") THEN <<reg0[2]>> ELSE <<>>)
            \o (IF Before(acts, i, "push_lo") THEN <<reg0[1]>> ELSE <<>>) \o tags,
   tun  |-> IF Before(acts, i, "tun_id") THEN reg0[1] ELSE 0,
   tdst |-> LET set == {j \in 1..(i - 1) : acts[j].op = "tun_dst"}
            IN  IF set = {} THEN 0 ELSE acts[Max(set)].arg,
   md   |-> IF Before(acts, i, "md") THEN reg0[1] ELSE ANY]

Copies(acts, reg0, reg1, tags) ==
  {CopyOf(acts, i, reg0, reg1, tags) : i \in {i \in DOMAIN acts : acts[i].op \in {"out", "out_reg1"}}}

\* Run makes such copies.
LEMMA RunIs ==
  ASSUME NEW acts \in Seq(Actions), NEW reg0, NEW reg1, NEW tags
  PROVE  Run(acts, reg0, reg1, tags) \in Seq(Copies(acts, reg0, reg1, tags))
<1> DEFINE T == Copies(acts, reg0, reg1, tags)
           C(i) == CopyOf(acts, i, reg0, reg1, tags)
           seq == [i \in DOMAIN acts |-> i]
           g == [i \in DOMAIN seq |-> IF acts[seq[i]].op \in {"out", "out_reg1"} THEN <<C(seq[i])>> ELSE <<>>]
<1>1. seq \in Seq(DOMAIN acts)
  OBVIOUS
<1>2. Run(acts, reg0, reg1, tags) = FlattenSeq(g)
  BY DEF Run, ForEach, CopyOf, Before
<1>3. \A i \in DOMAIN acts : acts[i].op \in {"out", "out_reg1"} => C(i) \in T
  BY DEF Copies
<1>4. \A i \in DOMAIN seq : seq[i] \in DOMAIN acts
  OBVIOUS
<1> HIDE DEF T, C, seq
<1>5. \A i \in DOMAIN seq : acts[seq[i]].op \in {"out", "out_reg1"} => <<C(seq[i])>> \in Seq(T)
  BY <1>3, <1>4
<1>6. g \in [DOMAIN seq -> Seq(T)]
  <2>1. <<>> \in Seq(T)
    OBVIOUS
  <2> QED
    BY <1>5, <2>1
<1> HIDE DEF g
<1> QED
  BY <1>1, <1>2, <1>6, FlattenSeqOf DEF T

\* A copy that a frame of a VNI may leave behind under an overlay.
GoodCopy(s, m, n, o) ==
  \/ o.port = OFP_LOCAL
  \/ /\ o.tags = <<>>
     /\ \/ o.port \in Locals(s) /\ Vni(o.port) = n
        \/ \E t \in Range(tnls[s]) : t.ofp = o.port /\ (IF t.vni = FLOW THEN o.tun = n ELSE t.vni = n)
  \/ o.port = OFP_UPLINK_BASE /\ o.tags = IF m = "qinq" THEN <<n + 100, n>> ELSE <<n>>

\* Sound actions make such copies.
LEMMA SoundCopies ==
  ASSUME NEW s, NEW m, NEW n \in Nat, NEW acts \in Seq(Actions), SoundActs(s, m, acts, n),
         NEW reg0, HoldsVni(reg0, m, n), NEW reg1,
         NEW o \in Copies(acts, reg0, reg1, <<>>)
  PROVE  GoodCopy(s, m, n, o)
<1>0. reg0[1] = n /\ (m = "qinq" => reg0[2] = n + 100)
  BY DEF HoldsVni
<1>1. PICK i \in DOMAIN acts : /\ acts[i].op \in {"out", "out_reg1"}
                               /\ o = CopyOf(acts, i, reg0, reg1, <<>>)
  BY DEF Copies
<1>2. /\ acts[i].op = "out"
      /\ \/ acts[i].arg = OFP_LOCAL
         \/ /\ ~Before(acts, i, "push_lo") /\ ~Before(acts, i, "push_hi")
            /\ \/ acts[i].arg \in Locals(s) /\ Vni(acts[i].arg) = n
               \/ \E t \in Range(tnls[s]) : /\ t.ofp = acts[i].arg
                                            /\ \/ t.vni = FLOW /\ Before(acts, i, "tun_id")
                                               \/ t.vni = n
         \/ /\ acts[i].arg = OFP_UPLINK_BASE
            /\ Before(acts, i, "push_lo")
            /\ Before(acts, i, "push_hi") <=> m = "qinq"
  BY <1>1 DEF SoundActs
<1>3. o.port = acts[i].arg
  BY <1>1, <1>2 DEF CopyOf
<1>4. o.tun = IF Before(acts, i, "tun_id") THEN n ELSE 0
  BY <1>0, <1>1 DEF CopyOf
<1>5. o.tags = (IF Before(acts, i, "push_hi") THEN <<reg0[2]>> ELSE <<>>)
               \o (IF Before(acts, i, "push_lo") THEN <<n>> ELSE <<>>) \o <<>>
  BY <1>0, <1>1 DEF CopyOf
<1>6. ~Before(acts, i, "push_lo") /\ ~Before(acts, i, "push_hi") => o.tags = <<>>
  BY <1>5
<1>7. Before(acts, i, "push_lo") /\ (Before(acts, i, "push_hi") <=> m = "qinq") =>
        o.tags = IF m = "qinq" THEN <<n + 100, n>> ELSE <<n>>
  <2>1. ASSUME Before(acts, i, "push_lo"), Before(acts, i, "push_hi"), m = "qinq"
        PROVE  o.tags = <<n + 100, n>>
    <3>1. o.tags = (<<n + 100>> \o <<n>>) \o <<>>
      BY <1>0, <1>5, <2>1, Zenon
    <3>2. ASSUME NEW a \in Nat, NEW b \in Nat
          PROVE  <<a>> \o <<b>> = <<a, b>> /\ <<a, b>> \in Seq(Nat)
      <4>1. <<a>> \in Seq(Nat) /\ <<b>> \in Seq(Nat) /\ <<a, b>> \in Seq(Nat)
        OBVIOUS
      <4>2. PICK x \in Seq(Nat) : x = <<a>> \o <<b>>
        BY <4>1, ConcatSeq, Zenon
      <4>3. Len(x) = 2 /\ x[1] = a /\ x[2] = b
        BY <4>2
      <4>4. x = <<a, b>>
        BY <4>1, <4>3
      <4> QED
        BY <4>1, <4>2, <4>4
    <3>3. n + 100 \in Nat /\ \A c \in Seq(Nat) : c \o <<>> = c
      OBVIOUS
    <3> QED
      BY <3>1, <3>2, <3>3, ZenonT(30)
  <2>2. ASSUME Before(acts, i, "push_lo"), ~Before(acts, i, "push_hi"), m # "qinq"
        PROVE  o.tags = <<n>>
    <3>1. o.tags = (<<>> \o <<n>>) \o <<>>
      BY <1>5, <2>2, Zenon
    <3> QED
      BY <3>1
  <2> QED
    BY <2>1, <2>2, Zenon
<1>8. n # FLOW
  BY DEF FLOW
<1> QED
  BY <1>2, <1>3, <1>4, <1>6, <1>7, <1>8 DEF GoodCopy

\* A flow of OUTPUT that matches, with the highest priority of those that do.
Chosen(s, f, in, reg0, reg1, md) ==
  /\ f \in tables[s].output /\ Matches(f, in, reg0, reg1, md)
  /\ \A h \in tables[s].output : Matches(h, in, reg0, reg1, md) => f.prio >= h.prio

\* Once a destination is known, no other VIF of the SUT gets a copy.
ToKnown(s, reg1, o) == reg1 # 0 /\ o.port \in Locals(s) => o.port \in {OFP_LOCAL, reg1}

\* The copies of the flow of OUTPUT that a frame of a VNI meets under an overlay.
LEMMA FlowCopies ==
  ASSUME TypeOK, Ports, Tables, NEW s \in Suts, NEW m \in Overlays, prog[s] = m, NEW n \in Vnis,
         NEW in, NEW p, EntersAs(s, in, p, m, n),
         NEW reg0, HoldsVni(reg0, m, n),
         NEW reg1, Leads(s, n, p.dst, reg1),
         NEW f, Chosen(s, f, in, reg0, reg1, p.md),
         NEW o \in Copies(f.acts, reg0, reg1, <<>>)
  PROVE  GoodCopy(s, m, n, o) /\ ToKnown(s, reg1, o)
<1> USE DEF ToKnown
<1>0. /\ f \in tables[s].output /\ Matches(f, in, reg0, reg1, p.md)
      /\ \A h \in tables[s].output : Matches(h, in, reg0, reg1, p.md) => f.prio >= h.prio
  BY DEF Chosen
<1>1. /\ SoundFlow(s, m, f) /\ f.acts \in Seq(Actions) /\ f \in OutFlows
      /\ \A t \in Range(tnls[s]) : \E h \in tables[s].output : UnicastTo(t.ofp, h)
  <2>1. f \in OutFlows
    BY <1>0 DEF TypeOK
  <2>2. f.acts \in Seq(Actions)
    BY <2>1 DEF OutFlows
  <2> QED
    BY <1>0, <2>1, <2>2 DEF Tables, SutTables
<1>2. n \in Nat /\ f.reg1 \in {ANY, reg1} /\ f.in \in {ANY, in} /\ f.reg0 \in {ANY, n}
  BY <1>0, VniValue DEF TypeOK, Matches, HoldsVni
<1>3. /\ Locals(s) \subseteq Nat /\ Externals \subseteq Nat /\ Locals(s) \cap Externals = {}
      /\ 0 \notin Externals /\ \A x \in Nat : x # ANY
      /\ OFP_UPLINK_BASE \in Externals /\ OFP_UPLINK_BASE \notin Range(TunnelIds)
  BY PortNumbers DEF ANY, Externals
<1>4. \A t \in Range(tnls[s]) : t.ofp \in Externals /\ t.ofp \in Range(TunnelIds)
  BY TnlsAre, PortNumbers DEF Range
<1>5. SoundActs(s, m, f.acts, n) => GoodCopy(s, m, n, o)
  BY <1>1, <1>2, SoundCopies
<1>6. PICK i \in DOMAIN f.acts : /\ f.acts[i].op \in {"out", "out_reg1"}
                                 /\ o = CopyOf(f.acts, i, reg0, reg1, <<>>)
  BY DEF Copies
<1>7. o.port = IF f.acts[i].op = "out" THEN f.acts[i].arg ELSE reg1
  BY <1>6 DEF CopyOf
<1>8. CASE FloodsVif(s, m, f)
  <2>1. f.in \in Locals(s) /\ f.reg1 = 0 /\ SoundActs(s, m, f.acts, Vni(f.in))
    BY <1>8 DEF FloodsVif
  <2>2. f.in = in /\ reg1 = 0
    BY <1>2, <1>3, <2>1 DEF ANY
  <2>3. ~FromNet(s, in, p)
    BY <2>1, <2>2, LocalInPort
  <2>4. n = Vni(in)
    BY <2>3 DEF EntersAs
  <2> QED
    BY <1>5, <2>1, <2>2, <2>4
<1>9. CASE FloodsExternal(s, m, f)
  <2>1. f.reg0 = n /\ f.reg1 = 0 /\ SoundActs(s, m, f.acts, f.reg0)
    BY <1>2, <1>9 DEF FloodsExternal
  <2>2. reg1 = 0
    BY <1>2, <2>1 DEF ANY
  <2> QED
    BY <1>5, <2>1, <2>2
<1>10. CASE ToExternal(s, m, f)
  <2>1. f.reg1 = reg1 /\ reg1 \in Externals
    BY <1>2, <1>3, <1>10 DEF ToExternal
  <2>2. \A t \in Range(tnls[s]) : t.ofp = f.reg1 => t.vni \in {FLOW, n}
    <3> SUFFICES ASSUME NEW t \in Range(tnls[s]), t.ofp = reg1 PROVE t.vni \in {FLOW, n}
      BY <2>1
    <3>1. \E u \in Range(tnls[s]) : u.ofp = reg1 /\ u.vni \in {FLOW, n}
      <4>1. \A v \in Range(VifsOf[s]) : Ofp(v) \in Locals(s)
        BY PortNumbers
      <4> QED
        BY <1>3, <1>4, <2>1, <4>1 DEF Leads
    <3>2. PICK u \in Range(tnls[s]) : u.ofp = reg1 /\ u.vni \in {FLOW, n}
      BY <3>1
    <3>3. PICK j \in DOMAIN tnls[s], k \in DOMAIN tnls[s] : t = tnls[s][j] /\ u = tnls[s][k]
      BY DEF Range
    <3>4. tnls[s][j].ofp = tnls[s][k].ofp
      BY <3>2, <3>3
    <3>5. j = k
      BY <3>4 DEF Ports, SutPorts
    <3> QED
      BY <3>2, <3>3, <3>5
  <2>3. SoundActs(s, m, f.acts, n)
    BY <1>10, <2>2 DEF ToExternal
  <2>4. f.acts[i].op = "out" /\ f.acts[i].arg = reg1
    BY <1>6, <1>10, <2>1, <2>3 DEF ToExternal, SoundActs
  <2> QED
    BY <1>5, <1>7, <2>3, <2>4
<1>11. CASE ByMetadata(f)
  <2>1. /\ f.prio = 15 /\ kind = "int" /\ DOMAIN f.acts = {1} /\ f.acts[1] = Act("out_reg1", 0)
    BY <1>11 DEF ByMetadata
  <2>2. i = 1 /\ o.port = reg1
    BY <1>6, <1>7, <2>1 DEF Act
  <2>3. o.tags = <<>>
    <3>1. \A op : ~Before(f.acts, 1, op)
      BY DEF Before
    <3>2. o.tags = (<<>> \o <<>>) \o <<>>
      BY <1>6, <2>2, <3>1 DEF CopyOf
    <3> QED
      BY <3>2
  <2>4. ASSUME NEW t \in Range(tnls[s]), t.ofp = reg1 PROVE FALSE
    <3>1. PICK h \in tables[s].output : UnicastTo(t.ofp, h)
      BY <1>1
    <3>2. Matches(h, in, reg0, reg1, p.md) /\ h.prio = 20
      BY <2>4, <3>1 DEF UnicastTo, Matches
    <3>3. f.prio >= h.prio
      BY <1>0, <3>2
    <3> QED
      BY <2>1, <3>2, <3>3
  <2>5. \/ reg1 = 0
        \/ \E v \in Range(VifsOf[s]) : reg1 = Ofp(v) /\ Vni(reg1) = n
    BY <2>1, <2>4 DEF Leads
  <2>6. \A v \in Range(VifsOf[s]) : Ofp(v) \in Locals(s)
    BY PortNumbers
  <2> QED
    BY <2>2, <2>3, <2>5, <2>6 DEF GoodCopy, OFP_LOCAL
<1>12. CASE ToVif(s, f)
  <2>1. /\ f.reg1 \in Locals(s) /\ DOMAIN f.acts = {1} /\ f.acts[1] = Act("out", f.reg1)
    BY <1>12 DEF ToVif, Out
  <2>2. f.reg1 = reg1 /\ reg1 \in Locals(s)
    BY <1>2, <1>3, <2>1
  <2>3. i = 1 /\ o.port = reg1
    BY <1>6, <1>7, <2>1, <2>2 DEF Act
  <2>4. o.tags = <<>>
    <3>1. \A op : ~Before(f.acts, 1, op)
      BY DEF Before
    <3>2. o.tags = (<<>> \o <<>>) \o <<>>
      BY <1>6, <2>3, <3>1 DEF CopyOf
    <3> QED
      BY <3>2
  <2>5. reg1 = 0 \/ Vni(reg1) = n
    BY <1>3, <1>4, <2>2 DEF Leads
  <2> QED
    BY <2>2, <2>3, <2>4, <2>5 DEF GoodCopy, OFP_LOCAL
<1> QED
  BY <1>1, <1>8, <1>9, <1>10, <1>11, <1>12 DEF SoundFlow

\* A table of flows that match has one of the highest priority.
LEMMA HighestPriority ==
  ASSUME NEW flows \in SUBSET OutFlows, flows # {}
  PROVE  \E f \in flows : \A g \in flows : f.prio >= g.prio
<1> DEFINE P == {f.prio : f \in flows}
<1>1. \A f \in flows : f.prio \in {10, 15, 20, 100}
  BY DEF OutFlows
<1>2. P \in SUBSET Nat /\ P # {} /\ \A x \in P : x <= 100
  BY <1>1
<1>3. PICK x \in P : \A y \in P : y <= x
  <2> HIDE DEF P
  <2> QED
    BY <1>2, LargestNat
<1>4. PICK f \in flows : x = f.prio
  BY <1>3
<1>5. ASSUME NEW g \in flows PROVE f.prio >= g.prio
  <2>1. g.prio <= x
    BY <1>3
  <2> QED
    BY <1>1, <1>4, <2>1
<1> QED
  BY <1>5

\* The outputs that are left when none goes back to the port.
Kept(outs, in) == FlattenSeq([i \in DOMAIN outs |-> IF outs[i].port = in THEN <<>> ELSE <<outs[i]>>])

\* They are outputs, and go elsewhere.
LEMMA KeptAre ==
  ASSUME NEW T, NEW outs \in Seq(T), NEW in
  PROVE  Kept(outs, in) \in Seq({o \in T : o.port # in})
<1> DEFINE U == {o \in T : o.port # in}
           g == [i \in DOMAIN outs |-> IF outs[i].port = in THEN <<>> ELSE <<outs[i]>>]
<1>1. \A i \in DOMAIN outs : outs[i].port # in => outs[i] \in U
  OBVIOUS
<1> HIDE DEF U
<1>2. \A i \in DOMAIN outs : outs[i].port # in => <<outs[i]>> \in Seq(U)
  BY <1>1
<1>3. <<>> \in Seq(U)
  OBVIOUS
<1>4. g \in [DOMAIN outs -> Seq(U)]
  BY <1>2, <1>3
<1> HIDE DEF g
<1>5. FlattenSeq(g) \in Seq(U)
  BY <1>4, FlattenSeqOf
<1> QED
  BY <1>5 DEF Kept, U, g

\* What Forward returns: nothing happens, or INPUT has a flow for the packet, the packet's
\* source is learned, and OUTPUT has a flow of the highest priority for it or none.
ForwardsAs(s, in, p, r) ==
  \/ r.fib = fib[s] /\ r.known = FALSE /\ r.outs = <<>>
  \/ \E f \in tables[s].input :
       LET reg0 == InputReg0(f, p)
           table == Learned(s, reg0, p.src, in)
           reg1 == Lookup(table, reg0, p.dst)
       IN  /\ f.in \in {ANY, in} /\ tables[s].base
           /\ r.fib = table /\ r.known = (reg1 # 0)
           /\ \/ r.outs = <<>>
              \/ \E g \in tables[s].output :
                   /\ Chosen(s, g, in, reg0, reg1, p.md)
                   /\ r.outs = Kept(Run(g.acts, reg0, reg1, InputTags(f, p)), in)

\* Forward returns one of these.
LEMMA ForwardIs ==
  ASSUME TypeOK, NEW s \in Suts, NEW in, NEW p
  PROVE  ForwardsAs(s, in, p, Forward(s, in, p))
<1> DEFINE inflows == {f \in tables[s].input : f.in \in {ANY, in}}
           inflow == CHOOSE f \in inflows : TRUE
           reg0 == InputReg0(inflow, p)
           table == Learned(s, reg0, p.src, in)
           reg1 == Lookup(table, reg0, p.dst)
           outflows == {f \in tables[s].output : Matches(f, in, reg0, reg1, p.md)}
           outflow == CHOOSE f \in outflows : \A g \in outflows : f.prio >= g.prio
           outs == IF outflows = {} THEN <<>> ELSE Run(outflow.acts, reg0, reg1, InputTags(inflow, p))
           r == Forward(s, in, p)
<1>1. r = IF ~tables[s].base \/ inflows = {}
            THEN [fib |-> fib[s], known |-> FALSE, outs |-> <<>>]
            ELSE [fib |-> table, known |-> reg1 # 0, outs |-> Kept(outs, in)]
  BY DEF Forward, ForEach, Kept
<1>2. CASE ~tables[s].base \/ inflows = {}
  <2>1. r = [fib |-> fib[s], known |-> FALSE, outs |-> <<>>]
    BY <1>1, <1>2, Zenon
  <2> HIDE DEF r
  <2>2. r.fib = fib[s] /\ r.known = FALSE /\ r.outs = <<>>
    BY <2>1
  <2> QED
    BY <2>2 DEF r, ForwardsAs
<1>3. CASE ~(~tables[s].base \/ inflows = {})
  <2>1. r = [fib |-> table, known |-> reg1 # 0, outs |-> Kept(outs, in)]
    BY <1>1, <1>3, Zenon
  <2>2. inflow \in inflows
    BY <1>3
  <2>3. inflow \in tables[s].input /\ inflow.in \in {ANY, in} /\ tables[s].base
    BY <1>3, <2>2
  <2> HIDE DEF inflow, r
  <2>4. r.fib = table /\ r.known = (reg1 # 0) /\ r.outs = Kept(outs, in)
    BY <2>1, Zenon
  <2>5. CASE outflows = {}
    <3>1. outs = <<>>
      BY <2>5
    <3>2. Kept(<<>>, in) = <<>>
      <4>1. [i \in DOMAIN <<>> |-> IF <<>>[i].port = in THEN <<>> ELSE <<<<>>[i]>>] = <<>>
        OBVIOUS
      <4> QED
        BY <4>1, Zenon DEF Kept, FlattenSeq
    <3> HIDE DEF reg0, table, reg1, outs
    <3>3. r.outs = <<>>
      BY <2>4, <3>1, <3>2, Zenon
    <3> QED
      BY <2>3, <2>4, <3>3, Zenon DEF reg0, table, reg1, r, ForwardsAs
  <2>6. CASE outflows # {}
    <3>1. outflows \in SUBSET OutFlows
      BY DEF TypeOK
    <3>2. \E f \in outflows : \A g \in outflows : f.prio >= g.prio
      <4> HIDE DEF outflows
      <4> QED
        BY <2>6, <3>1, HighestPriority
    <3>3. outflow \in outflows /\ \A g \in outflows : outflow.prio >= g.prio
      <4> HIDE DEF outflows
      <4> QED
        BY <3>2
    <3>4. outs = Run(outflow.acts, reg0, reg1, InputTags(inflow, p))
      BY <2>6
    <3> HIDE DEF reg0, table, reg1, outs, outflow
    <3>5. outflow \in tables[s].output /\ Chosen(s, outflow, in, reg0, reg1, p.md)
      BY <3>3 DEF Chosen
    <3>6. r.outs = Kept(Run(outflow.acts, reg0, reg1, InputTags(inflow, p)), in)
      BY <2>4, <3>4, Zenon
    <3> HIDE DEF outflows
    <3> QED
      BY <2>3, <2>4, <3>5, <3>6, Zenon DEF reg0, table, reg1, r, ForwardsAs
  <2> QED
    BY <2>5, <2>6
<1> QED
  BY <1>2, <1>3

\* An output of a frame of a VNI under an overlay, by whether its destination was known.
GoodOut(s, m, n, dst, known, o) ==
  /\ GoodCopy(s, m, n, o)
  /\ known /\ o.port \in Locals(s) =>
       o.port = OFP_LOCAL \/ \E v \in Range(VifsOf[s]) : dst = <<s, v>> /\ o.port = Ofp(v)

\* A packet through a SUT: what FIB has learned, and what leaves, under any tables and under
\* those of an overlay.
LEMMA ForwardSound ==
  ASSUME TypeOK, Ports, Tables, FibEntries, NEW s \in Suts, NEW in, NEW p, Enters(s, in, p)
  PROVE  LET r == Forward(s, in, p)
         IN  /\ \A e \in r.fib : SoundEntry(s, e) /\ (e \in fib[s] \/ (e.mac = p.src /\ e.port = in))
             /\ r.known \in BOOLEAN /\ (~tables[s].base => r.fib = fib[s])
             /\ \E T : /\ r.outs \in Seq(T)
                       /\ \A o \in T : o.port # in
                       /\ \A m \in Overlays : \A n \in Vnis :
                            prog[s] = m /\ EntersAs(s, in, p, m, n) =>
                              \A o \in T : GoodOut(s, m, n, p.dst, r.known, o)
<1> DEFINE r == Forward(s, in, p)
<1>0. <<>> \in Seq({})
  OBVIOUS
<1>1. CASE r.fib = fib[s] /\ r.known = FALSE /\ r.outs = <<>>
  <2> HIDE DEF r
  <2>1. \A e \in r.fib : SoundEntry(s, e) /\ e \in fib[s]
    BY <1>1 DEF FibEntries
  <2>2. r.outs \in Seq({}) /\ r.known \in BOOLEAN /\ r.fib = fib[s]
    BY <1>0, <1>1
  <2>3. \E T : r.outs \in Seq(T) /\ T = {}
    BY <2>2
  <2> QED
    BY <2>1, <2>2, <2>3, Zenon DEF r
<1>2. ASSUME NEW f \in tables[s].input, f.in \in {ANY, in},
             NEW reg0, reg0 = InputReg0(f, p), NEW table, table = Learned(s, reg0, p.src, in),
             NEW reg1, reg1 = Lookup(table, reg0, p.dst),
             tables[s].base, r.fib = table, r.known = (reg1 # 0),
             \/ r.outs = <<>>
             \/ \E g \in tables[s].output :
                  /\ Chosen(s, g, in, reg0, reg1, p.md)
                  /\ r.outs = Kept(Run(g.acts, reg0, reg1, InputTags(f, p)), in)
      PROVE  /\ \A e \in r.fib : SoundEntry(s, e) /\ (e \in fib[s] \/ (e.mac = p.src /\ e.port = in))
             /\ r.known \in BOOLEAN /\ (~tables[s].base => r.fib = fib[s])
             /\ \E T : /\ r.outs \in Seq(T)
                       /\ \A o \in T : o.port # in
                       /\ \A m \in Overlays : \A n \in Vnis :
                            prog[s] = m /\ EntersAs(s, in, p, m, n) =>
                              \A o \in T : GoodOut(s, m, n, p.dst, r.known, o)
  <2> HIDE DEF r
  <2>1. \A e \in table : SoundEntry(s, e)
    BY <1>2, LearnedSound
  <2>2. \A e \in table : e \in fib[s] \/ (e.mac = p.src /\ e.port = in)
    BY <1>2 DEF Learned
  <2>3. CASE r.outs = <<>>
    <3>1. \E T : r.outs \in Seq(T) /\ T = {}
      BY <1>0, <2>3
    <3> QED
      BY <1>2, <2>1, <2>2, <3>1
  <2>4. ASSUME NEW g \in tables[s].output, Chosen(s, g, in, reg0, reg1, p.md),
               r.outs = Kept(Run(g.acts, reg0, reg1, InputTags(f, p)), in)
        PROVE  \E T : /\ r.outs \in Seq(T)
                      /\ \A o \in T : o.port # in
                      /\ \A m \in Overlays : \A n \in Vnis :
                           prog[s] = m /\ EntersAs(s, in, p, m, n) =>
                             \A o \in T : GoodOut(s, m, n, p.dst, r.known, o)
    <3> DEFINE C == Copies(g.acts, reg0, reg1, InputTags(f, p))
               T == {o \in C : o.port # in}
    <3>1. g.acts \in Seq(Actions)
      BY DEF TypeOK, OutFlows
    <3>2. Run(g.acts, reg0, reg1, InputTags(f, p)) \in Seq(C)
      BY <3>1, RunIs
    <3>3. r.outs \in Seq(T)
      <4> HIDE DEF C
      <4> QED
        BY <2>4, <3>2, KeptAre
    <3>4. ASSUME NEW m \in Overlays, NEW n \in Vnis, prog[s] = m, EntersAs(s, in, p, m, n), NEW o \in C
          PROVE  GoodOut(s, m, n, p.dst, r.known, o)
      <4>1. n \in Nat
        BY VniValue DEF TypeOK
      <4>2. HoldsVni(reg0, m, n) /\ InputTags(f, p) = <<>>
        <5>1. f.in \in {ANY, in} /\ reg0 = InputReg0(f, p)
          BY <1>2
        <5>3. prog[s] = m /\ EntersAs(s, in, p, m, n)
          BY <3>4
        <5> HIDE DEF C, T
        <5>2. HoldsVni(InputReg0(f, p), m, n) /\ Untagging(f, p)
          BY <4>1, <5>1, <5>3, InputSound, Zenon
        <5> QED
          BY <5>1, <5>2, Zenon DEF Untagging
      <4>3. Leads(s, n, p.dst, reg1)
        <5>1. reg0[1] = n
          BY <4>2 DEF HoldsVni
        <5> QED
          BY <1>2, <2>1, <5>1, LookupLeads
      <4>4. o \in Copies(g.acts, reg0, reg1, <<>>)
        BY <3>4, <4>2
      <4> HIDE DEF C
      <4>5. GoodCopy(s, m, n, o) /\ ToKnown(s, reg1, o)
        BY <2>4, <3>4, <4>2, <4>3, <4>4, FlowCopies
      <4>6. ASSUME reg1 # 0, reg1 \in Locals(s)
            PROVE  \E v \in Range(VifsOf[s]) : p.dst = <<s, v>> /\ reg1 = Ofp(v)
        <5>1. reg1 \notin Externals
          BY <4>6, PortNumbers
        <5>2. \A t \in Range(tnls[s]) : t.ofp \in Externals
          BY TnlsAre, PortNumbers DEF Range
        <5>3. OFP_UPLINK_BASE \in Externals
          BY DEF Externals
        <5> QED
          BY <4>3, <4>6, <5>1, <5>2, <5>3 DEF Leads
      <4> QED
        BY <1>2, <4>5, <4>6 DEF GoodOut, ToKnown
    <3>5. \A o \in T : o.port # in /\ o \in C
      OBVIOUS
    <3> HIDE DEF T, C
    <3> QED
      BY <3>3, <3>4, <3>5
  <2> QED
    BY <1>2, <2>1, <2>2, <2>3, <2>4
<1>3. ForwardsAs(s, in, p, r)
  BY ForwardIs
<1> HIDE DEF r
<1>4. \/ r.fib = fib[s] /\ r.known = FALSE /\ r.outs = <<>>
      \/ \E f \in tables[s].input :
           LET reg0 == InputReg0(f, p)
               table == Learned(s, reg0, p.src, in)
               reg1 == Lookup(table, reg0, p.dst)
           IN  /\ f.in \in {ANY, in} /\ tables[s].base
               /\ r.fib = table /\ r.known = (reg1 # 0)
               /\ \/ r.outs = <<>>
                  \/ \E g \in tables[s].output :
                       /\ Chosen(s, g, in, reg0, reg1, p.md)
                       /\ r.outs = Kept(Run(g.acts, reg0, reg1, InputTags(f, p)), in)
  BY <1>3 DEF ForwardsAs
<1> QED
  BY <1>1, <1>2, <1>4 DEF r

\* What a VIF receives of a SUT's outputs.
LEMMA DeliveredAre ==
  ASSUME NEW s, NEW v, NEW T, NEW outs \in Seq(T)
  PROVE  /\ (\A o \in T : o.port = Ofp(v) => o.tags = <<>>) => Delivered(s, v, outs) \in Seq({<<>>})
         /\ (\A o \in T : o.port # Ofp(v)) => Delivered(s, v, outs) = <<>>
<1> DEFINE g == [i \in DOMAIN outs |-> IF plugged /\ outs[i].port = Ofp(v) THEN <<outs[i].tags>> ELSE <<>>]
           U == {<<>>}
<1>1. Delivered(s, v, outs) = FlattenSeq(g)
  BY DEF Delivered, ForEach
<1>2. \A i \in DOMAIN outs : outs[i] \in T
  OBVIOUS
<1>3. ASSUME \A o \in T : o.port = Ofp(v) => o.tags = <<>> PROVE FlattenSeq(g) \in Seq(U)
  <2>1. \A i \in DOMAIN outs : outs[i].port = Ofp(v) => outs[i].tags \in U
    BY <1>2, <1>3
  <2> HIDE DEF U
  <2>2. \A i \in DOMAIN outs : outs[i].port = Ofp(v) => <<outs[i].tags>> \in Seq(U)
    BY <2>1
  <2>3. <<>> \in Seq(U)
    OBVIOUS
  <2>4. g \in [DOMAIN outs -> Seq(U)]
    BY <2>2, <2>3
  <2> HIDE DEF g
  <2> QED
    BY <2>4, FlattenSeqOf
<1>4. ASSUME \A o \in T : o.port # Ofp(v) PROVE FlattenSeq(g) \in U
  <2>1. g \in [DOMAIN outs -> U]
    BY <1>2, <1>4
  <2>2. <<>> \in U /\ \A a, b \in U : a \o b \in U
    OBVIOUS
  <2> HIDE DEF g, U
  <2> QED
    BY <2>1, <2>2, FlattenInto
<1> HIDE DEF g
<1> QED
  BY <1>1, <1>3, <1>4

\* What the network carries of an output.
LEMMA CarriedAre ==
  ASSUME TypeOK, NEW s \in Suts, NEW p, NEW o, NEW q \in Carried(s, p, o)
  PROVE  /\ q.src = p.src /\ q.dst = p.dst /\ q.from = s /\ q.to \in Suts \ {s} /\ q.tags = o.tags
         /\ \/ o.port = OFP_UPLINK_BASE /\ kind = "phy"
            \/ \E t \in Range(tnls[s]) : /\ o.port # OFP_UPLINK_BASE /\ t.ofp = o.port
                                         /\ q.tun = IF t.vni = FLOW THEN o.tun ELSE t.vni
<1>1. CASE o.port = OFP_UPLINK_BASE
  BY <1>1 DEF Carried
<1>2. CASE o.port # OFP_UPLINK_BASE
  <2>1. PICK i \in DOMAIN tnls[s] :
          LET t == tnls[s][i]
              to == IF t.rip = FLOW THEN o.tdst ELSE t.rip
          IN  /\ t.ofp = o.port /\ to \in Suts \ {s}
              /\ q = [src |-> p.src, dst |-> p.dst, tags |-> o.tags,
                      tun |-> IF t.vni = FLOW THEN o.tun ELSE t.vni, md |-> o.md, from |-> s, to |-> to]
    BY <1>2 DEF Carried, WorkingPorts
  <2>2. tnls[s][i] \in Range(tnls[s])
    BY DEF Range
  <2> QED
    BY <1>2, <2>1, <2>2
<1> QED
  BY <1>1, <1>2

\* A copy of a frame of a VNI carries the VNI.
LEMMA CarriedVni ==
  ASSUME TypeOK, Ports, NEW s \in Suts, NEW m \in Overlays, Fits(m), NEW n \in Nat, NEW p, NEW o,
         GoodCopy(s, m, n, o), NEW q \in Carried(s, p, o)
  PROVE  Carries(q, m, n)
<1>1. /\ q.tags = o.tags
      /\ \/ o.port = OFP_UPLINK_BASE /\ kind = "phy"
         \/ \E t \in Range(tnls[s]) : /\ o.port # OFP_UPLINK_BASE /\ t.ofp = o.port
                                      /\ q.tun = IF t.vni = FLOW THEN o.tun ELSE t.vni
  BY CarriedAre
<1>2. /\ Locals(s) \cap Externals = {} /\ OFP_UPLINK_BASE \in Externals
      /\ OFP_LOCAL \in Locals(s) /\ OFP_UPLINK_BASE \notin Range(TunnelIds)
  BY PortNumbers DEF Externals, Locals
<1>3. \A t \in Range(tnls[s]) : t.ofp \in Externals /\ t.ofp \in Range(TunnelIds)
  BY TnlsAre, PortNumbers DEF Range
<1>4. CASE o.port = OFP_UPLINK_BASE /\ kind = "phy"
  <2>1. o.tags = IF m = "qinq" THEN <<n + 100, n>> ELSE <<n>>
    BY <1>2, <1>3, <1>4 DEF GoodCopy
  <2>2. m \in {"vlan", "qinq"}
    BY <1>4 DEF Fits, Overlays
  <2> QED
    BY <1>1, <2>1, <2>2 DEF Carries
<1>5. ASSUME NEW t \in Range(tnls[s]), o.port # OFP_UPLINK_BASE, t.ofp = o.port,
             q.tun = IF t.vni = FLOW THEN o.tun ELSE t.vni
      PROVE  Carries(q, m, n)
  <2>1. PICK u \in Range(tnls[s]) : /\ o.tags = <<>> /\ u.ofp = o.port
                                    /\ IF u.vni = FLOW THEN o.tun = n ELSE u.vni = n
    BY <1>2, <1>3, <1>5 DEF GoodCopy
  <2>2. PICK j \in DOMAIN tnls[s], k \in DOMAIN tnls[s] : t = tnls[s][j] /\ u = tnls[s][k]
    BY DEF Range
  <2>3. tnls[s][j].ofp = tnls[s][k].ofp
    BY <1>5, <2>1, <2>2
  <2>4. j = k
    BY <2>3 DEF Ports, SutPorts
  <2>5. q.tun = n
    BY <1>5, <2>1, <2>2, <2>4
  <2>6. kind # "phy"
    <3>1. DOMAIN tnls[s] # {} /\ DOMAIN <<>> = {}
      BY <2>2
    <3> QED
      BY <3>1 DEF Ports, SutPorts
  <2>7. m = "tnl"
    BY <2>6 DEF Fits, L2Overlays, Overlays
  <2> QED
    BY <1>1, <2>1, <2>5, <2>7 DEF Carries
<1> QED
  BY <1>1, <1>4, <1>5

-------------------------------------------------------------------------------
(* The inductive invariant. *)

KwRecords == [loop : Loops, sut : 1..(NSuts + 1), pos : 1..3, mode : Overlays \cup {"native"},
              rip : {"flow", "non-flow"}, tid : {"flow", "non-flow"}, md : BOOLEAN]
FrameRecords == [src : Vifs \cup {Bcast}, dst : Vifs \cup {Bcast},
                 met : SUBSET (Progress \cup {"changed"}), known : BOOLEAN]
TableRecords == [base : BOOLEAN, input : SUBSET InFlows, output : SUBSET OutFlows]

\* The port numbers of a SUT's VIFs, and its list with some more of them.
LEMMA VhostOfpsAre ==
  ASSUME NEW s \in Suts
  PROVE  /\ VhostOfps(s) \in Seq(Nat)
         /\ \A i \in DOMAIN VhostOfps(s) : VhostOfps(s)[i] \in Locals(s)
         /\ \A l \in Seq(Nat) : Range(l) \subseteq Locals(s) =>
              l \o VhostOfps(s) \in Seq(Nat) /\ Range(l \o VhostOfps(s)) \subseteq Locals(s)
<1>1. VifsOf[s] \in Seq(Nat) /\ \A i \in DOMAIN VifsOf[s] : VifsOf[s][i] \in Range(VifsOf[s])
  BY PipelineAssumption DEF Range
<1>2. \A i \in DOMAIN VifsOf[s] : Ofp(VifsOf[s][i]) \in Nat /\ Ofp(VifsOf[s][i]) \in Locals(s)
  BY <1>1, PortNumbers
<1>3. /\ VhostOfps(s) \in Seq(Nat)
      /\ \A i \in DOMAIN VhostOfps(s) : VhostOfps(s)[i] \in Locals(s)
  <2>1. PICK k \in Nat : DOMAIN VifsOf[s] = 1..k
    BY <1>1
  <2>2. /\ VhostOfps(s) \in [1..k -> Nat]
        /\ \A i \in 1..k : VhostOfps(s)[i] \in Locals(s)
    BY <1>2, <2>1 DEF VhostOfps
  <2> QED
    BY <2>2
<1>4. ASSUME NEW l \in Seq(Nat), Range(l) \subseteq Locals(s)
      PROVE  l \o VhostOfps(s) \in Seq(Nat) /\ Range(l \o VhostOfps(s)) \subseteq Locals(s)
  <2>1. PICK b \in Seq(Nat) : b = VhostOfps(s)
    BY <1>3
  <2>2. PICK c \in Seq(Nat) : c = l \o b
    BY <2>1, ConcatSeq, Zenon
  <2>3. ASSUME NEW i \in DOMAIN c PROVE c[i] \in Locals(s)
    <3>1. \/ i \in DOMAIN l /\ c[i] = l[i]
          \/ \E k \in DOMAIN b : i = Len(l) + k /\ c[i] = b[k]
      BY <2>2, ConcatSplit
    <3> QED
      BY <1>3, <1>4, <2>1, <3>1 DEF Range
  <2>4. Range(c) \subseteq Locals(s)
    BY <2>3 DEF Range
  <2> QED
    BY <2>1, <2>2, <2>4
<1> QED
  BY <1>3, <1>4

\* What is between the keywords, and what a disturbed frame is.
LEMMA Typical == Idle \in KwRecords /\ Disturbed \in FrameRecords /\ NoTables \in TableRecords
<1>1. Idle \in KwRecords
  BY PipelineAssumption DEF Idle, KwRecords, Loops
<1>2. Disturbed \in FrameRecords
  BY DEF Disturbed, FrameRecords
<1>3. NoTables \in TableRecords
  BY DEF NoTables, TableRecords
<1> QED
  BY <1>1, <1>2, <1>3

\* Initially.
LEMMA InitHolds == Init => PipelineInv /\ StraightInv
<1> SUFFICES ASSUME Init PROVE PipelineInv /\ StraightInv
  OBVIOUS
<1> USE DEF Init
<1>1. TypeOK
  <2>1. \A s \in Suts : <<OFP_LOCAL>> \o VhostOfps(s) \in Seq(Nat)
    <3>1. <<OFP_LOCAL>> \in Seq(Nat)
      BY DEF OFP_LOCAL
    <3> QED
      BY <3>1, VhostOfpsAre, ConcatSeq, Zenon
  <2>2. vifs \in [Suts -> Seq(Nat)] /\ tnls \in [Suts -> Seq(TnlPorts)]
    BY <2>1
  <2>3. TunnelIds \in Seq(Range(TunnelIds))
    BY PipelineAssumption DEF Range
  <2>4. ids \in [Suts -> Seq(Range(TunnelIds))]
    BY <2>3
  <2>5. tables \in [Suts -> TableRecords] /\ DOMAIN fib = Suts /\ prog \in [Suts -> Progress]
    BY Typical DEF Progress
  <2>6. kw \in KwRecords /\ frame \in FrameRecords
    BY Typical
  <2> QED
    BY <2>2, <2>4, <2>5, <2>6 DEF TypeOK, TableRecords, KwRecords, FrameRecords
<1>2. Ports
  <2> SUFFICES ASSUME NEW s \in Suts
               PROVE  /\ Range(vifs[s]) \subseteq Locals(s)
                      /\ tnls[s] = <<>> /\ ids[s] = TunnelIds
    <3>1. /\ TunnelIds \in Seq(Nat) /\ IsInjective(TunnelIds)
          /\ DOMAIN <<>> = {} /\ Len(<<>>) = 0 /\ Len(<<>>) + Len(TunnelIds) = Len(TunnelIds)
      BY PipelineAssumption
    <3> QED
      BY <3>1, Zenon DEF Ports, SutPorts
  <2>1. <<OFP_LOCAL>> \in Seq(Nat) /\ Range(<<OFP_LOCAL>>) \subseteq Locals(s)
    BY DEF OFP_LOCAL, Locals, Range
  <2>2. Range(<<OFP_LOCAL>> \o VhostOfps(s)) \subseteq Locals(s)
    BY <2>1, VhostOfpsAre
  <2> QED
    BY <2>2
<1>3. Keyword /\ Undeploying /\ Writing
  BY DEF Keyword, Undeploying, Writing, Idle, Fits, L2Overlays
<1>4. ASSUME NEW s \in Suts PROVE SutTables(s)
  <2>1. Fits("native") /\ tables[s].input = {} /\ prog[s] = "none"
    BY DEF NoTables, Fits, L2Overlays
  <2> QED
    BY <2>1 DEF SutTables, Overlays
<1>5. FibEntries /\ OnTheWire
  BY DEF FibEntries, OnTheWire
<1>6. ~Steady(Overlays) /\ frame.met # {}
  BY DEF Steady, Overlays, Disturbed
<1>7. Received /\ NoEcho /\ Direct /\ FibSound
  BY <1>6 DEF Received, NoEcho, Direct, FibSound
<1> QED
  BY <1>1, <1>2, <1>3, <1>4, <1>5, <1>7 DEF PipelineInv, Tables, StraightInv

\* What a flow does depends on the kind of bridge, the VNIs and the tunnel ports only.
LEMMA SoundFlowKept ==
  ASSUME kind' = kind, assigned' = assigned, NEW s, tnls'[s] = tnls[s], NEW m, NEW f, SoundFlow(s, m, f)
  PROVE  SoundFlow(s, m, f)'
<1>1. \A p : Vni(p)' = Vni(p)
  BY DEF Vni
<1>2. Vnis' = Vnis
  BY <1>1 DEF Vnis
<1>3. \A acts, vni : SoundActs(s, m, acts, vni) => SoundActs(s, m, acts, vni)'
  <2> SUFFICES ASSUME NEW acts, NEW vni, SoundActs(s, m, acts, vni) PROVE SoundActs(s, m, acts, vni)'
    OBVIOUS
  <2> QED
    BY <1>1 DEF SoundActs, Before, Locals
<1>4. FloodsVif(s, m, f) => FloodsVif(s, m, f)'
  <2>1. Vni(f.in)' = Vni(f.in)
    BY <1>1
  <2> QED
    BY <1>3, <2>1 DEF FloodsVif, Locals
<1>5. FloodsExternal(s, m, f) => FloodsExternal(s, m, f)'
  BY <1>3 DEF FloodsExternal, Externals
<1>6. ToExternal(s, m, f) => ToExternal(s, m, f)'
  BY <1>2, <1>3 DEF ToExternal, Externals
<1>7. ByMetadata(f) => ByMetadata(f)'
  BY DEF ByMetadata
<1>8. ToVif(s, f) => ToVif(s, f)'
  BY DEF ToVif, Locals
<1> QED
  BY <1>4, <1>5, <1>6, <1>7, <1>8 DEF SoundFlow

\* So do the flows of INPUT, on the VNIs alone.
LEMMA InputFlowsKept ==
  ASSUME kind' = kind, assigned' = assigned
  PROVE  /\ \A s, m : InputFlows(s, m)' = InputFlows(s, m)
         /\ \A m : Fits(m)' <=> Fits(m)
<1>1. \A p : Vni(p)' = Vni(p)
  BY DEF Vni
<1> QED
  BY <1>1 DEF InputFlows, Fits

\* A SUT whose ports a step does not touch.
LEMMA SutPortsKept ==
  ASSUME kind' = kind, assigned' = assigned, NEW s, SutPorts(s),
         vifs'[s] = vifs[s], tnls'[s] = tnls[s], ids'[s] = ids[s]
  PROVE  SutPorts(s)'
  BY DEF SutPorts

\* A SUT whose tables and tunnel ports a step does not touch, or whose deployment is no
\* longer complete after it.
LEMMA SutTablesKept ==
  ASSUME kind' = kind, assigned' = assigned, NEW s, SutTables(s), tables'[s] = tables[s],
         prog'[s] \notin Overlays \/ (prog'[s] = prog[s] /\ tnls'[s] = tnls[s])
  PROVE  SutTables(s)'
<1>1. PICK m \in Overlays \cup {"native"} : Fits(m) /\ tables[s].input \subseteq InputFlows(s, m)
  BY DEF SutTables
<1>2. Fits(m)' /\ tables'[s].input \subseteq InputFlows(s, m)'
  BY <1>1, InputFlowsKept
<1>3. ASSUME NEW d \in Overlays, prog'[s] = d
      PROVE  /\ Fits(d)' /\ tables'[s].input \subseteq InputFlows(s, d)'
             /\ \A f \in tables'[s].output : SoundFlow(s, d, f)'
             /\ \A t \in Range(tnls'[s]) : \E f \in tables'[s].output : UnicastTo(t.ofp, f)
  <2>1. prog[s] = d /\ tnls'[s] = tnls[s]
    BY <1>3
  <2>2. /\ Fits(d) /\ tables[s].input \subseteq InputFlows(s, d)
        /\ \A f \in tables[s].output : SoundFlow(s, d, f)
        /\ \A t \in Range(tnls[s]) : \E f \in tables[s].output : UnicastTo(t.ofp, f)
    BY <2>1 DEF SutTables
  <2>3. \A f \in tables'[s].output : SoundFlow(s, d, f)'
    BY <2>1, <2>2, SoundFlowKept
  <2>4. Fits(d)' /\ tables'[s].input \subseteq InputFlows(s, d)'
    BY <2>2, InputFlowsKept
  <2> QED
    BY <2>1, <2>2, <2>3, <2>4
<1> QED
  BY <1>2, <1>3 DEF SutTables

\* FIB entries stay sound while tunnel ports are only added.
LEMMA EntryKept ==
  ASSUME kind' = kind, assigned' = assigned, NEW s, Range(tnls[s]) \subseteq Range(tnls'[s]),
         NEW e, SoundEntry(s, e)
  PROVE  SoundEntry(s, e)'
<1>1. \A p : Vni(p)' = Vni(p)
  BY DEF Vni
<1> QED
  BY <1>1 DEF SoundEntry

\* A keyword's step ends what is said of the frame under way.
LEMMA Quiet ==
  ASSUME PipelineInv, Disturbs
  PROVE  frame' \in FrameRecords /\ OnTheWire' /\ Received' /\ NoEcho' /\ (Direct => Direct')
<1>1. frame' = Disturbed /\ wire' = wire
  BY DEF Disturbs
<1>2. frame' \in FrameRecords
  BY <1>1, Typical
<1>3. \A m \in Overlays : frame'.met # {m}
  BY <1>1 DEF Disturbed, Overlays
<1>4. OnTheWire'
  BY <1>1, <1>3 DEF OnTheWire, PipelineInv
<1>5. ~Steady(Overlays)'
  BY <1>3 DEF Steady, Overlays
<1>6. frame'.met # {}
  BY <1>1 DEF Disturbed
<1>7. Received' /\ NoEcho'
  BY <1>5, <1>6 DEF Received, NoEcho
<1>8. Direct => Direct'
  BY <1>1 DEF Direct
<1> QED
  BY <1>2, <1>4, <1>7, <1>8

\* FIB stays sound when ports are only added and nothing is learned.
LEMMA FibKept ==
  ASSUME kind' = kind, assigned' = assigned, FibEntries,
         \A s \in Suts : Range(tnls[s]) \subseteq Range(tnls'[s]) /\ fib'[s] \subseteq fib[s]
  PROVE  FibEntries' /\ (FibSound => FibSound')
<1>1. FibEntries'
  <2> SUFFICES ASSUME NEW s \in Suts, NEW e \in fib'[s] PROVE SoundEntry(s, e)'
    BY DEF FibEntries
  <2>1. SoundEntry(s, e)
    BY DEF FibEntries
  <2> QED
    BY <2>1, EntryKept
<1>2. ASSUME FibSound PROVE FibSound'
  <2> SUFFICES ASSUME NEW s \in Suts, NEW e \in fib'[s]
               PROVE  IF e.mac[1] = s THEN e.port = Ofp(e.mac[2])
                      ELSE \/ kind' = "phy" /\ e.port = OFP_UPLINK_BASE
                           \/ \E i \in DOMAIN tnls'[s] :
                                tnls'[s][i].ofp = e.port /\ tnls'[s][i].rip \in {FLOW, e.mac[1]}
    BY DEF FibSound
  <2>1. IF e.mac[1] = s THEN e.port = Ofp(e.mac[2])
        ELSE \/ kind = "phy" /\ e.port = OFP_UPLINK_BASE
             \/ \E i \in DOMAIN tnls[s] : tnls[s][i].ofp = e.port /\ tnls[s][i].rip \in {FLOW, e.mac[1]}
    BY <1>2 DEF FibSound
  <2>2. ASSUME NEW i \in DOMAIN tnls[s] PROVE \E j \in DOMAIN tnls'[s] : tnls'[s][j] = tnls[s][i]
    <3>1. tnls[s][i] \in Range(tnls'[s])
      BY DEF Range
    <3> QED
      BY <3>1 DEF Range
  <2>3. ASSUME NEW i \in DOMAIN tnls[s], tnls[s][i].ofp = e.port, tnls[s][i].rip \in {FLOW, e.mac[1]}
        PROVE  \E j \in DOMAIN tnls'[s] : tnls'[s][j].ofp = e.port /\ tnls'[s][j].rip \in {FLOW, e.mac[1]}
    <3>1. PICK j \in DOMAIN tnls'[s] : tnls'[s][j] = tnls[s][i]
      BY <2>2
    <3> QED
      BY <2>3, <3>1
  <2> QED
    BY <2>1, <2>3
<1> QED
  BY <1>1, <1>2

\* The variables of the keywords.
Control ==
  /\ plugged \in BOOLEAN
  /\ vifs \in [Suts -> Seq(Nat)] /\ tnls \in [Suts -> Seq(TnlPorts)]
  /\ ids \in [Suts -> Seq(Range(TunnelIds))]
  /\ tables \in [Suts -> TableRecords] /\ DOMAIN fib = Suts /\ prog \in [Suts -> Progress]

\* They are part of the type.
LEMMA TypeParts ==
  TypeOK <=> Control /\ kind \in Kinds /\ assigned \in BOOLEAN /\ kw \in KwRecords /\ frame \in FrameRecords
  BY DEF TypeOK, Control, TableRecords, KwRecords, FrameRecords

\* A step of a keyword that disturbs the frame under way keeps the invariant when it keeps
\* what is said of the ports, the tables, FIB and the keyword.
LEMMA KeywordStep ==
  ASSUME PipelineInv, StraightInv, Disturbs, kind' = kind, assigned' = assigned,
         Control', kw' \in KwRecords, Ports', Keyword', Undeploying',
         \A s \in Suts : SutTables(s)', Writing', FibEntries', FibSound => FibSound'
  PROVE  PipelineInv' /\ StraightInv'
<1>1. frame' \in FrameRecords /\ OnTheWire' /\ Received' /\ NoEcho' /\ (Direct => Direct')
  BY Quiet
<1>2. kind \in Kinds /\ assigned \in BOOLEAN
  BY TypeParts DEF PipelineInv
<1>3. TypeOK'
  BY <1>1, <1>2 DEF TypeOK, Control, TableRecords, KwRecords, FrameRecords
<1>4. Tables'
  BY DEF Tables
<1>5. PipelineInv'
  BY <1>1, <1>3, <1>4 DEF PipelineInv
<1>6. OnePort' => OnePort
  BY DEF OnePort
<1>7. StraightInv'
  BY <1>1, <1>6 DEF StraightInv
<1> QED
  BY <1>5, <1>7

\* A step that only moves the keyword.
LEMMA KeywordOnly ==
  ASSUME PipelineInv, StraightInv,
         UNCHANGED <<kind, assigned, plugged, vifs, tnls, ids, tables, prog, fib, DataPlane>>,
         kw' \in KwRecords, Keyword', Undeploying', Writing'
  PROVE  PipelineInv' /\ StraightInv'
<1>1. /\ kind' = kind /\ assigned' = assigned /\ plugged' = plugged /\ vifs' = vifs /\ tnls' = tnls
      /\ ids' = ids /\ tables' = tables /\ prog' = prog /\ fib' = fib
      /\ frame' = frame /\ wire' = wire /\ rcvd' = rcvd
  BY DEF DataPlane
<1>2. TypeOK'
  BY <1>1 DEF PipelineInv, TypeOK, KwRecords
<1>3. Ports'
  BY <1>1, SutPortsKept DEF PipelineInv, Ports
<1>4. \A s \in Suts : SutTables(s)'
  BY <1>1, SutTablesKept DEF PipelineInv, Tables
<1>5. FibEntries' /\ (FibSound => FibSound')
  BY <1>1, FibKept DEF PipelineInv
<1>6. \A p : Vni(p)' = Vni(p)
  BY <1>1 DEF Vni
<1>7. OnTheWire'
  <2>1. Vni(Ofp(frame.src[2]))' = Vni(Ofp(frame.src[2]))
    BY <1>1 DEF Vni, Ofp
  <2>2. OnTheWire
    BY DEF PipelineInv
  <2> QED
    BY <1>1, <2>1, <2>2, Zenon DEF OnTheWire
<1>8. Direct' <=> Direct
  BY <1>1 DEF Direct
<1>9. PipelineInv'
  <2>1. Received' <=> Received
    <3>1. \A x : SameVni(x, frame.src)' <=> SameVni(x, frame.src)
      BY <1>1 DEF SameVni, Vni, Ofp
    <3> QED
      BY <1>1, <3>1 DEF Received, Steady
  <2> QED
    BY <1>2, <1>3, <1>4, <1>5, <1>7, <2>1 DEF PipelineInv, Tables
<1>10. NoEcho' <=> NoEcho
  BY <1>1 DEF NoEcho, Steady, Receivers
<1>11. StraightInv'
  BY <1>1, <1>5, <1>8, <1>10 DEF StraightInv, OnePort
<1> QED
  BY <1>9, <1>11

\* Where a keyword goes on.
LEMMA KeywordMoves ==
  ASSUME kw \in KwRecords, kw.sut <= NSuts, Keyword, kind' = kind
  PROVE  /\ kw.sut \in Suts
         /\ NextSut => /\ kw' \in KwRecords /\ kw'.loop = kw.loop /\ kw'.mode = kw.mode
                       /\ kw'.sut = kw.sut + 1 /\ kw'.pos = 1 /\ Keyword'
         /\ NextPos /\ kw.pos < 3 /\ kw.loop \in {"pipeline", "overlay"} =>
              /\ kw' \in KwRecords /\ kw'.loop = kw.loop /\ kw'.mode = kw.mode
              /\ kw'.sut = kw.sut /\ kw'.pos = kw.pos + 1 /\ Keyword'
<1>1. kw.sut \in Suts /\ kw.sut + 1 \in 1..(NSuts + 1)
  BY PipelineAssumption DEF KwRecords, Suts
<1>2. ASSUME NextSut PROVE /\ kw' \in KwRecords /\ kw'.loop = kw.loop /\ kw'.mode = kw.mode
                           /\ kw'.sut = kw.sut + 1 /\ kw'.pos = 1
  <2>1. kw' = [loop |-> kw.loop, sut |-> kw.sut + 1, pos |-> 1, mode |-> kw.mode, rip |-> kw.rip,
               tid |-> kw.tid, md |-> kw.md]
    BY <1>2 DEF NextSut, KwRecords
  <2> QED
    BY <1>1, <2>1 DEF KwRecords
<1>3. ASSUME NextPos, kw.pos < 3
      PROVE  /\ kw' \in KwRecords /\ kw'.loop = kw.loop /\ kw'.mode = kw.mode
             /\ kw'.sut = kw.sut /\ kw'.pos = kw.pos + 1
  <2>1. kw.pos \in 1..3 /\ kw.pos + 1 \in 1..3
    BY <1>3 DEF KwRecords
  <2> QED
    BY <1>3, <2>1 DEF NextPos, KwRecords
<1>4. ASSUME kw'.loop = kw.loop, kw'.mode = kw.mode, kw.loop \in {"pipeline", "overlay"} \/ kw'.pos = 1
      PROVE  Keyword'
  BY <1>4 DEF Keyword, Fits
<1> QED
  BY <1>1, <1>2, <1>3, <1>4

\* Tables that a keyword writes on a SUT.
LEMMA TablesSet ==
  ASSUME PipelineInv, kind' = kind, assigned' = assigned, tnls' = tnls, kw.sut \in Suts,
         NEW t \in TableRecords, NEW d \in Progress, SetTables(t, d),
         \E m \in Deployments : Fits(m) /\ t.input \subseteq InputFlows(kw.sut, m),
         d \in Overlays =>
           /\ Fits(d) /\ t.input \subseteq InputFlows(kw.sut, d)
           /\ \A f \in t.output : SoundFlow(kw.sut, d, f)
           /\ \A p \in Range(tnls[kw.sut]) : \E f \in t.output : UnicastTo(p.ofp, f)
  PROVE  /\ tables' \in [Suts -> TableRecords] /\ prog' \in [Suts -> Progress]
         /\ tables'[kw.sut] = t /\ \A s \in Suts : s # kw.sut => tables'[s] = tables[s]
         /\ \A s \in Suts : SutTables(s)'
<1>1. tables \in [Suts -> TableRecords] /\ prog \in [Suts -> Progress]
  BY TypeParts DEF PipelineInv, Control
<1>2. /\ tables' = [tables EXCEPT ![kw.sut] = t]
      /\ prog' = [prog EXCEPT ![kw.sut] = d]
  BY DEF SetTables
<1>3. /\ tables' \in [Suts -> TableRecords] /\ prog' \in [Suts -> Progress]
      /\ tables'[kw.sut] = t /\ prog'[kw.sut] = d
      /\ \A s \in Suts : s # kw.sut => tables'[s] = tables[s] /\ prog'[s] = prog[s]
  BY <1>1, <1>2
<1>4. ASSUME NEW s \in Suts PROVE SutTables(s)'
  <2>1. CASE s # kw.sut
    <3>1. SutTables(s)
      BY DEF PipelineInv, Tables
    <3> QED
      BY <1>3, <2>1, <3>1, SutTablesKept
  <2>2. CASE s = kw.sut
    <3>1. PICK m \in Deployments : Fits(m)' /\ t.input \subseteq InputFlows(s, m)'
      BY <2>2, InputFlowsKept
    <3>2. d \in Overlays => Fits(d)' /\ t.input \subseteq InputFlows(s, d)'
      BY <2>2, InputFlowsKept
    <3>3. d \in Overlays => \A f \in t.output : SoundFlow(s, d, f)'
      BY <2>2, SoundFlowKept
    <3>4. d \in Overlays => \A p \in Range(tnls'[s]) : \E f \in t.output : UnicastTo(p.ofp, f)
      BY <2>2
    <3>5. tables'[s] = t /\ prog'[s] = d
      BY <1>3, <2>2
    <3> QED
      BY <3>1, <3>2, <3>3, <3>4, <3>5 DEF SutTables, Deployments
  <2> QED
    BY <2>1, <2>2
<1> QED
  BY <1>3, <1>4

\* The keywords begin, go on to their next loop, and end.
LEMMA BeginKeeps ==
  ASSUME PipelineInv, StraightInv, NEW first \in {"pipeline", "tnl_ports", "clear"},
         NEW mode \in Deployments, NEW rip \in {"flow", "non-flow"}, NEW tid \in {"flow", "non-flow"},
         NEW md \in BOOLEAN, Begin(first, mode, rip, tid, md), Fits(mode),
         first = "tnl_ports" => mode = "tnl"
  PROVE  PipelineInv' /\ StraightInv'
<1>1. /\ UNCHANGED <<kind, assigned, plugged, vifs, tnls, ids, tables, prog, fib, DataPlane>>
      /\ kw' = [loop |-> first, sut |-> 1, pos |-> 1, mode |-> mode, rip |-> rip, tid |-> tid, md |-> md]
  BY DEF Begin
<1>2. 1 \in 1..(NSuts + 1)
  BY PipelineAssumption
<1>3. kw' \in KwRecords
  BY <1>1, <1>2 DEF KwRecords, Loops, Deployments
<1>4. Keyword' /\ Writing'
  BY <1>1 DEF Keyword, Writing, Fits
<1>5. Undeploying'
  BY <1>1 DEF Undeploying, Suts
<1> QED
  BY <1>1, <1>3, <1>4, <1>5, KeywordOnly

\* The end of a loop.
LEMMA EndLoopKeeps ==
  ASSUME PipelineInv, StraightInv, EndLoop
  PROVE  PipelineInv' /\ StraightInv'
<1>1. UNCHANGED <<kind, assigned, plugged, vifs, tnls, ids, tables, prog, fib, DataPlane>>
  BY DEF EndLoop
<1>2. kw \in KwRecords /\ Keyword /\ Undeploying /\ kw.sut > NSuts
  BY TypeParts DEF PipelineInv, EndLoop
<1>3. \/ kw' = Idle
      \/ \E next \in {"pipeline", "overlay", "tnl_delete"} :
           /\ kw' = [kw EXCEPT !.loop = next, !.sut = 1, !.pos = 1]
           /\ next = "overlay" => kw.mode # "native"
           /\ next = "tnl_delete" => kw.loop = "clear" /\ kw.mode = "tnl"
  BY DEF EndLoop
<1>4. CASE kw' = Idle
  <2>1. kw' \in KwRecords
    BY <1>4, Typical
  <2>2. Keyword' /\ Writing' /\ Undeploying'
    BY <1>4 DEF Keyword, Writing, Undeploying, Fits, Idle, L2Overlays
  <2> QED
    BY <1>1, <2>1, <2>2, KeywordOnly
<1>5. ASSUME NEW next \in {"pipeline", "overlay", "tnl_delete"},
             kw' = [kw EXCEPT !.loop = next, !.sut = 1, !.pos = 1],
             next = "overlay" => kw.mode # "native",
             next = "tnl_delete" => kw.loop = "clear" /\ kw.mode = "tnl"
      PROVE  PipelineInv' /\ StraightInv'
  <2>1. /\ kw' \in KwRecords /\ kw'.loop = next /\ kw'.mode = kw.mode /\ kw'.pos = 1 /\ kw'.sut = 1
    <3>1. 1 \in 1..(NSuts + 1) /\ next \in Loops
      BY PipelineAssumption DEF Loops
    <3>2. kw' = [loop |-> next, sut |-> 1, pos |-> 1, mode |-> kw.mode, rip |-> kw.rip,
                 tid |-> kw.tid, md |-> kw.md]
      BY <1>2, <1>5 DEF KwRecords
    <3> QED
      BY <1>2, <3>1, <3>2 DEF KwRecords
  <2>2. Keyword' /\ Writing'
    BY <1>1, <1>2, <1>5, <2>1 DEF Keyword, Writing, Fits
  <2>3. Undeploying'
    <3>1. \A s \in Suts : s < kw.sut
      BY <1>2, PipelineAssumption DEF KwRecords, Suts
    <3>2. next = "tnl_delete" => \A s \in Suts : Cleared(s)
      BY <1>2, <1>5, <3>1 DEF Undeploying
    <3>3. \A s : Cleared(s) => Cleared(s)'
      BY <1>1 DEF Cleared
    <3> QED
      BY <2>1, <3>2, <3>3 DEF Undeploying
  <2> QED
    BY <1>1, <2>1, <2>2, <2>3, KeywordOnly
<1> QED
  BY <1>3, <1>4, <1>5

\* A keyword that fails.
LEMMA AbortKeeps ==
  ASSUME PipelineInv, StraightInv, kw' = Idle,
         UNCHANGED <<kind, assigned, plugged, vifs, tnls, ids, tables, prog, fib, DataPlane>>
  PROVE  PipelineInv' /\ StraightInv'
<1>1. kw' \in KwRecords
  BY Typical
<1>2. Keyword' /\ Writing' /\ Undeploying'
  BY DEF Keyword, Writing, Undeploying, Fits, Idle, L2Overlays
<1> QED
  BY <1>1, <1>2, KeywordOnly

\* A step that writes the tables of a SUT.
LEMMA TableStep ==
  ASSUME PipelineInv, StraightInv, Disturbs, UNCHANGED <<kind, assigned, plugged, vifs, tnls, ids>>,
         kw.sut \in Suts, NEW t \in TableRecords, NEW d \in Progress, SetTables(t, d),
         \E m \in Deployments : Fits(m) /\ t.input \subseteq InputFlows(kw.sut, m),
         d \in Overlays =>
           /\ Fits(d) /\ t.input \subseteq InputFlows(kw.sut, d)
           /\ \A f \in t.output : SoundFlow(kw.sut, d, f)
           /\ \A p \in Range(tnls[kw.sut]) : \E f \in t.output : UnicastTo(p.ofp, f),
         fib' = fib \/ fib' = [fib EXCEPT ![kw.sut] = {}],
         kw' \in KwRecords, Keyword', Undeploying', Writing'
  PROVE  PipelineInv' /\ StraightInv'
<1>1. /\ kind' = kind /\ assigned' = assigned /\ plugged' = plugged /\ vifs' = vifs
      /\ tnls' = tnls /\ ids' = ids
  OBVIOUS
<1>2. /\ tables' \in [Suts -> TableRecords] /\ prog' \in [Suts -> Progress]
      /\ \A s \in Suts : SutTables(s)'
  BY <1>1, TablesSet
<1>3. Control /\ Ports /\ FibEntries
  BY TypeParts DEF PipelineInv
<1>4. DOMAIN fib' = Suts /\ \A s \in Suts : fib'[s] \subseteq fib[s]
  BY <1>3 DEF Control
<1>5. Control'
  BY <1>1, <1>2, <1>3, <1>4 DEF Control
<1>6. Ports'
  BY <1>1, <1>3, SutPortsKept DEF Ports
<1>7. FibEntries' /\ (FibSound => FibSound')
  BY <1>1, <1>3, <1>4, FibKept
<1> QED
  BY <1>1, <1>2, <1>5, <1>6, <1>7, KeywordStep

\* Tables without flows in INPUT fit the default deployment.
LEMMA EmptyInput == Fits("native") /\ "native" \in Deployments /\ \A s : {} \subseteq InputFlows(s, "native")
  BY DEF Fits, L2Overlays, Deployments

\* All tables are emptied.
LEMMA ClearAllKeeps ==
  ASSUME PipelineInv, StraightInv, ClearAll
  PROVE  PipelineInv' /\ StraightInv'
<1>1. /\ UNCHANGED <<kind, assigned, plugged, vifs, tnls, ids>> /\ Disturbs
      /\ SetTables(NoTables, "none") /\ fib' = [fib EXCEPT ![kw.sut] = {}]
      /\ kw.sut <= NSuts /\ kw.pos = 1
      /\ \/ kw.loop = "clear" /\ NextSut
         \/ kw.loop = "pipeline" /\ NextPos
  BY DEF ClearAll, In
<1>2. kw \in KwRecords /\ Keyword /\ Undeploying /\ Control
  BY TypeParts DEF PipelineInv
<1>3. kw.sut \in Suts /\ kw' \in KwRecords /\ Keyword' /\ kw'.loop = kw.loop
  BY <1>1, <1>2, KeywordMoves
<1>4. NoTables \in TableRecords /\ "none" \in Progress /\ "none" \notin Overlays
  BY Typical DEF Progress, Overlays
<1>5. \E m \in Deployments : Fits(m) /\ NoTables.input \subseteq InputFlows(kw.sut, m)
  BY EmptyInput DEF NoTables
<1>6. Writing'
  BY <1>1, <1>3 DEF Writing
<1>7. Undeploying'
  <2>1. CASE kw.loop = "pipeline"
    BY <1>3, <2>1 DEF Undeploying
  <2>2. CASE kw.loop = "clear"
    <3>1. kw'.sut = kw.sut + 1
      BY <1>1, <1>2, <2>2, KeywordMoves
    <3>2. \A s \in Suts : s < kw.sut + 1 => s < kw.sut \/ s = kw.sut
      BY <1>3 DEF Suts
    <3>3. tables' = [tables EXCEPT ![kw.sut] = NoTables]
      BY <1>1 DEF SetTables
    <3>4. ASSUME NEW s \in Suts, s < kw.sut \/ s = kw.sut PROVE tables'[s] = NoTables /\ fib'[s] = {}
      <4>1. CASE s = kw.sut
        BY <1>1, <1>2, <3>3, <4>1 DEF Control
      <4>2. CASE s # kw.sut
        <5>1. Cleared(s)
          BY <1>2, <2>2, <3>4, <4>2 DEF Undeploying
        <5> QED
          BY <1>1, <1>2, <3>3, <4>2, <5>1 DEF Control, Cleared
      <4> QED
        BY <4>1, <4>2
    <3>5. \A s \in Suts : s < kw'.sut => Cleared(s)'
      BY <3>1, <3>2, <3>4 DEF Cleared
    <3> QED
      BY <1>3, <2>2, <3>5 DEF Undeploying
  <2> QED
    BY <1>1, <2>1, <2>2
<1> QED
  BY <1>1, <1>3, <1>4, <1>5, <1>6, <1>7, TableStep

\* The flows that a deployment writes to INPUT, on an empty table.
LEMMA InputWritten ==
  ASSUME TypeOK, Ports, NEW s \in Suts, NEW m \in Deployments
  PROVE  /\ provision_flows({}, generate_input_flows(s, m)) \subseteq InputFlows(s, m)
         /\ InputFlows(s, m) \subseteq InFlows
<1>1. generate_input_flows(s, m) \in Seq(InputFlows(s, m)) /\ InputFlows(s, m) \subseteq InFlows
  BY GeneratedInput, InputFlowsTyped DEF Deployments
<1> QED
  BY <1>1, Provisioned

\* The default pipeline without OUTPUT.
LEMMA ProvisionBaseKeeps ==
  ASSUME PipelineInv, StraightInv, ProvisionBase
  PROVE  PipelineInv' /\ StraightInv'
<1> DEFINE input == provision_flows({}, generate_input_flows(kw.sut, "native"))
           t == [base |-> TRUE, output |-> {}, input |-> input]
<1>1. /\ UNCHANGED <<kind, assigned, plugged, vifs, tnls, ids>> /\ Disturbs
      /\ SetTables(t, "partial") /\ fib' = fib
      /\ kw.sut <= NSuts /\ kw.pos = 2 /\ kw.loop = "pipeline" /\ NextPos
  BY DEF ProvisionBase, In
<1>2. kw \in KwRecords /\ Keyword /\ TypeOK /\ Ports
  BY TypeParts DEF PipelineInv
<1>3. kw.sut \in Suts /\ kw' \in KwRecords /\ Keyword' /\ kw'.loop = "pipeline"
  BY <1>1, <1>2, KeywordMoves
<1>4. input \subseteq InputFlows(kw.sut, "native") /\ InputFlows(kw.sut, "native") \subseteq InFlows
  BY <1>2, <1>3, EmptyInput, InputWritten
<1> HIDE DEF input
<1>5. t \in TableRecords /\ "partial" \in Progress /\ "partial" \notin Overlays /\ t.input = input
  BY <1>4 DEF TableRecords, Progress, Overlays
<1>6. \E m \in Deployments : Fits(m) /\ t.input \subseteq InputFlows(kw.sut, m)
  BY <1>4, <1>5, EmptyInput
<1>7. Writing' /\ Undeploying'
  BY <1>3 DEF Writing, Undeploying
<1> HIDE DEF t
<1> QED
  BY <1>1, <1>3, <1>5, <1>6, <1>7, TableStep

\* The tables of a SUT are typed, and its INPUT fits a deployment.
LEMMA TablesAre ==
  ASSUME PipelineInv, NEW s \in Suts
  PROVE  /\ tables[s] \in TableRecords
         /\ tables[s] = [base |-> tables[s].base, input |-> tables[s].input, output |-> tables[s].output]
         /\ tables[s].base \in BOOLEAN /\ tables[s].input \subseteq InFlows
         /\ tables[s].output \subseteq OutFlows
         /\ \E m \in Deployments : Fits(m) /\ tables[s].input \subseteq InputFlows(s, m)
<1>1. tables[s] \in TableRecords
  BY TypeParts DEF PipelineInv, Control
<1>2. /\ tables[s] = [base |-> tables[s].base, input |-> tables[s].input, output |-> tables[s].output]
      /\ tables[s].base \in BOOLEAN /\ tables[s].input \subseteq InFlows
      /\ tables[s].output \subseteq OutFlows
  BY <1>1 DEF TableRecords
<1>3. \E m \in Deployments : Fits(m) /\ tables[s].input \subseteq InputFlows(s, m)
  BY DEF PipelineInv, Tables, SutTables, Deployments
<1> QED
  BY <1>1, <1>2, <1>3

\* OUTPUT of the default pipeline.
LEMMA ProvisionNativeOutputKeeps ==
  ASSUME PipelineInv, StraightInv, ProvisionNativeOutput
  PROVE  PipelineInv' /\ StraightInv'
<1> DEFINE old == tables[kw.sut]
           flows == generate_output_flows(kw.sut, "native", FALSE)
           t == [old EXCEPT !.output = provision_flows(@, flows)]
<1>1. /\ UNCHANGED <<kind, assigned, plugged, vifs, tnls, ids>> /\ Disturbs
      /\ SetTables(t, "native") /\ fib' = fib
      /\ kw.sut <= NSuts /\ kw.loop = "pipeline" /\ NextSut
  BY DEF ProvisionNativeOutput, In
<1>2. kw \in KwRecords /\ Keyword /\ TypeOK /\ Ports
  BY TypeParts DEF PipelineInv
<1>3. kw.sut \in Suts /\ kw' \in KwRecords /\ Keyword' /\ kw'.loop = "pipeline"
  BY <1>1, <1>2, KeywordMoves
<1>4. old \in TableRecords
  BY <1>3, TablesAre
<1>5. flows \in Seq(GoodFlows(kw.sut, "native"))
  BY <1>2, <1>3, EmptyInput, GeneratedOutput
<1>6. provision_flows(old.output, flows) \subseteq OutFlows
  <2>1. GoodFlows(kw.sut, "native") \subseteq OutFlows
    BY DEF GoodFlows
  <2>2. old.output \subseteq OutFlows
    BY <1>4 DEF TableRecords
  <2> HIDE DEF flows, old
  <2>3. provision_flows(old.output, flows) \subseteq old.output \cup GoodFlows(kw.sut, "native")
    BY <1>5, Provisioned
  <2> QED
    BY <2>1, <2>2, <2>3
<1> HIDE DEF flows
<1>7. t \in TableRecords /\ t.input = old.input
  <2> HIDE DEF old
  <2> QED
    BY <1>4, <1>6 DEF TableRecords
<1>8. "native" \in Progress /\ "native" \notin Overlays
  BY DEF Progress, Overlays
<1>9. \E m \in Deployments : Fits(m) /\ t.input \subseteq InputFlows(kw.sut, m)
  BY <1>3, <1>7, TablesAre
<1>10. Writing' /\ Undeploying'
  BY <1>3 DEF Writing, Undeploying
<1> HIDE DEF t
<1> QED
  BY <1>1, <1>3, <1>7, <1>8, <1>9, <1>10, TableStep

\* INPUT and OUTPUT are emptied for an overlay.
LEMMA ClearInputOutputKeeps ==
  ASSUME PipelineInv, StraightInv, clear_input_output_flows
  PROVE  PipelineInv' /\ StraightInv'
<1> DEFINE old == tables[kw.sut]
           t == [old EXCEPT !.input = {}, !.output = {}]
<1>1. /\ UNCHANGED <<kind, assigned, plugged, vifs, tnls, ids>> /\ Disturbs
      /\ SetTables(t, "partial") /\ fib' = fib
      /\ kw.sut <= NSuts /\ kw.loop = "overlay" /\ kw.pos = 1 /\ NextPos
  BY DEF clear_input_output_flows, In
<1>2. kw \in KwRecords /\ Keyword
  BY TypeParts DEF PipelineInv
<1>3. /\ kw.sut \in Suts /\ kw' \in KwRecords /\ Keyword' /\ kw'.loop = "overlay"
      /\ kw'.sut = kw.sut /\ kw'.pos = 2
  BY <1>1, <1>2, KeywordMoves
<1>4. old \in TableRecords
  BY <1>3, TablesAre
<1> HIDE DEF old
<1>5. /\ t \in TableRecords /\ t.input = {} /\ t.output = {}
      /\ "partial" \in Progress /\ "partial" \notin Overlays
  BY <1>4 DEF TableRecords, Progress, Overlays
<1> HIDE DEF t
<1>6. \E m \in Deployments : Fits(m) /\ t.input \subseteq InputFlows(kw.sut, m)
  BY <1>5, EmptyInput
<1>7. Undeploying'
  BY <1>3 DEF Undeploying
<1>8. Writing'
  <2>1. tables' = [tables EXCEPT ![kw.sut] = t] /\ kw.sut \in DOMAIN tables
    BY <1>1, <1>3, TypeParts DEF SetTables, PipelineInv, Control
  <2>2. tables'[kw'.sut].input = {} /\ tables'[kw'.sut].output = {}
    BY <1>3, <1>5, <2>1
  <2> QED
    BY <1>3, <2>2 DEF Writing
<1> QED
  BY <1>1, <1>3, <1>5, <1>6, <1>7, <1>8, TableStep

\* INPUT of an overlay; or the keyword fails on the VNIs.
LEMMA ProvisionOverlayInputKeeps ==
  ASSUME PipelineInv, StraightInv, ProvisionOverlayInput
  PROVE  PipelineInv' /\ StraightInv'
<1> DEFINE old == tables[kw.sut]
           input == provision_flows({}, generate_input_flows(kw.sut, kw.mode))
           t == [base |-> old.base, input |-> input, output |-> {}]
<1>1. /\ UNCHANGED <<kind, assigned, plugged, vifs, tnls, ids, fib>>
      /\ kw.sut <= NSuts /\ kw.loop = "overlay" /\ kw.pos = 2
  BY DEF ProvisionOverlayInput, In
<1>2. kw \in KwRecords /\ Keyword /\ TypeOK /\ Ports /\ Writing
  BY TypeParts DEF PipelineInv, Tables
<1>3. CASE VniIsString
  <2>1. kw' = Idle /\ UNCHANGED <<tables, prog, DataPlane>>
    BY <1>3 DEF ProvisionOverlayInput
  <2> QED
    BY <1>1, <2>1, AbortKeeps
<1>4. CASE ~VniIsString
  <2>1. /\ SetTables([old EXCEPT !.input = provision_flows(@, generate_input_flows(kw.sut, kw.mode))],
                     "partial")
        /\ NextPos /\ Disturbs
    BY <1>4 DEF ProvisionOverlayInput
  <2>2. /\ kw.sut \in Suts /\ kw' \in KwRecords /\ Keyword' /\ kw'.loop = "overlay"
        /\ kw'.sut = kw.sut /\ kw'.pos = 3 /\ kw'.mode = kw.mode
    BY <1>1, <1>2, <2>1, KeywordMoves
  <2>3. kw.mode \in Deployments /\ Fits(kw.mode)
    BY <1>2 DEF KwRecords, Keyword, Deployments
  <2>4. /\ old = [base |-> old.base, input |-> old.input, output |-> old.output]
        /\ old.base \in BOOLEAN
    BY <2>2, TablesAre
  <2>5. old.input = {} /\ old.output = {}
    BY <1>1, <1>2 DEF Writing
  <2>6. input \subseteq InputFlows(kw.sut, kw.mode) /\ InputFlows(kw.sut, kw.mode) \subseteq InFlows
    BY <1>2, <2>2, <2>3, InputWritten
  <2> HIDE DEF old
  <2>7. SetTables(t, "partial")
    <3>1. [old EXCEPT !.input = provision_flows(@, generate_input_flows(kw.sut, kw.mode))] = t
      BY <2>4, <2>5
    <3> QED
      BY <2>1, <3>1
  <2> HIDE DEF input
  <2>8. t \in TableRecords /\ "partial" \in Progress /\ "partial" \notin Overlays /\ t.input = input
    BY <2>4, <2>6 DEF TableRecords, Progress, Overlays
  <2>9. \E m \in Deployments : Fits(m) /\ t.input \subseteq InputFlows(kw.sut, m)
    BY <2>3, <2>6, <2>8
  <2>10. Undeploying'
    BY <2>2 DEF Undeploying
  <2>11. Writing'
    <3>1. tables' = [tables EXCEPT ![kw.sut] = t] /\ kw.sut \in DOMAIN tables
      BY <2>2, <2>7, TypeParts DEF SetTables, PipelineInv, Control
    <3>2. tables'[kw'.sut].input = input /\ tables'[kw'.sut].output = {}
      BY <2>2, <3>1
    <3>3. kind' = kind /\ assigned' = assigned
      BY <1>1
    <3>4. InputFlows(kw.sut, kw.mode)' = InputFlows(kw.sut, kw.mode)
      <4>1. \A p : Vni(p)' = Vni(p)
        BY <3>3 DEF Vni
      <4> QED
        BY <2>2, <4>1 DEF InputFlows, Locals
    <3>5. /\ kw'.pos = 3 /\ tables'[kw'.sut].output = {}
          /\ tables'[kw'.sut].input \subseteq InputFlows(kw.sut, kw.mode)'
      BY <2>2, <2>6, <3>2, <3>4
    <3> QED
      BY <3>5 DEF Writing
  <2> HIDE DEF t
  <2> QED
    BY <1>1, <2>1, <2>2, <2>7, <2>8, <2>9, <2>10, <2>11, TableStep
<1> QED
  BY <1>3, <1>4

\* OUTPUT of an overlay, which completes it on the SUT.
LEMMA ProvisionOverlayOutputKeeps ==
  ASSUME PipelineInv, StraightInv, ProvisionOverlayOutput
  PROVE  PipelineInv' /\ StraightInv'
<1> DEFINE old == tables[kw.sut]
           output == provision_flows({}, generate_output_flows(kw.sut, kw.mode, kw.md))
           t == [base |-> old.base, input |-> old.input, output |-> output]
<1>1. /\ UNCHANGED <<kind, assigned, plugged, vifs, tnls, ids>> /\ Disturbs /\ fib' = fib
      /\ SetTables([old EXCEPT !.output = provision_flows(@, generate_output_flows(kw.sut, kw.mode, kw.md))],
                   kw.mode)
      /\ kw.sut <= NSuts /\ kw.loop = "overlay" /\ kw.pos = 3 /\ NextSut
  BY DEF ProvisionOverlayOutput, In
<1>2. kw \in KwRecords /\ Keyword /\ TypeOK /\ Ports /\ Writing
  BY TypeParts DEF PipelineInv, Tables
<1>3. /\ kw.sut \in Suts /\ kw' \in KwRecords /\ Keyword' /\ kw'.loop = "overlay" /\ kw'.pos = 1
  BY <1>1, <1>2, KeywordMoves
<1>4. /\ kw.mode \in Deployments /\ kw.mode \in Overlays /\ kw.mode \in Progress /\ Fits(kw.mode)
      /\ kw.md \in BOOLEAN
  BY <1>1, <1>2 DEF KwRecords, Keyword, Deployments, Progress, Overlays
<1>5. /\ old = [base |-> old.base, input |-> old.input, output |-> old.output]
      /\ old.base \in BOOLEAN /\ old.input \subseteq InFlows
  BY <1>3, TablesAre
<1>6. old.output = {} /\ old.input \subseteq InputFlows(kw.sut, kw.mode)
  BY <1>1, <1>2 DEF Writing
<1>7. /\ output \subseteq OutFlows /\ \A f \in output : SoundFlow(kw.sut, kw.mode, f)
      /\ kw.mode = "tnl" => \A p \in Range(tnls[kw.sut]) : \E f \in output : UnicastTo(p.ofp, f)
  BY <1>2, <1>3, <1>4, OutputWritten
<1>8. kw.mode # "tnl" => Range(tnls[kw.sut]) = {}
  <2>1. ASSUME kw.mode # "tnl" PROVE tnls[kw.sut] = <<>>
    <3>1. kind = "phy"
      BY <1>4, <2>1 DEF Fits, Overlays, L2Overlays
    <3> QED
      BY <1>2, <1>3, <3>1 DEF Ports, SutPorts
  <2> QED
    BY <2>1 DEF Range
<1> HIDE DEF old
<1>9. SetTables(t, kw.mode)
  <2>1. [old EXCEPT !.output = provision_flows(@, generate_output_flows(kw.sut, kw.mode, kw.md))] = t
    BY <1>5, <1>6
  <2> QED
    BY <1>1, <2>1
<1> HIDE DEF output
<1>10. t \in TableRecords /\ t.input = old.input /\ t.output = output
  BY <1>5, <1>7 DEF TableRecords
<1>11. \E m \in Deployments : Fits(m) /\ t.input \subseteq InputFlows(kw.sut, m)
  BY <1>4, <1>6, <1>10
<1>12. Undeploying' /\ Writing'
  BY <1>3 DEF Undeploying, Writing
<1>13. \A p \in Range(tnls[kw.sut]) : \E f \in t.output : UnicastTo(p.ofp, f)
  BY <1>7, <1>8, <1>10
<1> HIDE DEF t
<1> QED
  BY <1>1, <1>3, <1>4, <1>6, <1>7, <1>9, <1>10, <1>11, <1>12, <1>13, TableStep

\* Sequences as functions.
LEMMA FunctionIsSeq ==
  ASSUME NEW T, NEW n \in Nat, NEW f \in [1..n -> T]
  PROVE  f \in Seq(T) /\ Len(f) = n /\ DOMAIN f = 1..n
  OBVIOUS

\* The length of a concatenation, and what stays in its place.
LEMMA ConcatLen ==
  ASSUME NEW T, NEW a \in Seq(T), NEW b \in Seq(T)
  PROVE  /\ Len(a \o b) = Len(a) + Len(b)
         /\ \A i \in DOMAIN a : i \in DOMAIN (a \o b) /\ (a \o b)[i] = a[i]
  OBVIOUS

\* The numbers of the ports a and the free numbers b are all different.
Numbered(a, b) ==
  /\ \A i \in DOMAIN a : \A k \in DOMAIN b : a[i].ofp # b[k]
  /\ \A i, j \in DOMAIN a : a[i].ofp = a[j].ofp => i = j
  /\ \A k, l \in DOMAIN b : b[k] = b[l] => k = l

\* The ports that stay, and the numbers of those that go.
Staying(a) == [i \in 1..(Len(a) \div 2) |-> a[2 * i]]
Going(a) == [i \in 1..((Len(a) + 1) \div 2) |-> a[2 * i - 1].ofp]

NumbersIn(P, R) == \A t \in P : t.ofp \in R

\* What deleting ports does to them, a, and to the free numbers, b: c stay, and e are free.
Deleted(P, R, a, b, c, e) ==
  /\ c \in Seq(P) /\ (\A i \in DOMAIN c : \E j \in DOMAIN a : c[i] = a[j])
  /\ e \in Seq(R) /\ Numbered(c, e) /\ Len(c) + Len(e) = Len(a) + Len(b)

\* Deleting every second port keeps that, and loses no number.
LEMMA PortsDeleted ==
  ASSUME NEW P, NEW R, NEW a \in Seq(P), NEW b \in Seq(R), Numbered(a, b), NumbersIn(P, R)
  PROVE  Deleted(P, R, a, b, Staying(a), b \o Going(a))
<1>0. PICK c, d : c = Staying(a) /\ d = Going(a)
  OBVIOUS
<1>1. PICK n \in Nat : n = Len(a) /\ DOMAIN a = 1..n /\ a \in [1..n -> P]
  OBVIOUS
<1>2. PICK h \in Nat, g \in Nat : /\ h = n \div 2 /\ g = (n + 1) \div 2 /\ h + g = n
                                  /\ \A i \in 1..h : 2 * i \in 1..n
                                  /\ \A i \in 1..g : 2 * i - 1 \in 1..n
  OBVIOUS
<1>3. c \in [1..h -> P] /\ \A i \in 1..h : c[i] = a[2 * i]
  BY <1>0, <1>1, <1>2 DEF Staying
<1>4. c \in Seq(P) /\ Len(c) = h /\ DOMAIN c = 1..h
  BY <1>3
<1>5. d \in [1..g -> R] /\ \A i \in 1..g : d[i] = a[2 * i - 1].ofp
  BY <1>0, <1>1, <1>2 DEF Going, NumbersIn
<1>6. d \in Seq(R) /\ Len(d) = g /\ DOMAIN d = 1..g
  BY <1>5, FunctionIsSeq, Zenon
<1>7. PICK e \in Seq(R) : e = b \o d
  BY <1>6, ConcatSeq, Zenon
<1>8. Len(e) = Len(b) + g
  BY <1>6, <1>7, ConcatLen, Zenon
<1>9. ASSUME NEW k \in DOMAIN e
      PROVE  \/ k \in DOMAIN b /\ e[k] = b[k]
             \/ \E i \in 1..g : k = Len(b) + i /\ e[k] = a[2 * i - 1].ofp
  <2>1. \A w \in Seq(R) : \A l \in DOMAIN (b \o w) :
          \/ l \in DOMAIN b /\ (b \o w)[l] = b[l]
          \/ \E i \in DOMAIN w : l = Len(b) + i /\ (b \o w)[l] = w[i]
    BY ConcatSplit
  <2>2. \/ k \in DOMAIN b /\ e[k] = b[k]
        \/ \E i \in DOMAIN d : k = Len(b) + i /\ e[k] = d[i]
    BY <1>6, <1>7, <2>1, Zenon
  <2> QED
    BY <1>5, <1>6, <2>2, Zenon
<1>10. ASSUME NEW i \in DOMAIN c, NEW k \in DOMAIN e PROVE c[i].ofp # e[k]
  <2>1. CASE k \in DOMAIN b /\ e[k] = b[k]
    <3>1. 2 * i \in DOMAIN a /\ c[i] = a[2 * i]
      BY <1>1, <1>2, <1>3, <1>4
    <3> QED
      BY <2>1, <3>1 DEF Numbered
  <2>2. ASSUME NEW j \in 1..g, e[k] = a[2 * j - 1].ofp PROVE c[i].ofp # e[k]
    <3>1. 2 * i # 2 * j - 1 /\ 2 * i \in DOMAIN a /\ 2 * j - 1 \in DOMAIN a
      BY <1>1, <1>2, <1>4, SMTT(30)
    <3> QED
      BY <1>3, <1>4, <2>2, <3>1 DEF Numbered
  <2> QED
    BY <1>9, <2>1, <2>2
<1>11. ASSUME NEW i \in DOMAIN c, NEW j \in DOMAIN c, c[i].ofp = c[j].ofp PROVE i = j
  <2>1. 2 * i \in DOMAIN a /\ 2 * j \in DOMAIN a /\ a[2 * i].ofp = a[2 * j].ofp
    BY <1>1, <1>2, <1>3, <1>4, <1>11
  <2>2. 2 * i = 2 * j
    BY <2>1 DEF Numbered
  <2> QED
    BY <1>4, <2>2
<1>12. ASSUME NEW k \in DOMAIN e, NEW l \in DOMAIN e, e[k] = e[l] PROVE k = l
  <2>1. ASSUME NEW i \in 1..g PROVE 2 * i - 1 \in DOMAIN a
    BY <1>1, <1>2
  <2>2. ASSUME k \in DOMAIN b, e[k] = b[k], l \in DOMAIN b, e[l] = b[l] PROVE k = l
    BY <1>12, <2>2 DEF Numbered
  <2>3. ASSUME k \in DOMAIN b, e[k] = b[k], NEW i \in 1..g, e[l] = a[2 * i - 1].ofp PROVE FALSE
    BY <1>12, <2>1, <2>3 DEF Numbered
  <2>4. ASSUME l \in DOMAIN b, e[l] = b[l], NEW i \in 1..g, e[k] = a[2 * i - 1].ofp PROVE FALSE
    BY <1>12, <2>1, <2>4 DEF Numbered
  <2>5. ASSUME NEW i \in 1..g, k = Len(b) + i, e[k] = a[2 * i - 1].ofp,
               NEW j \in 1..g, l = Len(b) + j, e[l] = a[2 * j - 1].ofp
        PROVE  k = l
    <3>1. 2 * i - 1 = 2 * j - 1
      BY <1>12, <2>1, <2>5 DEF Numbered
    <3> QED
      BY <2>5, <3>1
  <2> QED
    BY <1>9, <2>2, <2>3, <2>4, <2>5
<1>13. \A i \in DOMAIN c : \E j \in DOMAIN a : c[i] = a[j]
  BY <1>1, <1>2, <1>3, <1>4
<1>14. Numbered(c, e)
  BY <1>10, <1>11, <1>12 DEF Numbered
<1>15. Len(c) + Len(e) = Len(a) + Len(b)
  <2>1. Len(b) \in Nat
    OBVIOUS
  <2>2. \A x, y, z \in Nat : z + y = n => z + (x + y) = n + x
    OBVIOUS
  <2>3. h + (Len(b) + g) = n + Len(b)
    BY <1>2, <2>1, <2>2
  <2> QED
    BY <1>1, <1>4, <1>8, <2>3
<1> QED
  <2>1. Deleted(P, R, a, b, c, e)
    BY <1>4, <1>13, <1>14, <1>15 DEF Deleted
  <2> QED
    BY <1>0, <1>7, <2>1

\* New ports take the first free numbers.
Takes(c, b) == Len(c) <= Len(b) /\ \A i \in DOMAIN c : c[i].ofp = b[i]

\* The ports and the free numbers after that.
Created(P, R, a, b, c) ==
  \E e \in Seq(P), d \in Seq(R) :
    /\ e = a \o c /\ d = SubSeq(b, Len(c) + 1, Len(b)) /\ Numbered(e, d)
    /\ \A i \in DOMAIN e : (\E j \in DOMAIN a : e[i] = a[j]) \/ (\E j \in DOMAIN c : e[i] = c[j])
    /\ \A i \in DOMAIN a : \E j \in DOMAIN e : e[j] = a[i]
    /\ Len(e) + Len(d) = Len(a) + Len(b)

\* The numbers are still different.
LEMMA PortsCreated ==
  ASSUME NEW P, NEW R, NEW a \in Seq(P), NEW b \in Seq(R), NEW c \in Seq(P), Numbered(a, b), Takes(c, b)
  PROVE  Created(P, R, a, b, c)
<1>1. PICK n \in Nat : n = Len(c) /\ DOMAIN c = 1..n
  OBVIOUS
<1> DEFINE d == SubSeq(b, n + 1, Len(b))
<1>0. n <= Len(b) /\ \A i \in 1..n : c[i].ofp = b[i]
  BY <1>1 DEF Takes
<1>2. PICK e \in Seq(P) : e = a \o c
  BY <1>1, ConcatSeq, Zenon
<1>3. Len(e) = Len(a) + n /\ \A i \in DOMAIN a : i \in DOMAIN e /\ e[i] = a[i]
  BY <1>1, <1>2, ConcatLen, Zenon
<1>4. ASSUME NEW i \in DOMAIN e
      PROVE  \/ i \in DOMAIN a /\ e[i] = a[i]
             \/ \E k \in 1..n : i = Len(a) + k /\ e[i] = c[k]
  <2>1. \/ i \in DOMAIN a /\ e[i] = a[i]
        \/ \E k \in DOMAIN c : i = Len(a) + k /\ e[i] = c[k]
    BY <1>2, ConcatSplit
  <2> QED
    BY <1>1, <2>1
<1>5. /\ d \in Seq(R) /\ Len(d) = Len(b) - n
      /\ \A k \in DOMAIN d : n + k \in DOMAIN b /\ d[k] = b[n + k] /\ k \in Nat /\ k > 0
  BY <1>0, SMTT(30)
<1> HIDE DEF d
<1>6. \A i \in 1..n : i \in DOMAIN b
  BY <1>0
<1>7. ASSUME NEW i \in DOMAIN e, NEW k \in DOMAIN d PROVE e[i].ofp # d[k]
  <2>1. CASE i \in DOMAIN a /\ e[i] = a[i]
    BY <1>5, <2>1 DEF Numbered
  <2>2. ASSUME NEW j \in 1..n, e[i] = c[j] PROVE e[i].ofp # d[k]
    <3>1. e[i].ofp = b[j] /\ d[k] = b[n + k] /\ j # n + k
      BY <1>0, <1>5, <2>2, SMTT(30)
    <3> QED
      BY <1>5, <1>6, <3>1 DEF Numbered
  <2> QED
    BY <1>4, <2>1, <2>2
<1>8. ASSUME NEW i \in DOMAIN e, NEW j \in DOMAIN e, e[i].ofp = e[j].ofp PROVE i = j
  <2>1. ASSUME i \in DOMAIN a, e[i] = a[i], j \in DOMAIN a, e[j] = a[j] PROVE i = j
    BY <1>8, <2>1 DEF Numbered
  <2>2. ASSUME i \in DOMAIN a, e[i] = a[i], NEW k \in 1..n, e[j] = c[k] PROVE FALSE
    BY <1>0, <1>6, <1>8, <2>2 DEF Numbered
  <2>3. ASSUME j \in DOMAIN a, e[j] = a[j], NEW k \in 1..n, e[i] = c[k] PROVE FALSE
    BY <1>0, <1>6, <1>8, <2>3 DEF Numbered
  <2>4. ASSUME NEW k \in 1..n, i = Len(a) + k, e[i] = c[k], NEW l \in 1..n, j = Len(a) + l, e[j] = c[l]
        PROVE  i = j
    <3>1. b[k] = b[l]
      BY <1>0, <1>8, <2>4
    <3>2. k = l
      BY <1>6, <3>1 DEF Numbered
    <3> QED
      BY <2>4, <3>2
  <2> QED
    BY <1>4, <2>1, <2>2, <2>3, <2>4
<1>9. ASSUME NEW k \in DOMAIN d, NEW l \in DOMAIN d, d[k] = d[l] PROVE k = l
  <2>1. n + k = n + l
    BY <1>5, <1>9, SMTT(30) DEF Numbered
  <2> QED
    BY <1>5, <2>1, SMTT(30)
<1>10. Numbered(e, d)
  BY <1>7, <1>8, <1>9 DEF Numbered
<1>11. Len(e) + Len(d) = Len(a) + Len(b)
  BY <1>3, <1>5
<1>12. \A i \in DOMAIN e : (\E j \in DOMAIN a : e[i] = a[j]) \/ (\E j \in DOMAIN c : e[i] = c[j])
  BY <1>1, <1>4
<1>13. \A i \in DOMAIN a : \E j \in DOMAIN e : e[j] = a[i]
  BY <1>3
<1> QED
  BY <1>1, <1>2, <1>5, <1>10, <1>11, <1>12, <1>13, Zenon DEF d, Created

\* What Ports says of the numbers.
LEMMA SutPortsAre ==
  ASSUME NEW s
  PROVE  SutPorts(s) <=>
           /\ Range(vifs[s]) \subseteq Locals(s)
           /\ \A i \in DOMAIN tnls[s] : /\ tnls[s][i].rip # s
                                        /\ ~assigned => tnls[s][i].vni \in {FLOW, VNI_NONE}
           /\ Numbered(tnls[s], ids[s])
           /\ Len(tnls[s]) + Len(ids[s]) = Len(TunnelIds)
           /\ kind = "phy" => tnls[s] = <<>>
<1>1. Numbered(tnls[s], ids[s]) <=>
        /\ \A i \in DOMAIN tnls[s] : tnls[s][i].ofp \notin Range(ids[s])
        /\ \A i, j \in DOMAIN tnls[s] : tnls[s][i].ofp = tnls[s][j].ofp => i = j
        /\ IsInjective(ids[s])
  BY DEF Numbered, Range, IsInjective
<1> QED
  BY <1>1, Zenon DEF SutPorts

\* The same of a SUT's ports after a step.
LEMMA PortsPrimed ==
  ASSUME NEW s, NEW a, NEW b, tnls'[s] = a, ids'[s] = b, Range(vifs'[s]) \subseteq Locals(s),
         \A i \in DOMAIN a : a[i].rip # s /\ (~assigned' => a[i].vni \in {FLOW, VNI_NONE}),
         Numbered(a, b), Len(a) + Len(b) = Len(TunnelIds), kind' # "phy"
  PROVE  SutPorts(s)'
<1>1. Numbered(a, b) <=>
        /\ \A i \in DOMAIN a : a[i].ofp \notin Range(b)
        /\ \A i, j \in DOMAIN a : a[i].ofp = a[j].ofp => i = j
        /\ IsInjective(b)
  BY DEF Numbered, Range, IsInjective
<1> QED
  BY <1>1, Zenon DEF SutPorts, Locals

\* The tables while a SUT's tunnel ports change: its deployment is no longer complete.
LEMMA PortsChange ==
  ASSUME PipelineInv, kind' = kind, assigned' = assigned, tables' = tables, kw.sut \in Suts,
         prog' = [prog EXCEPT ![kw.sut] = IF @ = "none" THEN @ ELSE "partial"],
         \A s \in Suts : s # kw.sut => tnls'[s] = tnls[s]
  PROVE  prog' \in [Suts -> Progress] /\ \A s \in Suts : SutTables(s)'
<1>1. prog \in [Suts -> Progress]
  BY TypeParts DEF PipelineInv, Control
<1>2. prog' \in [Suts -> Progress]
  BY <1>1 DEF Progress
<1>3. prog'[kw.sut] \notin Overlays /\ \A s \in Suts : s # kw.sut => prog'[s] = prog[s]
  BY <1>1 DEF Overlays
<1>4. ASSUME NEW s \in Suts PROVE SutTables(s)'
  <2>1. SutTables(s)
    BY DEF PipelineInv, Tables
  <2>2. prog'[s] \notin Overlays \/ (prog'[s] = prog[s] /\ tnls'[s] = tnls[s])
    BY <1>3
  <2> QED
    BY <2>1, <2>2, SutTablesKept
<1> QED
  BY <1>2, <1>4

\* Tunnel ports are deleted once FIB is empty.
LEMMA DeleteTunnelPortsKeeps ==
  ASSUME PipelineInv, StraightInv, DeleteTunnelPorts
  PROVE  PipelineInv' /\ StraightInv'
<1>1. /\ UNCHANGED <<kind, assigned, plugged, vifs, tables, fib>> /\ Disturbs
      /\ kw.sut <= NSuts /\ kw.loop = "tnl_delete" /\ NextSut
      /\ prog' = [prog EXCEPT ![kw.sut] = IF @ = "none" THEN @ ELSE "partial"]
  BY DEF DeleteTunnelPorts, In
<1>2. kw \in KwRecords /\ Keyword /\ Control /\ Ports /\ Undeploying
  BY TypeParts DEF PipelineInv
<1>3. /\ kw.sut \in Suts /\ kw' \in KwRecords /\ Keyword' /\ kw'.loop = "tnl_delete"
  BY <1>1, <1>2, KeywordMoves
<1>4. \A s \in Suts : Cleared(s)
  BY <1>1, <1>2 DEF Undeploying
<1>5. PICK k \in Suts : k = kw.sut
  BY <1>3
<1>6. PICK a \in Seq(TnlPorts), b \in Seq(Range(TunnelIds)) : a = tnls[k] /\ b = ids[k]
  BY <1>2 DEF Control
<1>7. PICK c, d : c = Staying(a) /\ d = Going(a)
  OBVIOUS
<1>8. tnls' = [tnls EXCEPT ![k] = c] /\ ids' = [ids EXCEPT ![k] = b \o d]
  BY <1>5, <1>6, <1>7 DEF DeleteTunnelPorts, Staying, Going
<1>9. /\ Range(vifs[k]) \subseteq Locals(k)
      /\ \A i \in DOMAIN a : a[i].rip # k /\ (~assigned => a[i].vni \in {FLOW, VNI_NONE})
      /\ Numbered(a, b) /\ Len(a) + Len(b) = Len(TunnelIds)
  BY <1>2, <1>6, SutPortsAre DEF Ports
<1>10. /\ c \in Seq(TnlPorts) /\ (\A i \in DOMAIN c : \E j \in DOMAIN a : c[i] = a[j])
       /\ b \o d \in Seq(Range(TunnelIds)) /\ Numbered(c, b \o d)
       /\ Len(c) + Len(b \o d) = Len(a) + Len(b)
  <2>1. NumbersIn(TnlPorts, Range(TunnelIds))
    BY DEF TnlPorts, NumbersIn
  <2>2. Deleted(TnlPorts, Range(TunnelIds), a, b, Staying(a), b \o Going(a))
    BY <1>9, <2>1, PortsDeleted
  <2>3. Deleted(TnlPorts, Range(TunnelIds), a, b, c, b \o d)
    BY <1>7, <2>2
  <2> QED
    BY <2>3 DEF Deleted
<1>11. PICK e \in Seq(Range(TunnelIds)) : e = b \o d
  BY <1>10
<1>12. /\ tnls' \in [Suts -> Seq(TnlPorts)] /\ ids' \in [Suts -> Seq(Range(TunnelIds))]
       /\ tnls'[k] = c /\ ids'[k] = e
       /\ \A s \in Suts : s # k => tnls'[s] = tnls[s] /\ ids'[s] = ids[s]
  BY <1>2, <1>8, <1>10, <1>11 DEF Control
<1>13. prog' \in [Suts -> Progress] /\ \A s \in Suts : SutTables(s)'
  BY <1>1, <1>3, <1>5, <1>12, PortsChange
<1>14. Control'
  BY <1>1, <1>2, <1>12, <1>13 DEF Control
<1>15. ASSUME NEW s \in Suts PROVE SutPorts(s)'
  <2>1. CASE s # k
    BY <1>1, <1>2, <1>12, <2>1, SutPortsKept DEF Ports
  <2>2. CASE s = k
    <3>1. \A i \in DOMAIN c : c[i].rip # k /\ (~assigned => c[i].vni \in {FLOW, VNI_NONE})
      BY <1>9, <1>10
    <3>2. kind = "int"
      BY <1>1, <1>2 DEF Keyword, Fits
    <3>3. tnls'[s] = c /\ ids'[s] = e /\ vifs'[s] = vifs[k] /\ assigned' = assigned /\ kind' = "int"
      BY <1>1, <1>12, <2>2, <3>2
    <3>4. Numbered(c, e) /\ Len(c) + Len(e) = Len(TunnelIds)
      BY <1>9, <1>10, <1>11
    <3> QED
      BY <1>9, <2>2, <3>1, <3>3, <3>4, PortsPrimed
  <2> QED
    BY <2>1, <2>2
<1>16. Undeploying'
  BY <1>1, <1>3, <1>4 DEF Undeploying, Cleared
<1>17. FibEntries' /\ FibSound'
  BY <1>1, <1>4 DEF FibEntries, FibSound, Cleared
<1>18. Writing'
  BY <1>3 DEF Writing
<1> QED
  BY <1>1, <1>3, <1>13, <1>14, <1>15, <1>16, <1>17, <1>18, KeywordStep DEF Ports

\* New tunnel ports, in front of all flows that use them.
LEMMA CreateTunnelPortsKeeps ==
  ASSUME PipelineInv, StraightInv, CreateTunnelPorts
  PROVE  PipelineInv' /\ StraightInv'
<1>1. /\ UNCHANGED <<kind, assigned, plugged, vifs, tables, fib>> /\ Disturbs
      /\ kw.sut <= NSuts /\ kw.loop = "tnl_ports" /\ NextSut
      /\ prog' = [prog EXCEPT ![kw.sut] = IF @ = "none" THEN @ ELSE "partial"]
  BY DEF CreateTunnelPorts, In
<1>2. kw \in KwRecords /\ Keyword /\ Control /\ TypeOK /\ Ports /\ FibEntries
  BY TypeParts DEF PipelineInv
<1>3. /\ kw.sut \in Suts /\ kw' \in KwRecords /\ Keyword' /\ kw'.loop = "tnl_ports"
  BY <1>1, <1>2, KeywordMoves
<1>4. PICK k \in Suts : k = kw.sut
  BY <1>3
<1>5. PICK a \in Seq(TnlPorts), b \in Seq(Range(TunnelIds)) : a = tnls[k] /\ b = ids[k]
  BY <1>2 DEF Control
<1> DEFINE N == {Vni(p) : p \in Range(vifs[k])} \cup {FLOW}
           O == [rip : (Suts \ {k}) \cup {FLOW}, vni : N]
<1>6. PICK o \in Seq(O) : o = PortOptions(k)
  BY <1>2, PortOptionsAre
<1>7. PICK n \in Nat : n = Len(o)
  OBVIOUS
<1>8. PICK c : c = [i \in 1..n |-> [ofp |-> b[i], rip |-> o[i].rip, vni |-> o[i].vni]]
  OBVIOUS
<1>9. /\ n <= Len(b) /\ tnls' = [tnls EXCEPT ![k] = a \o c]
      /\ ids' = [ids EXCEPT ![k] = SubSeq(b, n + 1, Len(b))]
  BY <1>4, <1>5, <1>6, <1>7, <1>8 DEF CreateTunnelPorts
<1>10. /\ Range(vifs[k]) \subseteq Locals(k)
       /\ \A i \in DOMAIN a : a[i].rip # k /\ (~assigned => a[i].vni \in {FLOW, VNI_NONE})
       /\ Numbered(a, b) /\ Len(a) + Len(b) = Len(TunnelIds)
  BY <1>2, <1>5, SutPortsAre DEF Ports
<1>11. /\ N \subseteq Nat \cup {FLOW}
       /\ ~assigned => N \subseteq {FLOW, VNI_NONE}
  <2>1. \A p \in Range(vifs[k]) : Vni(p) \in Nat
    BY <1>2, <1>10, PortNumbers, VniValue DEF TypeOK
  <2> QED
    BY <2>1 DEF Vni
<1> HIDE DEF N, O
<1>12. \A i \in 1..n : o[i] \in O
  BY <1>7
<1>13. \A i \in 1..n : o[i].rip \in (Suts \ {k}) \cup {FLOW} /\ o[i].vni \in N
  BY <1>12 DEF O
<1>14. \A i \in 1..n : b[i] \in Range(TunnelIds)
  BY <1>9
<1>15. /\ c \in Seq(TnlPorts) /\ Len(c) = n /\ DOMAIN c = 1..n /\ Takes(c, b)
       /\ \A i \in 1..n : c[i].rip # k /\ (~assigned => c[i].vni \in {FLOW, VNI_NONE})
  <2>1. \A i \in 1..n : /\ c[i] = [ofp |-> b[i], rip |-> o[i].rip, vni |-> o[i].vni]
                        /\ c[i].ofp = b[i] /\ c[i].rip = o[i].rip /\ c[i].vni = o[i].vni
    BY <1>8
  <2>2. ASSUME NEW i \in 1..n PROVE c[i] \in TnlPorts
    <3>1. o[i].rip \in Suts \cup {FLOW} /\ o[i].vni \in Nat \cup {FLOW} /\ b[i] \in Range(TunnelIds)
      BY <1>11, <1>13, <1>14
    <3>2. c[i] = [ofp |-> b[i], rip |-> o[i].rip, vni |-> o[i].vni]
      BY <2>1
    <3> QED
      BY <3>1, <3>2 DEF TnlPorts
  <2>3. c \in [1..n -> TnlPorts]
    BY <1>8, <2>2
  <2>4. FLOW # k
    BY DEF FLOW, Suts
  <2>5. c \in Seq(TnlPorts) /\ Len(c) = n /\ DOMAIN c = 1..n
    BY <2>3, FunctionIsSeq, Zenon
  <2>6. Takes(c, b)
    BY <1>9, <2>1, <2>5 DEF Takes
  <2>7. ASSUME NEW i \in 1..n PROVE c[i].rip # k /\ (~assigned => c[i].vni \in {FLOW, VNI_NONE})
    <3>1. c[i].rip = o[i].rip /\ c[i].vni = o[i].vni
      BY <2>1
    <3>2. o[i].rip \in (Suts \ {k}) \cup {FLOW} /\ o[i].vni \in N
      BY <1>13
    <3> QED
      BY <1>11, <2>4, <3>1, <3>2
  <2> QED
    BY <2>5, <2>6, <2>7
<1>16. PICK e \in Seq(TnlPorts), d \in Seq(Range(TunnelIds)) :
         /\ e = a \o c /\ d = SubSeq(b, Len(c) + 1, Len(b)) /\ Numbered(e, d)
         /\ \A i \in DOMAIN e : (\E j \in DOMAIN a : e[i] = a[j]) \/ (\E j \in DOMAIN c : e[i] = c[j])
         /\ \A i \in DOMAIN a : \E j \in DOMAIN e : e[j] = a[i]
         /\ Len(e) + Len(d) = Len(a) + Len(b)
  <2>1. Created(TnlPorts, Range(TunnelIds), a, b, c)
    BY <1>10, <1>15, PortsCreated
  <2> QED
    BY <2>1, Zenon DEF Created
<1>17. /\ tnls' \in [Suts -> Seq(TnlPorts)] /\ ids' \in [Suts -> Seq(Range(TunnelIds))]
       /\ tnls'[k] = e /\ ids'[k] = d
       /\ \A s \in Suts : s # k => tnls'[s] = tnls[s] /\ ids'[s] = ids[s]
  <2>1. tnls' = [tnls EXCEPT ![k] = e] /\ ids' = [ids EXCEPT ![k] = d]
    BY <1>9, <1>15, <1>16
  <2> QED
    BY <1>2, <2>1 DEF Control
<1>18. prog' \in [Suts -> Progress] /\ \A s \in Suts : SutTables(s)'
  BY <1>1, <1>3, <1>4, <1>17, PortsChange
<1>19. Control'
  BY <1>1, <1>2, <1>17, <1>18 DEF Control
<1>20. ASSUME NEW s \in Suts PROVE SutPorts(s)'
  <2>1. CASE s # k
    BY <1>1, <1>2, <1>17, <2>1, SutPortsKept DEF Ports
  <2>2. CASE s = k
    <3>1. ASSUME NEW i \in DOMAIN e PROVE e[i].rip # k /\ (~assigned => e[i].vni \in {FLOW, VNI_NONE})
      <4>1. CASE \E j \in DOMAIN a : e[i] = a[j]
        BY <1>10, <4>1
      <4>2. CASE \E j \in DOMAIN c : e[i] = c[j]
        BY <1>15, <4>2
      <4> QED
        BY <1>16, <4>1, <4>2
    <3>2. kind = "int"
      BY <1>1, <1>2 DEF Keyword, Fits
    <3>3. tnls'[s] = e /\ ids'[s] = d /\ vifs'[s] = vifs[k] /\ assigned' = assigned /\ kind' = "int"
      BY <1>1, <1>17, <2>2, <3>2
    <3>4. Numbered(e, d) /\ Len(e) + Len(d) = Len(TunnelIds)
      BY <1>10, <1>16
    <3> QED
      BY <1>10, <2>2, <3>1, <3>3, <3>4, PortsPrimed
  <2> QED
    BY <2>1, <2>2
<1>21. Undeploying' /\ Writing'
  BY <1>3 DEF Undeploying, Writing
<1>22. FibEntries' /\ (FibSound => FibSound')
  <2>1. Range(a) \subseteq Range(e)
    <3> SUFFICES ASSUME NEW i \in DOMAIN a PROVE \E j \in DOMAIN e : e[j] = a[i]
      BY Zenon DEF Range
    <3> QED
      BY <1>16
  <2>2. \A s \in Suts : Range(tnls[s]) \subseteq Range(tnls'[s]) /\ fib'[s] \subseteq fib[s]
    BY <1>1, <1>5, <1>17, <2>1
  <2> QED
    BY <1>1, <1>2, <2>2, FibKept
<1> QED
  BY <1>1, <1>3, <1>18, <1>19, <1>20, <1>21, <1>22, KeywordStep DEF Ports

\* The VIFs become ports of the bridge: br.vifs gets them again.
LEMMA AddVifPortsKeeps ==
  ASSUME PipelineInv, StraightInv, add_vif_ports_on_all_suts
  PROVE  PipelineInv' /\ StraightInv'
<1>1. /\ UNCHANGED <<kind, assigned, tnls, ids, tables, prog, kw, fib>> /\ Disturbs
      /\ kw.loop = "idle" /\ plugged' = TRUE /\ vifs' = [s \in Suts |-> vifs[s] \o VhostOfps(s)]
  BY DEF add_vif_ports_on_all_suts
<1>2. kw \in KwRecords /\ Keyword /\ Control /\ Ports /\ FibEntries
  BY TypeParts DEF PipelineInv
<1>3. \A s \in Suts : vifs'[s] \in Seq(Nat) /\ Range(vifs'[s]) \subseteq Locals(s)
  <2>1. \A s \in Suts : vifs[s] \in Seq(Nat) /\ Range(vifs[s]) \subseteq Locals(s)
    BY <1>2 DEF Control, Ports, SutPorts
  <2>2. \A s \in Suts : vifs'[s] = vifs[s] \o VhostOfps(s)
    BY <1>1
  <2> QED
    BY <2>1, <2>2, VhostOfpsAre
<1>4. vifs' \in [Suts -> Seq(Nat)]
  BY <1>1, <1>3
<1>5. Control'
  BY <1>1, <1>2, <1>4 DEF Control
<1>6. \A s \in Suts : SutPorts(s)'
  <2> SUFFICES ASSUME NEW s \in Suts PROVE SutPorts(s)'
    OBVIOUS
  <2>1. SutPorts(s) /\ Range(vifs'[s]) \subseteq Locals(s)
    BY <1>2, <1>3 DEF Ports
  <2> QED
    BY <1>1, <2>1 DEF SutPorts, Locals
<1>7. \A s \in Suts : SutTables(s)'
  BY <1>1, SutTablesKept DEF PipelineInv, Tables
<1>8. Keyword' /\ Undeploying' /\ Writing'
  BY <1>1, <1>2 DEF Keyword, Fits, Undeploying, Writing
<1>9. FibEntries' /\ (FibSound => FibSound')
  BY <1>1, <1>2, FibKept
<1> QED
  BY <1>1, <1>2, <1>5, <1>6, <1>7, <1>8, <1>9, KeywordStep DEF Ports

\* The VIFs are no ports any more.
LEMMA DeleteVifPortsKeeps ==
  ASSUME PipelineInv, StraightInv, delete_vif_ports_on_all_suts
  PROVE  PipelineInv' /\ StraightInv'
<1>1. /\ UNCHANGED <<kind, assigned, vifs, tnls, ids, tables, prog, kw, fib>> /\ Disturbs
      /\ kw.loop = "idle" /\ plugged' = FALSE
  BY DEF delete_vif_ports_on_all_suts
<1>2. kw \in KwRecords /\ Keyword /\ Control /\ Ports /\ FibEntries
  BY TypeParts DEF PipelineInv
<1>3. Control'
  BY <1>1, <1>2 DEF Control
<1>4. \A s \in Suts : SutPorts(s)'
  BY <1>1, <1>2, SutPortsKept DEF Ports
<1>5. \A s \in Suts : SutTables(s)'
  BY <1>1, SutTablesKept DEF PipelineInv, Tables
<1>6. Keyword' /\ Undeploying' /\ Writing'
  BY <1>1, <1>2 DEF Keyword, Fits, Undeploying, Writing
<1>7. FibEntries' /\ (FibSound => FibSound')
  BY <1>1, <1>2, FibKept
<1> QED
  BY <1>1, <1>2, <1>3, <1>4, <1>5, <1>6, <1>7, KeywordStep DEF Ports

-------------------------------------------------------------------------------
(* The frames. *)

\* The copies w on the wire.
WireOk(w) == \A q \in w : q.src \in Vifs /\ q.from \in Suts /\ q.to \in Suts \ {q.from}

\* Frame f so far, with the copies w on the wire and got received, under overlay m.
SoFar(f, w, got, m) ==
  /\ f.src \in Vifs
  /\ \A q \in w : q.src = f.src /\ q.dst = f.dst /\ Carries(q, m, Vni(Ofp(f.src[2])))
  /\ \A x \in Vifs : /\ got[x] \in Seq({<<>>})
                     /\ got[x] # <<>> => SameVni(x, f.src) /\ (f.known => x = f.dst)

\* What OnTheWire and Received say.
LEMMA SoFarIs ==
  OnTheWire /\ Received <=>
    /\ WireOk(wire) /\ frame.met # {}
    /\ \A m \in Overlays : frame.met = {m} => SoFar(frame, wire, rcvd, m)
<1>1. Steady(Overlays) <=> \E m \in Overlays : frame.met = {m}
  BY DEF Steady
<1>2. ASSUME OnTheWire, Received, NEW m \in Overlays, frame.met = {m} PROVE SoFar(frame, wire, rcvd, m)
  BY <1>1, <1>2, Zenon DEF OnTheWire, Received, SoFar
<1>3. ASSUME WireOk(wire), \A m \in Overlays : frame.met = {m} => SoFar(frame, wire, rcvd, m) PROVE OnTheWire
  BY <1>3, Zenon DEF OnTheWire, SoFar, WireOk
<1>4. ASSUME frame.met # {}, \A m \in Overlays : frame.met = {m} => SoFar(frame, wire, rcvd, m) PROVE Received
  BY <1>1, <1>4, Zenon DEF Received, SoFar
<1>5. OnTheWire /\ Received => WireOk(wire) /\ frame.met # {}
  BY Zenon DEF OnTheWire, Received, WireOk
<1> QED
  BY <1>2, <1>3, <1>4, <1>5, Zenon

\* A copy more on the wire, or received, of a frame under one overlay.
LEMMA HandleSoFar ==
  ASSUME PipelineInv, NEW s \in Suts, NEW in, NEW p, Enters(s, in, p), NEW m \in Overlays, prog[s] = m,
         NEW f \in FrameRecords, f # Disturbed, NEW w, NEW got, SoFar(f, w, got, m),
         p.src = f.src, p.dst = f.dst, EntersAs(s, in, p, m, Vni(Ofp(f.src[2]))),
         Handle(s, in, p, f, w, got)
  PROVE  SoFar(frame', wire', rcvd', m)
<1>1. PICK r : r = Forward(s, in, p)
  OBVIOUS
<1>2. PICK n : n = Vni(Ofp(f.src[2]))
  OBVIOUS
<1>3. f.src \in Vifs /\ n \in Vnis /\ n \in Nat
  <2>1. f.src \in Vifs
    BY DEF SoFar
  <2>2. assigned \in BOOLEAN
    BY TypeParts DEF PipelineInv
  <2> QED
    BY <1>2, <2>1, <2>2, VniValue DEF Vnis
<1>4. /\ frame' = [f EXCEPT !.met = @ \cup {prog[s]}, !.known = @ /\ r.known]
      /\ wire' = w \cup UNION {Carried(s, p, r.outs[i]) : i \in DOMAIN r.outs}
      /\ rcvd' = [x \in Vifs |-> got[x] \o IF x[1] = s THEN Delivered(s, x[2], r.outs) ELSE <<>>]
  BY <1>1 DEF Handle
<1>5. PICK T : /\ r.outs \in Seq(T) /\ r.known \in BOOLEAN
               /\ \A o \in T : GoodOut(s, m, n, f.dst, r.known, o)
  <2>1. TypeOK /\ Ports /\ Tables /\ FibEntries
    BY DEF PipelineInv
  <2>2. PICK T : /\ r.outs \in Seq(T) /\ r.known \in BOOLEAN
                 /\ \A d \in Overlays : \A k \in Vnis :
                      prog[s] = d /\ EntersAs(s, in, p, d, k) =>
                        \A o \in T : GoodOut(s, d, k, p.dst, r.known, o)
    BY <1>1, <2>1, ForwardSound
  <2>3. EntersAs(s, in, p, m, n)
    BY <1>2
  <2>4. \A o \in T : GoodOut(s, m, n, p.dst, r.known, o)
    BY <1>3, <2>2, <2>3
  <2> QED
    BY <2>2, <2>4
<1>6. frame'.src = f.src /\ frame'.dst = f.dst /\ (frame'.known => f.known /\ r.known)
  BY <1>4, <1>5 DEF FrameRecords
<1>7. ASSUME NEW q \in wire' PROVE q.src = f.src /\ q.dst = f.dst /\ Carries(q, m, n)
  <2>1. CASE q \in w
    BY <1>2, <2>1 DEF SoFar
  <2>2. ASSUME NEW i \in DOMAIN r.outs, q \in Carried(s, p, r.outs[i])
        PROVE  q.src = f.src /\ q.dst = f.dst /\ Carries(q, m, n)
    <3>1. PICK o \in T : o = r.outs[i]
      BY <1>5
    <3>2. TypeOK /\ Ports /\ Fits(m)
      <4>1. SutTables(s)
        BY DEF PipelineInv, Tables
      <4> QED
        BY <4>1 DEF SutTables, PipelineInv
    <3>3. GoodCopy(s, m, n, o) /\ q \in Carried(s, p, o)
      BY <1>5, <2>2, <3>1 DEF GoodOut
    <3> QED
      BY <1>3, <3>2, <3>3, CarriedAre, CarriedVni
  <2> QED
    BY <1>4, <2>1, <2>2
<1>8. ASSUME NEW x \in Vifs
      PROVE  /\ rcvd'[x] \in Seq({<<>>})
             /\ rcvd'[x] # <<>> => SameVni(x, f.src) /\ (frame'.known => x = f.dst)
  <2>1. /\ got[x] \in Seq({<<>>})
        /\ got[x] # <<>> => SameVni(x, f.src) /\ (f.known => x = f.dst)
    BY DEF SoFar
  <2>2. CASE x[1] # s
    <3>1. rcvd'[x] = got[x] \o <<>>
      BY <1>4, <2>2
    <3>2. rcvd'[x] = got[x]
      BY <2>1, <3>1
    <3> QED
      BY <1>6, <2>1, <3>2
  <2>3. CASE x[1] = s
    <3>1. PICK d : d = Delivered(s, x[2], r.outs)
      OBVIOUS
    <3>2. rcvd'[x] = got[x] \o d
      BY <1>4, <2>3, <3>1
    <3>3. x[2] \in Range(VifsOf[s]) /\ x = <<s, x[2]>> /\ Ofp(x[2]) \in Locals(s) /\ Ofp(x[2]) >= 10
      BY <2>3, VifsAre, PortNumbers
    <3>4. Ofp(x[2]) \notin Externals /\ OFP_UPLINK_BASE \in Externals /\ Ofp(x[2]) # OFP_LOCAL
      BY <3>3, PortNumbers DEF Externals, OFP_LOCAL
    <3>5. \A t \in Range(tnls[s]) : t.ofp \in Externals
      BY TypeParts, TnlsAre, PortNumbers DEF PipelineInv, Range
    <3>6. ASSUME NEW o \in T, o.port = Ofp(x[2])
          PROVE  o.tags = <<>> /\ Vni(Ofp(x[2])) = n /\ (r.known => x = f.dst)
      <4>1. GoodCopy(s, m, n, o)
        BY <1>5 DEF GoodOut
      <4>2. o.tags = <<>> /\ Vni(Ofp(x[2])) = n
        BY <3>4, <3>5, <3>6, <4>1 DEF GoodCopy
      <4>3. r.known => \E v \in Range(VifsOf[s]) : f.dst = <<s, v>> /\ o.port = Ofp(v)
        BY <1>5, <3>3, <3>4, <3>6 DEF GoodOut
      <4>4. \A v \in Range(VifsOf[s]) : Ofp(v) = Ofp(x[2]) => v = x[2]
        <5>1. \A v \in Range(VifsOf[s]) : v \in Nat
          BY VifsAre
        <5> QED
          BY <3>3, <5>1 DEF Ofp, OFP_VHOST_BASE
      <4> QED
        BY <3>3, <3>6, <4>2, <4>3, <4>4
    <3>7. d \in Seq({<<>>})
      BY <1>5, <3>1, <3>6, DeliveredAre
    <3>8. d # <<>> => \E o \in T : o.port = Ofp(x[2])
      BY <1>5, <3>1, DeliveredAre
    <3>9. d # <<>> => Vni(Ofp(x[2])) = n /\ (r.known => x = f.dst)
      BY <3>6, <3>8
    <3>10. rcvd'[x] \in Seq({<<>>})
      BY <2>1, <3>2, <3>7, ConcatSeq
    <3>11. rcvd'[x] # <<>> => got[x] # <<>> \/ d # <<>>
      BY <2>1, <3>2, <3>7
    <3> QED
      BY <1>2, <1>6, <2>1, <3>9, <3>10, <3>11 DEF SameVni
  <2> QED
    BY <2>2, <2>3
<1> QED
  BY <1>2, <1>3, <1>6, <1>7, <1>8, Zenon DEF SoFar

\* A step of a frame leaves the keywords' variables as they are.
LEMMA CtlKept ==
  ASSUME PipelineInv, UNCHANGED ctl
  PROVE  /\ kind' = kind /\ assigned' = assigned /\ tnls' = tnls /\ tables' = tables /\ kw' = kw
         /\ Ports' /\ Keyword' /\ Tables' /\ (\A p : Vni(p)' = Vni(p)) /\ (OnePort' <=> OnePort)
         /\ (DOMAIN fib' = Suts /\ frame' \in FrameRecords => TypeOK')
<1>1. /\ kind' = kind /\ assigned' = assigned /\ plugged' = plugged /\ vifs' = vifs /\ tnls' = tnls
      /\ ids' = ids /\ tables' = tables /\ prog' = prog /\ kw' = kw
  BY DEF ctl
<1>2. TypeOK /\ Ports /\ Keyword /\ Tables
  BY DEF PipelineInv
<1>3. Ports'
  BY <1>1, <1>2, SutPortsKept DEF Ports
<1>4. \A s \in Suts : SutTables(s)'
  BY <1>1, <1>2, SutTablesKept DEF Tables
<1>5. \A p : Vni(p)' = Vni(p)
  BY <1>1 DEF Vni
<1>6. Writing'
  <2>1. InputFlows(kw.sut, kw.mode)' = InputFlows(kw.sut, kw.mode)
    BY <1>1, <1>5 DEF InputFlows, Locals
  <2>2. Writing
    BY <1>2 DEF Tables
  <2> QED
    BY <1>1, <2>1, <2>2 DEF Writing
<1>7. Keyword'
  BY <1>1, <1>2 DEF Keyword, Fits
<1>8. DOMAIN fib' = Suts /\ frame' \in FrameRecords => TypeOK'
  BY <1>1, <1>2 DEF TypeOK, FrameRecords
<1>9. OnePort' <=> OnePort
  BY <1>1 DEF OnePort
<1> QED
  BY <1>1, <1>3, <1>4, <1>5, <1>6, <1>7, <1>8, <1>9 DEF Tables

\* SoFarIs after a step.
LEMMA SoFarAfter ==
  ASSUME \A p : Vni(p)' = Vni(p), WireOk(wire'), frame'.met # {},
         \A m \in Overlays : frame'.met = {m} => SoFar(frame', wire', rcvd', m)
  PROVE  OnTheWire' /\ Received'
<1>1. Steady(Overlays)' <=> \E m \in Overlays : frame'.met = {m}
  BY DEF Steady, Overlays
<1>2. \A q \in wire' : q.src \in Vifs /\ q.from \in Suts /\ q.to \in Suts \ {q.from}
  BY DEF WireOk
<1>3. ASSUME NEW m \in Overlays, frame'.met = {m} PROVE SoFar(frame, wire, rcvd, m)'
  <2>1. SoFar(frame', wire', rcvd', m)
    BY <1>3
  <2>2. Vni(Ofp(frame.src[2]))' = Vni(Ofp(frame'.src[2]))
    BY DEF Ofp
  <2>3. \A x : SameVni(x, frame.src)' <=> SameVni(x, frame'.src)
    <3>1. \A x : Vni(Ofp(x[2]))' = Vni(Ofp(x[2]))
      BY DEF Ofp
    <3> QED
      BY <2>2, <3>1 DEF SameVni
  <2> QED
    BY <2>1, <2>2, <2>3, Zenon DEF SoFar, Carries
<1>4. OnTheWire'
  BY <1>2, <1>3, Zenon DEF OnTheWire, SoFar
<1>5. Received'
  BY <1>1, <1>3, Zenon DEF Received, SoFar
<1> QED
  BY <1>4, <1>5

\* A packet of frame f enters a SUT, under overlay m.
Continues(s, in, p, f, w, got, m) ==
  /\ SoFar(f, w, got, m) /\ p.src = f.src /\ p.dst = f.dst
  /\ EntersAs(s, in, p, m, Vni(Ofp(f.src[2])))

\* The same on a bridge that cannot relay.
Straight(s, in, p, f, w, got) ==
  /\ \A q \in w : q.from = q.src[1]
  /\ FromNet(s, in, p) => p.from = p.src[1] /\ p.from # s
  /\ \A m \in Overlays : f.met \subseteq {m} =>
       p.src = f.src /\ \A x \in Vifs : got[x] # <<>> => x # f.src

\* The effects of a packet, by what Forward returns and the set that its outputs are from.
Effects(s, in, p, f, w, got, r, T) ==
  /\ \A e \in r.fib : SoundEntry(s, e) /\ (e \in fib[s] \/ (e.mac = p.src /\ e.port = in))
  /\ r.known \in BOOLEAN /\ (~tables[s].base => r.fib = fib[s])
  /\ r.outs \in Seq(T) /\ \A o \in T : o.port # in
  /\ DOMAIN fib' = Suts /\ fib'[s] = r.fib /\ \A t \in Suts : t # s => fib'[t] = fib[t]
  /\ frame' \in FrameRecords
  /\ f = Disturbed => frame' = Disturbed
  /\ f # Disturbed => frame'.met = f.met \cup {prog[s]} /\ frame'.src = f.src
  /\ \A q \in wire' : q \in w \/ \E o \in T : q \in Carried(s, p, o)
  /\ \A x \in Vifs : f # Disturbed =>
       rcvd'[x] = got[x] \o IF x[1] = s THEN Delivered(s, x[2], r.outs) ELSE <<>>
  /\ UNCHANGED ctl

\* They are the effects.
LEMMA HandleIs ==
  ASSUME PipelineInv, NEW s \in Suts, NEW in, NEW p, Enters(s, in, p), NEW f \in FrameRecords,
         NEW w, NEW got, Handle(s, in, p, f, w, got)
  PROVE  \E r, T : Effects(s, in, p, f, w, got, r, T)
<1>1. PICK r : r = Forward(s, in, p)
  OBVIOUS
<1>2. /\ fib' = [fib EXCEPT ![s] = r.fib]
      /\ frame' = IF f = Disturbed THEN f
                  ELSE [f EXCEPT !.met = @ \cup {prog[s]}, !.known = @ /\ r.known]
      /\ wire' = w \cup UNION {Carried(s, p, r.outs[i]) : i \in DOMAIN r.outs}
      /\ rcvd' = [x \in Vifs |-> got[x] \o IF f # Disturbed /\ x[1] = s
                                           THEN Delivered(s, x[2], r.outs) ELSE <<>>]
      /\ UNCHANGED ctl
  BY <1>1 DEF Handle
<1>3. TypeOK /\ Ports /\ Tables /\ FibEntries /\ Control
  BY TypeParts DEF PipelineInv
<1>4. PICK T :
        /\ \A e \in r.fib : SoundEntry(s, e) /\ (e \in fib[s] \/ (e.mac = p.src /\ e.port = in))
        /\ r.known \in BOOLEAN /\ (~tables[s].base => r.fib = fib[s])
        /\ r.outs \in Seq(T) /\ \A o \in T : o.port # in
  BY <1>1, <1>3, ForwardSound
<1>5. DOMAIN fib' = Suts /\ fib'[s] = r.fib /\ \A t \in Suts : t # s => fib'[t] = fib[t]
  BY <1>2, <1>3 DEF Control
<1>6. prog[s] \in Progress
  BY <1>3 DEF Control
<1>7. f # Disturbed => /\ frame' \in FrameRecords /\ frame'.met = f.met \cup {prog[s]} /\ frame'.src = f.src
  <2>1. ASSUME f # Disturbed
        PROVE  frame' = [src |-> f.src, dst |-> f.dst, met |-> f.met \cup {prog[s]}, known |-> f.known /\ r.known]
    BY <1>2, <2>1 DEF FrameRecords
  <2> QED
    BY <1>4, <1>6, <2>1 DEF FrameRecords
<1>8. f = Disturbed => frame' = Disturbed /\ frame' \in FrameRecords
  BY <1>2
<1>9. ASSUME NEW q \in wire' PROVE q \in w \/ \E o \in T : q \in Carried(s, p, o)
  <2>1. ASSUME NEW i \in DOMAIN r.outs, q \in Carried(s, p, r.outs[i]) PROVE \E o \in T : q \in Carried(s, p, o)
    <3>1. r.outs[i] \in T
      BY <1>4
    <3> QED
      BY <2>1, <3>1
  <2> QED
    BY <1>2, <2>1
<1>10. \A x \in Vifs : f # Disturbed =>
         rcvd'[x] = got[x] \o IF x[1] = s THEN Delivered(s, x[2], r.outs) ELSE <<>>
  BY <1>2
<1> QED
  BY <1>2, <1>4, <1>5, <1>7, <1>8, <1>9, <1>10, Zenon DEF Effects

\* The invariant after a packet has entered a SUT.
LEMMA HandleKeeps ==
  ASSUME PipelineInv, NEW s \in Suts, NEW in, NEW p, Enters(s, in, p), p.src \in Vifs,
         NEW f \in FrameRecords, NEW w, NEW got, WireOk(w), Handle(s, in, p, f, w, got),
         \A m \in Overlays : f.met \subseteq {m} => Continues(s, in, p, f, w, got, m)
  PROVE  PipelineInv'
<1>1. PICK r, T : Effects(s, in, p, f, w, got, r, T)
  BY HandleIs
<1>2. TypeOK /\ FibEntries /\ Undeploying
  BY DEF PipelineInv
<1>3. /\ kind' = kind /\ assigned' = assigned /\ tnls' = tnls /\ tables' = tables /\ kw' = kw
      /\ Ports' /\ Keyword' /\ Tables' /\ (\A q : Vni(q)' = Vni(q)) /\ TypeOK'
  BY <1>1, CtlKept DEF Effects
<1>4. Undeploying'
  <2>1. ASSUME NEW t \in Suts, Cleared(t) PROVE tables'[t] = NoTables /\ fib'[t] = {}
    BY <1>1, <1>3, <2>1 DEF Cleared, NoTables, Effects
  <2>2. \A t \in Suts : Cleared(t) => Cleared(t)'
    BY <2>1 DEF Cleared
  <2> QED
    BY <1>2, <1>3, <2>2 DEF Undeploying
<1>5. FibEntries'
  <2> SUFFICES ASSUME NEW t \in Suts, NEW e \in fib'[t] PROVE SoundEntry(t, e)'
    BY DEF FibEntries
  <2>1. SoundEntry(t, e)
    BY <1>1, <1>2 DEF FibEntries, Effects
  <2> QED
    BY <1>3, <2>1, EntryKept
<1>6. WireOk(wire')
  <2> SUFFICES ASSUME NEW q \in wire' PROVE q.src \in Vifs /\ q.from \in Suts /\ q.to \in Suts \ {q.from}
    BY DEF WireOk
  <2>1. CASE q \in w
    BY <2>1 DEF WireOk
  <2>2. ASSUME NEW o \in T, q \in Carried(s, p, o)
        PROVE  q.src \in Vifs /\ q.from \in Suts /\ q.to \in Suts \ {q.from}
    BY <1>2, <2>2, CarriedAre
  <2> QED
    BY <1>1, <2>1, <2>2 DEF Effects
<1>7. frame'.met # {}
  <2>1. CASE f = Disturbed
    <3>1. frame' = Disturbed
      BY <1>1, <2>1 DEF Effects
    <3> QED
      BY <3>1 DEF Disturbed
  <2>2. CASE f # Disturbed
    BY <1>1, <2>2 DEF Effects
  <2> QED
    BY <2>1, <2>2
<1>8. ASSUME NEW m \in Overlays, frame'.met = {m} PROVE SoFar(frame', wire', rcvd', m)
  <2>1. f # Disturbed
    <3>1. f = Disturbed => frame' = Disturbed
      BY <1>1 DEF Effects
    <3>2. Disturbed.met = {"changed"} /\ m # "changed"
      BY DEF Disturbed, Overlays
    <3> QED
      BY <1>8, <3>1, <3>2
  <2>2. prog[s] = m /\ f.met \subseteq {m}
    BY <1>1, <1>8, <2>1 DEF Effects
  <2>3. SoFar(f, w, got, m) /\ p.src = f.src /\ p.dst = f.dst /\ EntersAs(s, in, p, m, Vni(Ofp(f.src[2])))
    BY <2>2 DEF Continues
  <2> QED
    BY <2>1, <2>2, <2>3, HandleSoFar
<1>9. OnTheWire' /\ Received'
  BY <1>3, <1>6, <1>7, <1>8, SoFarAfter
<1> QED
  BY <1>3, <1>4, <1>5, <1>9 DEF PipelineInv

\* On a bridge that cannot relay, what comes from the network goes to no external port.
LEMMA NoRelayed ==
  ASSUME PipelineInv, OnePort, NEW s \in Suts, NEW in, NEW p, FromNet(s, in, p), NEW o, o.port # in
  PROVE  Carried(s, p, o) = {}
<1>1. SUFFICES ASSUME NEW q \in Carried(s, p, o) PROVE FALSE
  OBVIOUS
<1>2. TypeOK
  BY DEF PipelineInv
<1>3. \/ o.port = OFP_UPLINK_BASE /\ kind = "phy"
      \/ \E t \in Range(tnls[s]) : t.ofp = o.port
  BY <1>2, CarriedAre
<1>4. /\ kind = "phy" => in = OFP_UPLINK_BASE
      /\ kind # "phy" => \E t \in Range(tnls[s]) : t.ofp = in
  BY <1>2, InPortsAre
<1>5. \A t \in Range(tnls[s]) : t.ofp \in Range(TunnelIds)
  BY <1>2, TnlsAre DEF Range
<1>6. kind = "phy" => Range(tnls[s]) = {}
  <2>1. kind = "phy" => tnls[s] = <<>>
    BY DEF PipelineInv, Ports, SutPorts
  <2> QED
    BY <2>1 DEF Range
<1>7. kind # "phy" => \A a, b \in Range(TunnelIds) : a = b
  <2>1. kind # "phy" => Len(TunnelIds) <= 1
    BY DEF OnePort
  <2>2. TunnelIds \in Seq(Nat)
    BY PipelineAssumption
  <2>3. Len(TunnelIds) <= 1 => \A i, j \in DOMAIN TunnelIds : i = j
    BY <2>2
  <2> QED
    BY <2>1, <2>3 DEF Range
<1> QED
  BY <1>3, <1>4, <1>5, <1>6, <1>7

\* The rest of the invariant after a packet has entered a SUT of a bridge that cannot relay.
LEMMA HandleStraight ==
  ASSUME PipelineInv, NEW s \in Suts, NEW in, NEW p, Enters(s, in, p), p.src \in Vifs,
         NEW f \in FrameRecords, NEW w, NEW got, Handle(s, in, p, f, w, got),
         OnePort, FibSound, Straight(s, in, p, f, w, got),
         \A m \in Overlays : f.met \subseteq {m} => Continues(s, in, p, f, w, got, m)
  PROVE  Direct' /\ FibSound' /\ NoEcho'
<1>1. PICK r, T : Effects(s, in, p, f, w, got, r, T)
  BY HandleIs
<1>2. TypeOK
  BY DEF PipelineInv
<1>3. kind' = kind /\ tnls' = tnls
  BY <1>1 DEF Effects, ctl
<1>4. FromVif(s, in, p) => p.src[1] = s
  BY DEF FromVif
<1>5. Direct'
  <2> SUFFICES ASSUME NEW q \in wire' PROVE q.from = q.src[1]
    BY DEF Direct
  <2>1. CASE q \in w
    BY <2>1 DEF Straight
  <2>2. ASSUME NEW o \in T, q \in Carried(s, p, o) PROVE q.from = q.src[1]
    <3>1. o.port # in
      BY <1>1 DEF Effects
    <3>2. ~FromNet(s, in, p)
      BY <2>2, <3>1, NoRelayed
    <3>3. p.src[1] = s
      BY <1>4, <3>2 DEF Enters
    <3> QED
      BY <1>2, <2>2, <3>3, CarriedAre
  <2> QED
    BY <1>1, <2>1, <2>2 DEF Effects
<1>6. FibSound'
  <2> SUFFICES ASSUME NEW t \in Suts, NEW e \in fib'[t]
               PROVE  IF e.mac[1] = t THEN e.port = Ofp(e.mac[2])
                      ELSE \/ kind = "phy" /\ e.port = OFP_UPLINK_BASE
                           \/ \E i \in DOMAIN tnls[t] : tnls[t][i].ofp = e.port /\ tnls[t][i].rip \in {FLOW, e.mac[1]}
    BY <1>3 DEF FibSound
  <2>1. CASE e \in fib[t]
    BY <2>1 DEF FibSound
  <2>2. CASE e \notin fib[t]
    <3>1. t = s /\ e.mac = p.src /\ e.port = in
      BY <1>1, <2>2 DEF Effects
    <3>2. CASE FromVif(s, in, p)
      BY <3>1, <3>2 DEF FromVif
    <3>3. CASE FromNet(s, in, p)
      <4>1. e.mac[1] = p.from /\ p.from # s
        BY <3>1, <3>3 DEF Straight
      <4>2. /\ kind = "phy" => in = OFP_UPLINK_BASE
            /\ kind # "phy" => \E u \in Range(tnls[s]) : u.ofp = in /\ u.rip \in {FLOW, p.from}
        BY <1>2, <3>3, InPortsAre
      <4> QED
        BY <3>1, <4>1, <4>2 DEF Range
    <3> QED
      BY <3>2, <3>3 DEF Enters
  <2> QED
    BY <2>1, <2>2
<1>7. NoEcho'
  <2> SUFFICES ASSUME NEW m \in Overlays, frame'.met = {m}, NEW x \in Vifs, rcvd'[x] # <<>>
               PROVE  x # frame'.src
    BY DEF NoEcho, Steady, Receivers, Overlays
  <2>1. f # Disturbed
    BY <1>1 DEF Effects, Disturbed, Overlays
  <2>2. f.met \subseteq {m} /\ frame'.src = f.src
    BY <1>1, <2>1 DEF Effects
  <2>3. p.src = f.src /\ (got[x] # <<>> => x # f.src)
    BY <2>2 DEF Straight
  <2>4. got[x] \in Seq({<<>>})
    BY <2>2 DEF Continues, SoFar
  <2>5. CASE got[x] # <<>>
    BY <2>2, <2>3, <2>5
  <2>6. CASE got[x] = <<>>
    <3>1. rcvd'[x] = <<>> \o IF x[1] = s THEN Delivered(s, x[2], r.outs) ELSE <<>>
      BY <1>1, <2>1, <2>6 DEF Effects
    <3>2. x[1] = s /\ <<>> \o Delivered(s, x[2], r.outs) # <<>>
      <4>1. <<>> \o <<>> = <<>>
        OBVIOUS
      <4> QED
        BY <3>1, <4>1
    <3>3. CASE FromNet(s, in, p)
      <4>1. p.src[1] # s
        BY <3>3 DEF Straight
      <4> QED
        BY <2>2, <2>3, <3>2, <4>1
    <3>4. CASE FromVif(s, in, p)
      <4>1. SUFFICES ASSUME x = p.src PROVE FALSE
        BY <2>2, <2>3
      <4>2. Ofp(x[2]) = in
        BY <3>4, <4>1 DEF FromVif
      <4>3. \A o \in T : o.port # Ofp(x[2])
        BY <1>1, <4>2 DEF Effects
      <4>4. Delivered(s, x[2], r.outs) = <<>>
        BY <1>1, <4>3, DeliveredAre DEF Effects
      <4> QED
        BY <3>2, <4>4
    <3> QED
      BY <3>3, <3>4 DEF Enters
  <2> QED
    BY <2>5, <2>6
<1> QED
  BY <1>5, <1>6, <1>7

\* Copies that are lost, and steps that do nothing.
LEMMA FewerCopies ==
  ASSUME PipelineInv, StraightInv, wire' \subseteq wire, UNCHANGED <<ctl, fib, frame, rcvd>>
  PROVE  PipelineInv' /\ StraightInv'
<1>1. /\ WireOk(wire) /\ frame.met # {}
      /\ \A m \in Overlays : frame.met = {m} => SoFar(frame, wire, rcvd, m)
  BY SoFarIs, Zenon DEF PipelineInv
<1>2. UNCHANGED ctl /\ fib' = fib /\ frame' = frame /\ rcvd' = rcvd
  OBVIOUS
<1>3. /\ kind' = kind /\ assigned' = assigned /\ tnls' = tnls /\ tables' = tables /\ kw' = kw
      /\ Ports' /\ Keyword' /\ Tables' /\ (\A q : Vni(q)' = Vni(q)) /\ (OnePort' <=> OnePort)
      /\ (DOMAIN fib' = Suts /\ frame' \in FrameRecords => TypeOK')
  BY <1>2, CtlKept
<1>4. TypeOK'
  BY <1>2, <1>3, TypeParts DEF PipelineInv, Control
<1>5. Undeploying'
  BY <1>2, <1>3 DEF PipelineInv, Undeploying, Cleared
<1>6. FibEntries' /\ (FibSound => FibSound')
  BY <1>2, <1>3, FibKept DEF PipelineInv
<1>7. WireOk(wire')
  BY <1>1 DEF WireOk
<1>8. \A m \in Overlays : frame'.met = {m} => SoFar(frame', wire', rcvd', m)
  BY <1>1, <1>2 DEF SoFar
<1>9. OnTheWire' /\ Received'
  BY <1>1, <1>2, <1>3, <1>7, <1>8, SoFarAfter
<1>10. PipelineInv'
  BY <1>3, <1>4, <1>5, <1>6, <1>9 DEF PipelineInv
<1>11. Direct => Direct'
  BY DEF Direct
<1>12. NoEcho => NoEcho'
  BY <1>2 DEF NoEcho, Steady, Receivers
<1>13. StraightInv'
  BY <1>3, <1>6, <1>11, <1>12 DEF StraightInv
<1> QED
  BY <1>10, <1>13

\* A VM sends a frame.
LEMMA SendKeeps ==
  ASSUME PipelineInv, StraightInv, NEW v \in Vifs, NEW dst \in Vifs \cup {Bcast}, Send(v, dst)
  PROVE  PipelineInv' /\ StraightInv'
<1>1. PICK p : p = [src |-> v, dst |-> dst, tags |-> <<>>, tun |-> 0, md |-> ANY]
  OBVIOUS
<1>2. PICK f : f = [src |-> v, dst |-> dst, met |-> {}, known |-> TRUE]
  OBVIOUS
<1>0. PICK s \in Suts : s = v[1]
  BY VifsAre
<1>3. PICK in : s = v[1] /\ in = Ofp(v[2])
  BY <1>0
<1>4. Handle(s, in, p, f, {}, Nothing)
  BY <1>1, <1>2, <1>3 DEF Send
<1>5. v[2] \in Range(VifsOf[s]) /\ v = <<s, v[2]>>
  BY <1>3, VifsAre
<1>6. FromVif(s, in, p) /\ Enters(s, in, p) /\ p.src \in Vifs
  BY <1>1, <1>3, <1>5 DEF FromVif, Enters
<1>7. f \in FrameRecords /\ f # Disturbed /\ f.src = v /\ f.dst = dst /\ p.src = v /\ p.dst = dst
  BY <1>1, <1>2 DEF FrameRecords, Disturbed
<1>8. WireOk({}) /\ \A x \in Vifs : Nothing[x] = <<>>
  BY DEF WireOk, Nothing
<1>9. ASSUME NEW m PROVE Continues(s, in, p, f, {}, Nothing, m)
  <2>1. <<>> \in Seq({<<>>})
    OBVIOUS
  <2>2. SoFar(f, {}, Nothing, m)
    BY <1>7, <1>8, <2>1, Zenon DEF SoFar
  <2>3. EntersAs(s, in, p, m, Vni(Ofp(f.src[2])))
    BY <1>3, <1>6, <1>7 DEF EntersAs
  <2> QED
    BY <1>7, <2>2, <2>3 DEF Continues
<1>10. PipelineInv'
  BY <1>4, <1>6, <1>7, <1>8, <1>9, HandleKeeps
<1>11. Straight(s, in, p, f, {}, Nothing)
  <2>1. TypeOK
    BY DEF PipelineInv
  <2>2. ~FromNet(s, in, p)
    BY <1>6, <2>1, LocalInPort
  <2> QED
    BY <1>7, <1>8, <2>2, Zenon DEF Straight
<1>12. StraightInv'
  <2>1. UNCHANGED ctl
    BY <1>4 DEF Handle
  <2>2. OnePort' <=> OnePort
    BY <2>1, CtlKept
  <2>3. OnePort => Direct' /\ FibSound' /\ NoEcho'
    BY <1>4, <1>6, <1>7, <1>9, <1>11, HandleStraight DEF StraightInv
  <2> QED
    BY <2>2, <2>3 DEF StraightInv
<1> QED
  BY <1>10, <1>12

\* A copy of a frame arrives, or finds no port.
LEMMA ArriveKeeps ==
  ASSUME PipelineInv, StraightInv, NEW p \in wire, Arrive(p)
  PROVE  PipelineInv' /\ StraightInv'
<1>1. /\ WireOk(wire) /\ frame.met # {}
      /\ \A m \in Overlays : frame.met = {m} => SoFar(frame, wire, rcvd, m)
  BY SoFarIs, Zenon DEF PipelineInv
<1>2. p.src \in Vifs /\ p.from \in Suts /\ p.to \in Suts /\ p.from # p.to
  BY <1>1 DEF WireOk
<1>3. frame \in FrameRecords /\ TypeOK
  BY TypeParts DEF PipelineInv
<1>4. ASSUME NEW m \in Overlays, frame.met \subseteq {m} PROVE frame.met = {m}
  BY <1>1, <1>4
<1>5. ASSUME NEW in \in InPorts(p), Handle(p.to, in, p, frame, wire \ {p}, rcvd)
      PROVE  PipelineInv' /\ StraightInv'
  <2>1. PICK s \in Suts : s = p.to
    BY <1>2
  <2>2. PICK w : w = wire \ {p}
    OBVIOUS
  <2>3. Handle(s, in, p, frame, w, rcvd)
    BY <1>5, <2>1, <2>2
  <2>4. FromNet(s, in, p) /\ Enters(s, in, p)
    BY <2>1 DEF FromNet, Enters
  <2>5. WireOk(w)
    BY <1>1, <2>2 DEF WireOk
  <2>6. ASSUME NEW m \in Overlays, frame.met \subseteq {m} PROVE Continues(s, in, p, frame, w, rcvd, m)
    <3>1. SoFar(frame, wire, rcvd, m)
      BY <1>1, <1>4, <2>6
    <3>2. SoFar(frame, w, rcvd, m)
      BY <2>2, <3>1 DEF SoFar
    <3>3. p.src = frame.src /\ p.dst = frame.dst /\ Carries(p, m, Vni(Ofp(frame.src[2])))
      BY <3>1, Zenon DEF SoFar
    <3> QED
      BY <2>4, <3>2, <3>3 DEF Continues, EntersAs
  <2>7. PipelineInv'
    BY <1>2, <1>3, <2>3, <2>4, <2>5, <2>6, HandleKeeps
  <2>8. OnePort => Straight(s, in, p, frame, w, rcvd)
    <3>1. OnePort => Direct /\ NoEcho
      BY DEF StraightInv
    <3>2. ASSUME Direct PROVE (\A q \in w : q.from = q.src[1]) /\ p.from = p.src[1] /\ p.from # s
      BY <1>2, <2>1, <2>2, <3>2 DEF Direct
    <3>3. ASSUME NoEcho, NEW m \in Overlays, frame.met \subseteq {m}
          PROVE  p.src = frame.src /\ \A x \in Vifs : rcvd[x] # <<>> => x # frame.src
      <4>1. Steady(Overlays)
        BY <1>4, <3>3 DEF Steady
      <4> QED
        BY <2>6, <3>3, <4>1 DEF NoEcho, Receivers, Continues
    <3> QED
      BY <3>1, <3>2, <3>3 DEF Straight
  <2>9. StraightInv'
    <3>1. UNCHANGED ctl
      BY <2>3 DEF Handle
    <3>2. OnePort' <=> OnePort
      BY <3>1, CtlKept
    <3>3. OnePort => Direct' /\ FibSound' /\ NoEcho'
      BY <1>2, <1>3, <2>3, <2>4, <2>6, <2>8, HandleStraight DEF StraightInv
    <3> QED
      BY <3>2, <3>3 DEF StraightInv
  <2> QED
    BY <2>7, <2>9
<1>6. ASSUME wire' = wire \ {p}, UNCHANGED <<ctl, fib, frame, rcvd, sent>> PROVE PipelineInv' /\ StraightInv'
  BY <1>6, FewerCopies
<1> QED
  BY <1>5, <1>6 DEF Arrive

-------------------------------------------------------------------------------
(* The theorems. *)

\* The keywords begin with arguments that fit the bridge.
LEMMA KeywordsBegin ==
  ASSUME PipelineInv, StraightInv,
         \/ setup_default_pipeline_on_all_suts \/ undeploy
         \/ \E m \in Modes : deploy_vni_as_tunnel_overlay(m.rip, m.tid, m.md)
         \/ \E mode \in {"vlan", "qinq"} : deploy_vni_as_l2_overlay(mode)
  PROVE  PipelineInv' /\ StraightInv'
<1>1. kind \in {"int", "phy"}
  BY TypeParts, PipelineAssumption DEF PipelineInv
<1>2. CASE setup_default_pipeline_on_all_suts
  BY <1>2, EmptyInput, BeginKeeps DEF setup_default_pipeline_on_all_suts
<1>3. CASE undeploy
  <2>1. PICK mode \in Deployments : mode = (IF kind = "int" THEN "tnl" ELSE "vlan")
    BY DEF Deployments, Overlays
  <2>2. Fits(mode)
    BY <1>1, <2>1 DEF Fits, L2Overlays
  <2>3. Begin("clear", mode, "flow", "flow", FALSE)
    BY <1>3, <2>1 DEF undeploy
  <2> QED
    BY <2>2, <2>3, BeginKeeps
<1>4. ASSUME NEW m \in Modes, deploy_vni_as_tunnel_overlay(m.rip, m.tid, m.md)
      PROVE  PipelineInv' /\ StraightInv'
  <2>1. PICK rip \in {"flow", "non-flow"}, tid \in {"flow", "non-flow"}, md \in BOOLEAN :
          rip = m.rip /\ tid = m.tid /\ md = m.md
    BY PipelineAssumption
  <2>2. Begin("tnl_ports", "tnl", rip, tid, md) /\ kind = "int"
    BY <1>4, <2>1 DEF deploy_vni_as_tunnel_overlay
  <2>3. "tnl" \in Deployments /\ Fits("tnl")
    BY <2>2 DEF Deployments, Overlays, Fits, L2Overlays
  <2> QED
    BY <2>2, <2>3, BeginKeeps
<1>5. ASSUME NEW mode \in {"vlan", "qinq"}, deploy_vni_as_l2_overlay(mode) PROVE PipelineInv' /\ StraightInv'
  <2>1. Begin("pipeline", mode, "flow", "flow", FALSE) /\ kind = "phy"
    BY <1>5 DEF deploy_vni_as_l2_overlay
  <2>2. mode \in Deployments /\ Fits(mode)
    BY <2>1 DEF Deployments, Overlays, Fits, L2Overlays
  <2> QED
    BY <2>1, <2>2, BeginKeeps
<1> QED
  BY <1>2, <1>3, <1>4, <1>5

\* Every step keeps the invariant.
LEMMA NextKeeps ==
  ASSUME PipelineInv, StraightInv, [Next]_vars
  PROVE  PipelineInv' /\ StraightInv'
<1>1. CASE UNCHANGED vars
  BY <1>1, FewerCopies DEF vars
<1>2. CASE \E v \in Vifs : \E dst \in (Vifs \cup {Bcast}) \ {v} : Send(v, dst)
  BY <1>2, SendKeeps
<1>3. CASE \E p \in wire : Arrive(p)
  BY <1>3, ArriveKeeps
<1>4. CASE Abort
  BY <1>4, AbortKeeps DEF Abort
<1> QED
  BY <1>1, <1>2, <1>3, <1>4, KeywordsBegin, EndLoopKeeps, CreateTunnelPortsKeeps, ClearAllKeeps,
     ProvisionBaseKeeps, ProvisionNativeOutputKeeps, ClearInputOutputKeeps, ProvisionOverlayInputKeeps,
     ProvisionOverlayOutputKeeps, DeleteTunnelPortsKeeps, AddVifPortsKeeps, DeleteVifPortsKeeps, Zenon
     DEF Next

\* Whatever keywords run, fail and run again while frames are under way, the tables, FIB and
\* the copies of the frame stay what PipelineInv says; and where a bridge has one external
\* port only, nothing is relayed, FIB is exact and no frame returns to its sender.
THEOREM PipelineInductive == Spec => [](PipelineInv /\ StraightInv)
<1>1. Init => PipelineInv /\ StraightInv
  BY InitHolds
<1>2. PipelineInv /\ StraightInv /\ [Next]_vars => PipelineInv' /\ StraightInv'
  BY NextKeeps
<1> QED
  BY <1>1, <1>2, PTL DEF Spec

\* A frame that met one overlay only reaches VIFs of its sender's VNI, however the tunnel
\* ports relay it.
THEOREM VniAlwaysKept == Spec => []VniKept
<1>1. PipelineInv => VniKept
  BY Zenon DEF PipelineInv, Received, VniKept, Receivers
<1> QED
  BY <1>1, PipelineInductive, PTL

\* The VLAN and QinQ tags of an overlay are off when a VIF gets a frame.
THEOREM AlwaysUntagged == Spec => []Untagged
<1>1. PipelineInv => Untagged
  <2> SUFFICES ASSUME PipelineInv, Steady(Overlays), NEW x \in Vifs, NEW i \in DOMAIN rcvd[x]
               PROVE  rcvd[x][i] = <<>>
    BY DEF Untagged
  <2>1. rcvd[x] \in Seq({<<>>})
    BY Zenon DEF PipelineInv, Received
  <2> QED
    BY <2>1
<1> QED
  BY <1>1, PipelineInductive, PTL

\* A frame whose destination every SUT on its way had learned reaches nobody else.
THEOREM AlwaysDirect == Spec => []LearnedIsDirect
<1>1. PipelineInv => LearnedIsDirect
  BY Zenon DEF PipelineInv, Received, LearnedIsDirect, Receivers
<1> QED
  BY <1>1, PipelineInductive, PTL

\* No FIB entry names a tunnel port that is gone: undeploy empties FIB on all SUTs before it
\* deletes the first port.
THEOREM FibPortsAlwaysExist == Spec => []FibPortsExist
<1>1. PipelineInv => FibPortsExist
  <2> SUFFICES ASSUME PipelineInv, NEW s \in Suts, NEW e \in fib[s]
               PROVE  \/ e.port \in Locals(s)
                      \/ kind = "phy" /\ e.port = OFP_UPLINK_BASE
                      \/ \E t \in Range(tnls[s]) : t.ofp = e.port
    BY DEF FibPortsExist
  <2>1. SoundEntry(s, e)
    BY DEF PipelineInv, FibEntries
  <2> QED
    BY <2>1, PortNumbers DEF SoundEntry
<1> QED
  BY <1>1, PipelineInductive, PTL

\* On a bridge with one external port, FIB entries lead to their destinations.
THEOREM FibAlwaysSound == Spec => [](OnePort => FibSound)
<1>1. PipelineInv /\ StraightInv => (OnePort => FibSound)
  BY DEF StraightInv
<1> QED
  BY <1>1, PipelineInductive, PTL

\* On a bridge with one external port, a frame under one overlay reaches VIFs of its
\* sender's VNI only and never its sender.
THEOREM AlwaysIsolated == Spec => [](OnePort => Isolation)
<1>1. PipelineInv /\ StraightInv => (OnePort => Isolation)
  <2>1. ASSUME PipelineInv, StraightInv, OnePort, Steady(Overlays), NEW x \in Receivers
        PROVE  x # frame.src /\ SameVni(x, frame.src)
    BY <2>1, Zenon DEF PipelineInv, StraightInv, Received, NoEcho, Receivers
  <2> QED
    BY <2>1 DEF Isolation
<1> QED
  BY <1>1, PipelineInductive, PTL

===============================================================================
