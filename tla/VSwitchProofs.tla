------------------------------ MODULE VSwitchProofs ------------------------------
(*****************************************************************************)
(* The properties of VSwitch, proved for any number of SUTs, VIFs, tunnel    *)
(* ids and failing commands.                                                 *)
(*****************************************************************************)
EXTENDS VSwitch, FiniteSetTheorems, SequenceTheorems, TLAPS

-------------------------------------------------------------------------------
(* Lists of ids, and of Bridge objects. *)

\* ids.pop(0) of a list without duplicates.
LEMMA TakeId ==
  ASSUME NEW S, NEW q \in Seq(S), q # <<>>, IsInjective(q)
  PROVE  /\ Head(q) \in S /\ Head(q) \in Range(q)
         /\ Tail(q) \in Seq(S) /\ IsInjective(Tail(q)) /\ Len(Tail(q)) = Len(q) - 1
         /\ Range(Tail(q)) = Range(q) \ {Head(q)}
<1>1. /\ Len(q) \in Nat /\ Len(q) >= 1 /\ DOMAIN q = 1..Len(q)
      /\ Head(q) = q[1] /\ Head(q) \in S
  OBVIOUS
<1>2. /\ Tail(q) \in Seq(S) /\ Len(Tail(q)) = Len(q) - 1 /\ DOMAIN Tail(q) = 1..(Len(q) - 1)
      /\ \A i \in 1..(Len(q) - 1) : Tail(q)[i] = q[i + 1]
  OBVIOUS
<1>3. \A i, j \in 1..Len(q) : q[i] = q[j] => i = j
  BY <1>1 DEF IsInjective
<1>4. IsInjective(Tail(q))
  <2> SUFFICES ASSUME NEW i \in 1..(Len(q) - 1), NEW j \in 1..(Len(q) - 1), q[i + 1] = q[j + 1]
               PROVE  i = j
    BY <1>2 DEF IsInjective
  <2>1. i + 1 \in 1..Len(q) /\ j + 1 \in 1..Len(q)
    BY <1>1
  <2>2. i + 1 = j + 1
    BY <1>3, <2>1
  <2> QED
    BY <2>2
<1>5. Range(Tail(q)) = {q[i + 1] : i \in 1..(Len(q) - 1)}
  BY <1>2 DEF Range
<1>6. Range(q) = {q[i] : i \in 1..Len(q)}
  BY <1>1 DEF Range
<1>7. Head(q) \in Range(q)
  BY <1>1, <1>6
<1>8. ASSUME NEW x PROVE x \in Range(Tail(q)) <=> x \in Range(q) /\ x # Head(q)
  <2>1. ASSUME NEW i \in 1..(Len(q) - 1), x = q[i + 1]
        PROVE  x \in Range(q) /\ x # Head(q)
    <3>1. i + 1 \in 1..Len(q) /\ 1 \in 1..Len(q) /\ i + 1 # 1
      BY <1>1
    <3> QED
      BY <1>1, <1>3, <1>6, <2>1, <3>1
  <2>2. ASSUME NEW i \in 1..Len(q), x = q[i], x # Head(q)
        PROVE  x \in Range(Tail(q))
    <3>1. i # 1
      BY <1>1, <2>2
    <3>2. i - 1 \in 1..(Len(q) - 1) /\ (i - 1) + 1 = i
      BY <1>1, <3>1
    <3> QED
      BY <1>5, <2>2, <3>2
  <2> QED
    BY <1>5, <1>6, <2>1, <2>2
<1> QED
  BY <1>1, <1>2, <1>4, <1>7, <1>8

\* append of an id that is not in the list.
LEMMA AddId ==
  ASSUME NEW S, NEW q \in Seq(S), NEW e \in S
  PROVE  /\ Append(q, e) \in Seq(S) /\ Len(Append(q, e)) = Len(q) + 1
         /\ Range(Append(q, e)) = Range(q) \cup {e}
         /\ IsInjective(q) /\ e \notin Range(q) => IsInjective(Append(q, e))
<1>1. Len(q) \in Nat /\ DOMAIN q = 1..Len(q)
  OBVIOUS
<1>2. /\ Append(q, e) \in Seq(S) /\ Len(Append(q, e)) = Len(q) + 1
      /\ DOMAIN Append(q, e) = 1..(Len(q) + 1) /\ Append(q, e)[Len(q) + 1] = e
      /\ \A i \in 1..Len(q) : Append(q, e)[i] = q[i]
  OBVIOUS
<1>3. Range(q) = {q[i] : i \in 1..Len(q)}
  BY <1>1 DEF Range
<1>4. Range(Append(q, e)) = {Append(q, e)[i] : i \in 1..(Len(q) + 1)}
  BY <1>2 DEF Range
<1>5. \A i \in 1..(Len(q) + 1) : i \in 1..Len(q) \/ i = Len(q) + 1
  BY <1>1
<1>6. \A i \in 1..Len(q) : i \in 1..(Len(q) + 1)
  BY <1>1
<1>7. Len(q) + 1 \in 1..(Len(q) + 1)
  BY <1>1
<1>8. Range(Append(q, e)) = Range(q) \cup {e}
  BY <1>2, <1>3, <1>4, <1>5, <1>6, <1>7
<1>9. ASSUME IsInjective(q), e \notin Range(q) PROVE IsInjective(Append(q, e))
  <2> SUFFICES ASSUME NEW i \in 1..(Len(q) + 1), NEW j \in 1..(Len(q) + 1),
                      Append(q, e)[i] = Append(q, e)[j]
               PROVE  i = j
    BY <1>2 DEF IsInjective
  <2>1. \A k \in 1..Len(q) : q[k] # e
    BY <1>3, <1>9
  <2>2. \A k, l \in 1..Len(q) : q[k] = q[l] => k = l
    BY <1>1, <1>9 DEF IsInjective
  <2> QED
    BY <1>2, <1>5, <2>1, <2>2
<1> QED
  BY <1>2, <1>8, <1>9

\* remove of the element at position p of a list without duplicates.
LEMMA RemoveId ==
  ASSUME NEW S, NEW q \in Seq(S), IsInjective(q), NEW p \in 1..Len(q)
  PROVE  /\ q[p] \in S /\ q[p] \in Range(q)
         /\ RemoveAt(q, p) \in Seq(S) /\ IsInjective(RemoveAt(q, p))
         /\ Len(RemoveAt(q, p)) = Len(q) - 1
         /\ Range(RemoveAt(q, p)) = Range(q) \ {q[p]}
<1> DEFINE t == RemoveAt(q, p)
           At(i) == IF i < p THEN i ELSE i + 1
<1>1. Len(q) \in Nat /\ DOMAIN q = 1..Len(q) /\ p \in Nat /\ p >= 1 /\ p <= Len(q)
  OBVIOUS
<1>2. PICK u : u = SubSeq(q, 1, p - 1)
  OBVIOUS
<1>3. PICK w : w = SubSeq(q, p + 1, Len(q))
  OBVIOUS
<1>4. u \in Seq(S) /\ Len(u) = p - 1 /\ \A i \in 1..(p - 1) : u[i] = q[i]
  BY <1>1, <1>2
<1>5. w \in Seq(S) /\ Len(w) = Len(q) - p /\ \A i \in 1..(Len(q) - p) : w[i] = q[p + i]
  <2>1. PICK m \in Int : m = p + 1
    BY <1>1
  <2>2. \A i \in m..Len(q) : q[i] \in S
    BY <1>1, <2>1
  <2>3. /\ w \in Seq(S) /\ Len(w) = IF m <= Len(q) THEN Len(q) - m + 1 ELSE 0
        /\ \A i \in 1..(Len(q) - m + 1) : w[i] = q[m + i - 1]
    BY <1>1, <1>3, <2>1, <2>2, SubSeqProperties
  <2>4. Len(w) = Len(q) - p
    <3>1. PICK l \in Nat : l = Len(q)
      BY <1>1
    <3>2. CASE m <= l
      <4>1. Len(w) = l - m + 1 /\ l - m + 1 = l - p
        BY <1>1, <2>1, <2>3, <3>1, <3>2
      <4> QED
        BY <3>1, <4>1
    <3>3. CASE ~(m <= l)
      <4>1. Len(w) = 0
        BY <2>3, <3>1, <3>3
      <4>2. p = l
        <5>1. p \in Nat /\ p <= l
          BY <1>1, <3>1
        <5> QED
          BY <2>1, <3>3, <5>1
      <4> QED
        BY <3>1, <4>1, <4>2
    <3> QED
      BY <3>2, <3>3
  <2>5. ASSUME NEW i \in 1..(Len(q) - p) PROVE w[i] = q[p + i]
    <3>1. i \in 1..(Len(q) - m + 1) /\ m + i - 1 = p + i
      BY <1>1, <2>1
    <3> QED
      BY <2>3, <3>1
  <2> QED
    BY <2>3, <2>4, <2>5
<1>6. t = u \o w
  BY <1>2, <1>3 DEF RemoveAt
<1>7. t \in Seq(S) /\ Len(t) = Len(q) - 1 /\ DOMAIN t = 1..(Len(q) - 1)
  <2>1. u \o w \in Seq(S) /\ Len(u \o w) = Len(u) + Len(w)
    BY <1>4, <1>5, ConcatProperties
  <2>2. Len(u) + Len(w) = Len(q) - 1
    BY <1>1, <1>4, <1>5
  <2>3. t \in Seq(S) /\ Len(t) = Len(q) - 1
    BY <1>6, <2>1, <2>2
  <2> QED
    BY <2>3
<1>8. ASSUME NEW i \in 1..(Len(q) - 1) PROVE t[i] = q[At(i)] /\ At(i) \in 1..Len(q) /\ At(i) # p
  <2>1. CASE i < p
    <3>1. i \in 1..(p - 1) /\ i \in 1..Len(q)
      BY <1>1, <2>1
    <3>2. t[i] = u[i]
      BY <1>4, <1>5, <1>6, <3>1
    <3> QED
      BY <1>1, <1>4, <2>1, <3>1, <3>2
  <2>2. CASE ~(i < p)
    <3>1. i - (p - 1) \in 1..(Len(q) - p) /\ p + (i - (p - 1)) = i + 1
      BY <1>1, <2>2
    <3>2. t[i] = w[i - (p - 1)]
      BY <1>1, <1>4, <1>5, <1>6, <2>2, SMTT(30)
    <3> QED
      BY <1>1, <1>5, <2>2, <3>1, <3>2
  <2> QED
    BY <2>1, <2>2
<1> HIDE DEF t
<1>9. \A i, j \in 1..Len(q) : q[i] = q[j] => i = j
  BY <1>1 DEF IsInjective
<1>10. IsInjective(t)
  <2> SUFFICES ASSUME NEW i \in 1..(Len(q) - 1), NEW j \in 1..(Len(q) - 1), t[i] = t[j]
               PROVE  i = j
    BY <1>7 DEF IsInjective
  <2>1. At(i) = At(j)
    BY <1>8, <1>9
  <2> QED
    BY <1>1, <2>1
<1>11. Range(t) = {t[i] : i \in 1..(Len(q) - 1)} /\ Range(q) = {q[i] : i \in 1..Len(q)}
  BY <1>1, <1>7 DEF Range
<1>12. ASSUME NEW x PROVE x \in Range(t) <=> x \in Range(q) /\ x # q[p]
  <2>1. ASSUME NEW i \in 1..(Len(q) - 1), x = t[i]
        PROVE  x \in Range(q) /\ x # q[p]
    BY <1>8, <1>9, <1>11, <2>1
  <2>2. ASSUME NEW i \in 1..Len(q), x = q[i], x # q[p]
        PROVE  x \in Range(t)
    <3>1. PICK j \in 1..(Len(q) - 1) : At(j) = i
      <4>1. CASE i < p
        <5>1. i \in 1..(Len(q) - 1)
          BY <1>1, <4>1
        <5>2. At(i) = i
          BY <4>1
        <5> QED
          BY <5>1, <5>2
      <4>2. CASE i > p
        <5>1. i - 1 \in 1..(Len(q) - 1) /\ ~(i - 1 < p)
          BY <1>1, <4>2
        <5>2. At(i - 1) = i
          BY <5>1
        <5> QED
          BY <5>1, <5>2
      <4> QED
        BY <1>1, <2>2, <4>1, <4>2
    <3> QED
      BY <1>8, <1>11, <2>2, <3>1
  <2> QED
    BY <1>11, <2>1, <2>2
<1>13. q[p] \in S /\ q[p] \in Range(q)
  BY <1>1, <1>11
<1> QED
  BY <1>7, <1>10, <1>12, <1>13 DEF t

\* The objects and states the keywords start from.
LEMMA Blank ==
  /\ NewBridge \in BridgeObjects /\ NoBridge \in OvsStates /\ EmptyBridge \in OvsStates
  /\ NewBridge.ids = TunnelIds /\ NewBridge.tnl_ports = <<>>
  /\ ~NewBridge.uplinks /\ ~NewBridge.with_md
  /\ EmptyBridge.br /\ EmptyBridge.tnl = {} /\ ~EmptyBridge.uplink /\ ~EmptyBridge.tlv
  /\ ~NoBridge.br /\ NoBridge.tnl = {}
  /\ IsFiniteSet(Ids)
<1>1. TunnelIds \in Seq(Ids)
  <2>1. /\ TunnelIds \in [1..Len(TunnelIds) -> Nat] /\ Len(TunnelIds) \in Nat
        /\ DOMAIN TunnelIds = 1..Len(TunnelIds)
    BY VSwitchAssumption
  <2>2. \A i \in 1..Len(TunnelIds) : TunnelIds[i] \in Ids
    BY <2>1 DEF Ids, Range
  <2> QED
    BY <2>1, <2>2
<1>2. NewBridge \in BridgeObjects
  <2>1. <<>> \in Seq(Ids) /\ {} \in SUBSET Vifs
    OBVIOUS
  <2> QED
    BY <1>1, <2>1 DEF NewBridge, BridgeObjects
<1>3. NoBridge \in OvsStates /\ EmptyBridge \in OvsStates
  BY DEF NoBridge, EmptyBridge, OvsStates
<1>4. IsFiniteSet(Ids)
  <2>1. Len(TunnelIds) \in Nat /\ DOMAIN TunnelIds = 1..Len(TunnelIds)
    BY VSwitchAssumption
  <2>2. TunnelIds \in Surjection(1..Len(TunnelIds), Ids)
    BY <1>1, <2>1 DEF Surjection, Ids, Range
  <2>3. ExistsSurjection(1..Len(TunnelIds), Ids)
    BY <2>2 DEF ExistsSurjection
  <2> QED
    BY <2>1, <2>3, FS_NatSurjection
<1> QED
  BY <1>2, <1>3, <1>4 DEF NewBridge, NoBridge, EmptyBridge

\* create_bridge and delete_bridge, as changes of one SUT.
LEMMA BridgeMade ==
  ASSUME NEW o \in Seq(BridgeObjects), NEW v \in OvsStates, Sound(o, v)
  PROVE  /\ Append(o, NewBridge) \in Seq(BridgeObjects) /\ Append(o, NewBridge) # <<>>
         /\ Sound(Append(o, NewBridge), EmptyBridge)
         /\ Sound(o, EmptyBridge) /\ Sound(o, NoBridge)
         /\ Agree(o, v) /\ ~v.br => Agree(Append(o, NewBridge), EmptyBridge)
<1>1. /\ Len(o) \in Nat /\ Len(Append(o, NewBridge)) = Len(o) + 1
      /\ Append(o, NewBridge) \in Seq(BridgeObjects) /\ Append(o, NewBridge) # <<>>
      /\ Append(o, NewBridge)[Len(o) + 1] = NewBridge
      /\ \A i \in 1..Len(o) : Append(o, NewBridge)[i] = o[i]
  <2>1. PICK x \in BridgeObjects : x = NewBridge
    BY Blank
  <2>2. /\ Len(o) \in Nat /\ Len(Append(o, x)) = Len(o) + 1
        /\ Append(o, x) \in Seq(BridgeObjects) /\ Append(o, x) # <<>>
        /\ Append(o, x)[Len(o) + 1] = x
        /\ \A i \in 1..Len(o) : Append(o, x)[i] = o[i]
    OBVIOUS
  <2> QED
    BY <2>1, <2>2
<1>2. IsInjective(TunnelIds) /\ IsInjective(<<>>) /\ Range(<<>>) = {}
  BY VSwitchAssumption DEF IsInjective, Range
<1>3. \A i \in 1..(Len(o) + 1) : i \in 1..Len(o) \/ i = Len(o) + 1
  BY <1>1
<1>4. Sound(Append(o, NewBridge), EmptyBridge)
  <2>1. Range(TunnelIds) \cap Range(<<>>) = {}
    BY <1>2
  <2>2. ASSUME NEW i \in 1..(Len(o) + 1)
        PROVE  /\ IsInjective(Append(o, NewBridge)[i].ids)
               /\ IsInjective(Append(o, NewBridge)[i].tnl_ports)
               /\ Range(Append(o, NewBridge)[i].ids) \cap Range(Append(o, NewBridge)[i].tnl_ports) = {}
    <3>1. CASE i \in 1..Len(o)
      BY <1>1, <3>1 DEF Sound
    <3>2. CASE i = Len(o) + 1
      BY <1>1, <1>2, <2>1, <3>2, Blank
    <3> QED
      BY <1>3, <3>1, <3>2
  <2> QED
    BY <1>1, <2>2, Blank DEF Sound
<1>5. Sound(o, EmptyBridge) /\ Sound(o, NoBridge)
  BY Blank DEF Sound
<1>6. ASSUME Agree(o, v), ~v.br PROVE Agree(Append(o, NewBridge), EmptyBridge)
  <2>1. o = <<>> /\ Len(o) = 0
    BY <1>6 DEF Agree
  <2>2. Append(o, NewBridge)[1] = NewBridge /\ Len(Append(o, NewBridge)) = 1
    BY <1>1, <2>1
  <2>3. Len(<<>>) + Len(TunnelIds) = Len(TunnelIds) /\ Len(Append(o, NewBridge)) <= 1
    BY <2>2, VSwitchAssumption
  <2>4. NewBridge.uplinks = EmptyBridge.uplink /\ NewBridge.with_md = EmptyBridge.tlv
    BY DEF NewBridge, EmptyBridge, NoBridge
  <2> QED
    BY <1>1, <1>2, <2>2, <2>3, <2>4, Blank DEF Agree
<1> QED
  BY <1>1, <1>4, <1>5, <1>6

\* The first object of the name is removed; the next one, if any, comes to its place.
LEMMA BridgeRemoved ==
  ASSUME NEW o \in Seq(BridgeObjects), NEW v \in OvsStates, Sound(o, v), o # <<>>
  PROVE  /\ Tail(o) \in Seq(BridgeObjects) /\ Sound(Tail(o), NoBridge)
         /\ Agree(o, v) => Agree(Tail(o), NoBridge)
<1>1. /\ Tail(o) \in Seq(BridgeObjects) /\ Len(Tail(o)) = Len(o) - 1 /\ Len(o) \in Nat
      /\ \A i \in 1..(Len(o) - 1) : Tail(o)[i] = o[i + 1]
  OBVIOUS
<1>2. \A i \in 1..(Len(o) - 1) : i + 1 \in 1..Len(o)
  BY <1>1
<1>3. Sound(Tail(o), NoBridge)
  BY <1>1, <1>2, Blank DEF Sound
<1>4. ASSUME Agree(o, v) PROVE Agree(Tail(o), NoBridge)
  <2>1. Len(o) <= 1
    BY <1>4 DEF Agree
  <2>2. Len(Tail(o)) = 0 /\ Tail(o) = <<>>
    BY <1>1, <2>1
  <2>3. Len(Tail(o)) <= 1
    BY <2>2
  <2> QED
    BY <2>2, <2>3, Blank DEF Agree
<1> QED
  BY <1>1, <1>3, <1>4

\* A change of the object that get_bridge returns, beside a change of Open vSwitch.
LEMMA FirstChanged ==
  ASSUME NEW o \in Seq(BridgeObjects), NEW v \in OvsStates, Sound(o, v), o # <<>>,
         NEW b \in BridgeObjects, NEW w \in OvsStates,
         IsInjective(b.ids), IsInjective(b.tnl_ports),
         Range(b.ids) \cap Range(b.tnl_ports) = {}, Range(b.ids) \cap w.tnl = {}
  PROVE  /\ <<b>> \o Tail(o) \in Seq(BridgeObjects) /\ <<b>> \o Tail(o) # <<>>
         /\ (<<b>> \o Tail(o))[1] = b
         /\ Sound(<<b>> \o Tail(o), w)
<1>1. PICK n : n = <<b>> \o Tail(o)
  OBVIOUS
<1>2. /\ Len(o) \in Nat /\ Len(o) >= 1 /\ n \in Seq(BridgeObjects) /\ Len(n) = Len(o)
      /\ n # <<>> /\ n[1] = b
  BY <1>1
<1>3. \A i \in 2..Len(o) : n[i] = o[i]
  BY <1>1
<1>4. \A i \in 1..Len(o) : i = 1 \/ i \in 2..Len(o)
  BY <1>2
<1>5. Sound(n, w)
  <2>1. ASSUME NEW i \in 1..Len(n)
        PROVE  /\ IsInjective(n[i].ids) /\ IsInjective(n[i].tnl_ports)
               /\ Range(n[i].ids) \cap Range(n[i].tnl_ports) = {}
    <3>1. CASE i = 1
      BY <1>2, <3>1
    <3>2. CASE i \in 2..Len(o)
      BY <1>2, <1>3, <3>2 DEF Sound
    <3> QED
      BY <1>2, <1>4, <3>1, <3>2
  <2> QED
    BY <1>2, <2>1 DEF Sound
<1> QED
  BY <1>1, <1>2, <1>5

\* The changed object agrees with Open vSwitch when the two changed together.
LEMMA FirstAgrees ==
  ASSUME NEW o \in Seq(BridgeObjects), NEW v, o # <<>>, Agree(o, v),
         NEW b \in BridgeObjects, NEW w, w.br, Range(b.tnl_ports) = w.tnl,
         Len(b.tnl_ports) + Len(b.ids) = Len(TunnelIds), b.uplinks = w.uplink, b.with_md = w.tlv
  PROVE  Agree(<<b>> \o Tail(o), w)
<1>1. PICK n : n = <<b>> \o Tail(o)
  OBVIOUS
<1>2. Len(n) = Len(o) /\ n # <<>> /\ n[1] = b
  BY <1>1
<1>3. Agree(n, w)
  BY <1>2 DEF Agree
<1> QED
  BY <1>1, <1>3

\* A change of Open vSwitch alone.
LEMMA OvsChanged ==
  ASSUME NEW o, NEW v, NEW w, Sound(o, v), w.tnl \subseteq v.tnl
  PROVE  /\ Sound(o, w)
         /\ Agree(o, v) /\ w.br = v.br /\ w.tnl = v.tnl /\ w.uplink = v.uplink /\ w.tlv = v.tlv
              => Agree(o, w)
  BY DEF Sound, Agree

-------------------------------------------------------------------------------
(* One SUT at a time. *)

\* What is known of the SUT that a keyword is at.
LEMMA Here ==
  ASSUME VSwitchInv, sut <= NSuts
  PROVE  /\ sut \in Suts /\ sut \in Nat /\ NSuts \in Nat /\ pos \in Nat \ {0}
         /\ objs[sut] \in Seq(BridgeObjects) /\ ovs[sut] \in OvsStates
         /\ objs \in [Suts -> Seq(BridgeObjects)] /\ ovs \in [Suts -> OvsStates]
         /\ Sound(objs[sut], ovs[sut]) /\ (faults = 0 => Agree(objs[sut], ovs[sut]))
         /\ faults \in Nat /\ faults <= MaxFaults /\ MaxFaults \in Nat
<1>1. sut \in 1..(NSuts + 1) /\ NSuts \in Nat /\ faults \in 0..MaxFaults /\ MaxFaults \in Nat
  BY VSwitchAssumption DEF VSwitchInv, TypeOK
<1>2. sut \in Suts /\ sut \in Nat /\ faults \in Nat /\ faults <= MaxFaults
  BY <1>1 DEF Suts
<1> QED
  BY <1>1, <1>2 DEF VSwitchInv, TypeOK, SutsSound

\* A step that changes the objects or the Open vSwitch state of one SUT.
LEMMA Touched ==
  ASSUME VSwitchInv, sut <= NSuts, NEW o \in Seq(BridgeObjects), NEW v \in OvsStates,
         objs' = [objs EXCEPT ![sut] = o], ovs' = [ovs EXCEPT ![sut] = v],
         faults' = faults \/ faults' = faults + 1,
         Sound(o, v), faults' = 0 => Agree(o, v)
  PROVE  /\ objs' \in [Suts -> Seq(BridgeObjects)] /\ ovs' \in [Suts -> OvsStates]
         /\ objs'[sut] = o /\ ovs'[sut] = v
         /\ \A s \in Suts : s # sut => objs'[s] = objs[s] /\ ovs'[s] = ovs[s]
         /\ SutsSound'
<1>1. /\ sut \in Suts /\ objs \in [Suts -> Seq(BridgeObjects)] /\ ovs \in [Suts -> OvsStates]
      /\ faults \in Nat
  BY Here
<1>2. objs' \in [Suts -> Seq(BridgeObjects)] /\ ovs' \in [Suts -> OvsStates]
  BY <1>1
<1>3. objs'[sut] = o /\ ovs'[sut] = v
  BY <1>1
<1>4. \A s \in Suts : s # sut => objs'[s] = objs[s] /\ ovs'[s] = ovs[s]
  BY <1>1
<1>5. faults' = 0 => faults = 0
  BY <1>1
<1>6. ASSUME NEW s \in Suts
      PROVE  Sound(objs'[s], ovs'[s]) /\ (faults' = 0 => Agree(objs'[s], ovs'[s]))
  <2>1. CASE s = sut
    BY <1>3, <2>1
  <2>2. CASE s # sut
    BY <1>4, <1>5, <2>2 DEF VSwitchInv, SutsSound
  <2> QED
    BY <2>1, <2>2
<1>7. SutsSound'
  <2>1. SutsSound' <=>
          \A s \in Suts : Sound(objs'[s], ovs'[s]) /\ (faults' = 0 => Agree(objs'[s], ovs'[s]))
    BY DEF SutsSound, Sound, Agree
  <2> QED
    BY <1>6, <2>1
<1> QED
  BY <1>2, <1>3, <1>4, <1>7

\* The exception that ends a keyword.
LEMMA Aborted ==
  ASSUME VSwitchInv, kw # "idle", sut <= NSuts,
         NEW o \in Seq(BridgeObjects), NEW v \in OvsStates,
         objs' = [objs EXCEPT ![sut] = o], ovs' = [ovs EXCEPT ![sut] = v],
         faults' = faults \/ (faults < MaxFaults /\ faults' = faults + 1),
         Sound(o, v), faults' = 0 => Agree(o, v),
         ofp' \in [Suts -> BOOLEAN], kw' = "idle", UNCHANGED <<sut, pos, args, done, vni>>
  PROVE  VSwitchInv'
<1>1. /\ objs' \in [Suts -> Seq(BridgeObjects)] /\ ovs' \in [Suts -> OvsStates] /\ SutsSound'
  BY Touched
<1>2. faults' \in 0..MaxFaults
  BY Here
<1>3. TypeOK'
  BY <1>1, <1>2 DEF VSwitchInv, TypeOK
<1>4. done' = "none"
  BY DEF VSwitchInv, Progress, Reset
<1>5. Progress'
  BY <1>4 DEF Progress, Reset, UplinkPending, DeleteProgress, DeletedEverywhere, DeployProgress
<1> QED
  BY <1>1, <1>3, <1>5 DEF VSwitchInv

\* The same, when nothing else has happened.
LEMMA AbortedUntouched ==
  ASSUME VSwitchInv, kw # "idle", sut <= NSuts, Errs, UNCHANGED <<objs, ovs, ofp, faults>>
  PROVE  VSwitchInv'
<1>1. objs' = [objs EXCEPT ![sut] = objs[sut]] /\ ovs' = [ovs EXCEPT ![sut] = ovs[sut]]
  BY Here
<1>2. ofp' \in [Suts -> BOOLEAN]
  BY DEF VSwitchInv, TypeOK
<1> QED
  BY <1>1, <1>2, Here, Aborted DEF Errs

\* A keyword goes on: what its variables are, and what its progress must be.
LEMMA GoesOn ==
  ASSUME VSwitchInv, kw # "idle", sut <= NSuts,
         NEW o \in Seq(BridgeObjects), NEW v \in OvsStates,
         objs' = [objs EXCEPT ![sut] = o], ovs' = [ovs EXCEPT ![sut] = v], UNCHANGED faults,
         Sound(o, v), faults = 0 => Agree(o, v), ofp' \in [Suts -> BOOLEAN],
         \/ sut' = sut + 1 /\ pos' = 1
         \/ sut' = sut /\ pos' = pos + 1,
         UNCHANGED <<kw, args, done, vni>>,
         UplinkPending', DeleteProgress', DeployProgress'
  PROVE  VSwitchInv'
<1>1. /\ objs' \in [Suts -> Seq(BridgeObjects)] /\ ovs' \in [Suts -> OvsStates] /\ SutsSound'
  BY Touched
<1>2. sut' \in 1..(NSuts + 1) /\ pos' \in Nat \ {0}
  <2>1. sut \in Nat /\ sut >= 1 /\ NSuts \in Nat /\ pos \in Nat \ {0}
    BY Here DEF Suts
  <2> QED
    BY <2>1
<1>3. TypeOK'
  BY <1>1, <1>2 DEF VSwitchInv, TypeOK
<1>4. Reset'
  BY DEF VSwitchInv, Progress, Reset
<1> QED
  BY <1>1, <1>3, <1>4 DEF VSwitchInv, Progress

Tracked == {"uplink_create", "delete_bridge", "tnl_ports", "pipeline", "overlay"}

\* Keywords whose progress nothing depends on.
LEMMA Untracked ==
  ASSUME VSwitchInv, kw \notin Tracked \cup {"idle"}, UNCHANGED <<kw, done>>
  PROVE  UplinkPending' /\ DeleteProgress' /\ DeployProgress'
  BY DEF VSwitchInv, Progress, Reset, UplinkPending, DeleteProgress, DeletedEverywhere,
         DeployProgress, Tracked

\* The exception of a command, when the objects stay as they are: the command has had
\* no effect, or one of those in results and then by a failure of its own.
LEMMA Interrupted ==
  ASSUME VSwitchInv, kw # "idle", sut <= NSuts,
         NEW results, results \subseteq OvsStates, \A r \in results : Sound(objs[sut], r),
         UNCHANGED objs, ofp' \in [Suts -> BOOLEAN],
         kw' = "idle", UNCHANGED <<sut, pos, args, done, vni>>,
         \/ UNCHANGED <<ovs, faults>>
         \/ /\ faults < MaxFaults
            /\ faults' = faults + 1
            /\ UNCHANGED ovs \/ \E r \in results : ovs' = [ovs EXCEPT ![sut] = r]
  PROVE  VSwitchInv'
<1>1. objs' = [objs EXCEPT ![sut] = objs[sut]]
  BY Here
<1>2. CASE UNCHANGED ovs
  <2>1. ovs' = [ovs EXCEPT ![sut] = ovs[sut]]
    BY <1>2, Here
  <2>2. faults' = 0 => Agree(objs[sut], ovs[sut])
    <3>1. faults' = 0 => faults = 0
      BY Here
    <3> QED
      BY <3>1, Here
  <2> QED
    BY <1>1, <2>1, <2>2, Here, Aborted
<1>3. CASE faults < MaxFaults /\ faults' = faults + 1 /\ ~UNCHANGED ovs
  <2>1. PICK r \in results : ovs' = [ovs EXCEPT ![sut] = r]
    BY <1>3
  <2>2. r \in OvsStates /\ Sound(objs[sut], r) /\ faults' # 0
    BY <1>3, Here
  <2> QED
    BY <1>1, <1>3, <2>1, <2>2, Here, Aborted
<1> QED
  BY <1>2, <1>3

-------------------------------------------------------------------------------
(* The bridge keywords. *)

\* create_bridge.
LEMMA CreatesBridge ==
  ASSUME VSwitchInv, CreateBridge
  PROVE  VSwitchInv'
<1>1. kw = "create_bridge" /\ sut <= NSuts /\ ofp' \in [Suts -> BOOLEAN]
  BY DEF CreateBridge, In, VSwitchInv, TypeOK
<1>2. CASE BridgeCreated(NextSut)
  <2>1. /\ ~ovs[sut].br /\ ovs' = [ovs EXCEPT ![sut] = EmptyBridge] /\ faults' = faults
        /\ objs' = [objs EXCEPT ![sut] = Append(objs[sut], NewBridge)]
        /\ sut' = sut + 1 /\ pos' = 1 /\ UNCHANGED <<kw, args, done, vni>>
    BY <1>2 DEF BridgeCreated, Succeeds, NextSut, GoOn, Ovs
  <2>2. UplinkPending' /\ DeleteProgress' /\ DeployProgress'
    BY <1>1, <2>1, Untracked DEF Tracked
  <2> QED
    BY <1>1, <2>1, <2>2, Here, BridgeMade, Blank, GoesOn
<1>3. CASE Raises(~Ovs.br, {EmptyBridge}) /\ UNCHANGED objs
  <2>1. PICK results : results = {EmptyBridge}
    OBVIOUS
  <2>2. results \subseteq OvsStates /\ \A r \in results : Sound(objs[sut], r)
    BY <1>1, <2>1, Here, BridgeMade, Blank
  <2>3. /\ \/ UNCHANGED <<ovs, faults>>
           \/ /\ faults < MaxFaults
              /\ faults' = faults + 1
              /\ UNCHANGED ovs \/ \E r \in results : ovs' = [ovs EXCEPT ![sut] = r]
        /\ kw' = "idle" /\ UNCHANGED <<sut, pos, args, done, vni>>
    BY <1>3, <2>1 DEF Raises
  <2> QED
    BY <1>1, <1>3, <2>2, <2>3, Interrupted
<1> QED
  BY <1>2, <1>3 DEF CreateBridge

\* delete_bridge: the SUTs behind the loop have no bridge.
LEMMA DeletesBridge ==
  ASSUME VSwitchInv, DeleteBridge
  PROVE  VSwitchInv'
<1>1. kw = "delete_bridge" /\ sut <= NSuts /\ ofp' \in [Suts -> BOOLEAN]
  BY DEF DeleteBridge, In, VSwitchInv, TypeOK
<1>2. CASE Succeeds(Ovs.br, NoBridge) /\ HasBridge /\ objs' = [objs EXCEPT ![sut] = Tail(@)] /\ NextSut
  <2>1. /\ ovs' = [ovs EXCEPT ![sut] = NoBridge] /\ faults' = faults /\ objs[sut] # <<>>
        /\ objs' = [objs EXCEPT ![sut] = Tail(objs[sut])]
        /\ sut' = sut + 1 /\ pos' = 1 /\ UNCHANGED <<kw, args, done, vni>>
    BY <1>2 DEF Succeeds, NextSut, GoOn, HasBridge
  <2>2. UplinkPending' /\ DeployProgress'
    BY <1>1, <2>1 DEF VSwitchInv, Progress, Reset, UplinkPending, DeployProgress
  <2>3. DeleteProgress'
    <3>1. ASSUME NEW s \in Suts, s < sut' PROVE ovs'[s] = NoBridge
      <4>1. s = sut \/ (s # sut /\ s < sut)
        BY <1>1, <2>1, <3>1, Here DEF Suts
      <4> QED
        BY <1>1, <2>1, <4>1, Here DEF VSwitchInv, Progress, DeleteProgress
    <3>2. done' = "none"
      BY <1>1, <2>1 DEF VSwitchInv, Progress, Reset
    <3> QED
      BY <3>1, <3>2 DEF DeleteProgress, DeletedEverywhere
  <2> QED
    BY <1>1, <2>1, <2>2, <2>3, Here, BridgeRemoved, Blank, GoesOn
<1>3. CASE Succeeds(Ovs.br, NoBridge) /\ ~HasBridge /\ UNCHANGED objs /\ Errs
  <2>1. /\ ovs[sut].br /\ ovs' = [ovs EXCEPT ![sut] = NoBridge] /\ faults' = faults /\ objs[sut] = <<>>
        /\ kw' = "idle" /\ UNCHANGED <<sut, pos, args, done, vni>>
    BY <1>3 DEF Succeeds, HasBridge, Errs, Ovs
  <2>2. objs' = [objs EXCEPT ![sut] = objs[sut]]
    BY <1>1, <1>3, Here
  <2>3. faults # 0
    BY <1>1, <2>1, Here DEF Agree
  <2> QED
    BY <1>1, <2>1, <2>2, <2>3, Here, BridgeMade, Blank, Aborted
<1>4. CASE Raises(Ovs.br, {NoBridge}) /\ UNCHANGED objs
  <2>1. PICK results : results = {NoBridge}
    OBVIOUS
  <2>2. results \subseteq OvsStates /\ \A r \in results : Sound(objs[sut], r)
    BY <1>1, <2>1, Here, BridgeMade, Blank
  <2>3. /\ \/ UNCHANGED <<ovs, faults>>
           \/ /\ faults < MaxFaults
              /\ faults' = faults + 1
              /\ UNCHANGED ovs \/ \E r \in results : ovs' = [ovs EXCEPT ![sut] = r]
        /\ kw' = "idle" /\ UNCHANGED <<sut, pos, args, done, vni>>
    BY <1>4, <2>1 DEF Raises
  <2> QED
    BY <1>1, <1>4, <2>2, <2>3, Interrupted
<1> QED
  BY <1>2, <1>3, <1>4 DEF DeleteBridge

-------------------------------------------------------------------------------
(* The uplink keywords. *)

\* create_uplink_bridge, its bridge: there is no uplink on it yet.
LEMMA CreatesUplinkBridge ==
  ASSUME VSwitchInv, CreateUplinkBridge
  PROVE  VSwitchInv'
<1>1. kw = "uplink_create" /\ sut <= NSuts /\ pos = 1 /\ ofp' \in [Suts -> BOOLEAN]
  BY DEF CreateUplinkBridge, In, VSwitchInv, TypeOK
<1>2. CASE BridgeCreated(NextPos)
  <2>1. /\ ~ovs[sut].br /\ ovs' = [ovs EXCEPT ![sut] = EmptyBridge] /\ faults' = faults
        /\ objs' = [objs EXCEPT ![sut] = Append(objs[sut], NewBridge)]
        /\ sut' = sut /\ pos' = pos + 1 /\ UNCHANGED <<kw, args, done, vni>>
    BY <1>2 DEF BridgeCreated, Succeeds, NextPos, GoOn, Ovs
  <2>2. objs'[sut] # <<>> /\ ovs'[sut].br /\ ~ovs'[sut].uplink
    BY <1>1, <2>1, Here, BridgeMade, Blank
  <2>3. UplinkPending' /\ DeleteProgress' /\ DeployProgress'
    BY <1>1, <2>1, <2>2 DEF VSwitchInv, Progress, Reset, UplinkPending, DeleteProgress,
                            DeletedEverywhere, DeployProgress
  <2> QED
    BY <1>1, <2>1, <2>3, Here, BridgeMade, Blank, GoesOn
<1>3. CASE Raises(~Ovs.br, {EmptyBridge}) /\ UNCHANGED objs
  <2>1. PICK results : results = {EmptyBridge}
    OBVIOUS
  <2>2. results \subseteq OvsStates /\ \A r \in results : Sound(objs[sut], r)
    BY <1>1, <2>1, Here, BridgeMade, Blank
  <2>3. /\ \/ UNCHANGED <<ovs, faults>>
           \/ /\ faults < MaxFaults
              /\ faults' = faults + 1
              /\ UNCHANGED ovs \/ \E r \in results : ovs' = [ovs EXCEPT ![sut] = r]
        /\ kw' = "idle" /\ UNCHANGED <<sut, pos, args, done, vni>>
    BY <1>3, <2>1 DEF Raises
  <2> QED
    BY <1>1, <1>3, <2>2, <2>3, Interrupted
<1> QED
  BY <1>2, <1>3 DEF CreateUplinkBridge

\* create_uplink_bridge, the addresses: Open vSwitch stays as it is.
LEMMA AddsTepAddress ==
  ASSUME VSwitchInv, AddTepAddress
  PROVE  VSwitchInv'
<1>1. kw = "uplink_create" /\ sut <= NSuts /\ pos = 2 /\ ofp' \in [Suts -> BOOLEAN] /\ objs' = objs
  BY DEF AddTepAddress, In, VSwitchInv, TypeOK
<1>2. objs' = [objs EXCEPT ![sut] = objs[sut]]
  BY <1>1, Here
<1>3. CASE Succeeds(TRUE, Ovs) /\ NextPos
  <2>1. /\ ovs' = [ovs EXCEPT ![sut] = ovs[sut]] /\ faults' = faults
        /\ sut' = sut /\ pos' = pos + 1 /\ UNCHANGED <<kw, args, done, vni>>
    BY <1>3 DEF Succeeds, NextPos, GoOn, Ovs
  <2>2. ovs'[sut] = ovs[sut]
    BY <1>1, <2>1, Here
  <2>3. objs[sut] # <<>> /\ ovs[sut].br /\ ~ovs[sut].uplink
    <3>1. pos # 1
      BY <1>1
    <3> QED
      BY <1>1, <3>1 DEF VSwitchInv, Progress, UplinkPending
  <2>4. UplinkPending' /\ DeleteProgress' /\ DeployProgress'
    BY <1>1, <2>1, <2>2, <2>3 DEF VSwitchInv, Progress, Reset, UplinkPending, DeleteProgress,
                                  DeletedEverywhere, DeployProgress
  <2> QED
    BY <1>1, <1>2, <2>1, <2>4, Here, GoesOn
<1>4. CASE Raises(TRUE, {Ovs})
  <2>1. PICK results : results = {ovs[sut]}
    OBVIOUS
  <2>2. results \subseteq OvsStates /\ \A r \in results : Sound(objs[sut], r)
    BY <1>1, <2>1, Here
  <2>3. /\ \/ UNCHANGED <<ovs, faults>>
           \/ /\ faults < MaxFaults
              /\ faults' = faults + 1
              /\ UNCHANGED ovs \/ \E r \in results : ovs' = [ovs EXCEPT ![sut] = r]
        /\ kw' = "idle" /\ UNCHANGED <<sut, pos, args, done, vni>>
    BY <1>4, <2>1 DEF Raises, Ovs
  <2> QED
    BY <1>1, <2>2, <2>3, Interrupted
<1> QED
  BY <1>3, <1>4 DEF AddTepAddress

\* The uplink in the object and in Open vSwitch.
LEMMA UplinkAdded ==
  ASSUME NEW o \in Seq(BridgeObjects), NEW v \in OvsStates, Sound(o, v), o # <<>>, v.br,
         NEW b, b = [o[1] EXCEPT !.uplinks = TRUE], NEW w, w = [v EXCEPT !.uplink = TRUE]
  PROVE  /\ <<b>> \o Tail(o) \in Seq(BridgeObjects) /\ w \in OvsStates
         /\ Sound(<<b>> \o Tail(o), w) /\ Sound(<<b>> \o Tail(o), v) /\ Sound(o, w)
         /\ Agree(o, v) => Agree(<<b>> \o Tail(o), w)
<1>1. o[1] \in BridgeObjects /\ 1 \in 1..Len(o)
  OBVIOUS
<1>2. /\ b \in BridgeObjects /\ b.ids = o[1].ids /\ b.tnl_ports = o[1].tnl_ports
      /\ b.with_md = o[1].with_md /\ b.uplinks = TRUE
  BY <1>1 DEF BridgeObjects
<1>3. /\ w \in OvsStates /\ w.tnl = v.tnl /\ w.br = v.br /\ w.tlv = v.tlv /\ w.uplink = TRUE
  BY DEF OvsStates
<1>4. /\ IsInjective(b.ids) /\ IsInjective(b.tnl_ports)
      /\ Range(b.ids) \cap Range(b.tnl_ports) = {} /\ Range(b.ids) \cap v.tnl = {}
  BY <1>1, <1>2 DEF Sound
<1>5. Sound(<<b>> \o Tail(o), v)
  BY <1>2, <1>4, FirstChanged
<1>6. Sound(<<b>> \o Tail(o), w) /\ Sound(o, w)
  BY <1>3, <1>5, OvsChanged
<1>7. ASSUME Agree(o, v) PROVE Agree(<<b>> \o Tail(o), w)
  <2>1. /\ w.br /\ Range(b.tnl_ports) = w.tnl /\ Len(b.tnl_ports) + Len(b.ids) = Len(TunnelIds)
        /\ b.uplinks = w.uplink /\ b.with_md = w.tlv
    BY <1>2, <1>3, <1>7 DEF Agree
  <2> QED
    BY <1>2, <1>7, <2>1, FirstAgrees
<1>8. <<b>> \o Tail(o) \in Seq(BridgeObjects)
  BY <1>2, <1>4, FirstChanged
<1> QED
  BY <1>3, <1>5, <1>6, <1>7, <1>8

\* create_uplink_bridge, the uplink or the bond: with a bond the object may be ahead of the
\* command, but then the command has failed by itself.
LEMMA AddsUplink ==
  ASSUME VSwitchInv, NEW bond \in BOOLEAN, AddUplink(bond)
  PROVE  VSwitchInv'
<1>1. kw = "uplink_create" /\ sut <= NSuts /\ pos = 3
  BY DEF AddUplink, In
<1>2. ofp' \in [Suts -> BOOLEAN]
  BY DEF AddUplink, VSwitchInv, TypeOK
<1>3. objs[sut] # <<>> /\ ovs[sut].br /\ ~ovs[sut].uplink
  <2>1. pos # 1
    BY <1>1
  <2> QED
    BY <1>1, <2>1 DEF VSwitchInv, Progress, UplinkPending
<1>4. PICK b : b = [objs[sut][1] EXCEPT !.uplinks = TRUE]
  OBVIOUS
<1>5. PICK w : w = [ovs[sut] EXCEPT !.uplink = TRUE]
  OBVIOUS
<1>6. PICK o : o = <<b>> \o Tail(objs[sut])
  OBVIOUS
<1>7. /\ o \in Seq(BridgeObjects) /\ w \in OvsStates
      /\ Sound(o, w) /\ Sound(o, ovs[sut]) /\ Sound(objs[sut], w)
      /\ Agree(objs[sut], ovs[sut]) => Agree(o, w)
  BY <1>1, <1>3, <1>4, <1>5, <1>6, Here, UplinkAdded
<1>8. \/ /\ ovs' = [ovs EXCEPT ![sut] = w] /\ faults' = faults
         /\ objs' = [objs EXCEPT ![sut] = o]
         /\ sut' = sut + 1 /\ pos' = 1 /\ UNCHANGED <<kw, args, done, vni>>
      \/ /\ faults < MaxFaults /\ faults' = faults + 1
         /\ UNCHANGED ovs \/ ovs' = [ovs EXCEPT ![sut] = w]
         /\ objs' = [objs EXCEPT ![sut] = o] \/ UNCHANGED objs
         /\ kw' = "idle" /\ UNCHANGED <<sut, pos, args, done, vni>>
  BY <1>3, <1>4, <1>5, <1>6 DEF AddUplink, Succeeds, Raises, SetBr, Br, Ovs, NextSut, GoOn
<1>9. CASE /\ ovs' = [ovs EXCEPT ![sut] = w] /\ faults' = faults
           /\ objs' = [objs EXCEPT ![sut] = o]
           /\ sut' = sut + 1 /\ pos' = 1 /\ UNCHANGED <<kw, args, done, vni>>
  <2>1. UplinkPending' /\ DeleteProgress' /\ DeployProgress'
    BY <1>1, <1>9 DEF VSwitchInv, Progress, Reset, UplinkPending, DeleteProgress,
                      DeletedEverywhere, DeployProgress
  <2> QED
    BY <1>1, <1>2, <1>7, <1>9, <2>1, Here, GoesOn
<1>10. CASE /\ faults < MaxFaults /\ faults' = faults + 1
            /\ UNCHANGED ovs \/ ovs' = [ovs EXCEPT ![sut] = w]
            /\ objs' = [objs EXCEPT ![sut] = o] \/ UNCHANGED objs
            /\ kw' = "idle" /\ UNCHANGED <<sut, pos, args, done, vni>>
  <2>1. faults' # 0
    BY <1>1, <1>10, Here
  <2>2. PICK v \in {ovs[sut], w} : ovs' = [ovs EXCEPT ![sut] = v]
    <3>1. ovs = [ovs EXCEPT ![sut] = ovs[sut]]
      BY <1>1, Here
    <3> QED
      BY <1>10, <3>1
  <2>3. PICK p \in {objs[sut], o} : objs' = [objs EXCEPT ![sut] = p]
    <3>1. objs = [objs EXCEPT ![sut] = objs[sut]]
      BY <1>1, Here
    <3> QED
      BY <1>10, <3>1
  <2>4. v \in OvsStates /\ p \in Seq(BridgeObjects) /\ Sound(p, v)
    BY <1>1, <1>7, Here
  <2> QED
    BY <1>1, <1>2, <1>10, <2>1, <2>2, <2>3, <2>4, Aborted
<1> QED
  BY <1>8, <1>9, <1>10

\* delete_uplink_bridge.
LEMMA DeletesUplinkBridge ==
  ASSUME VSwitchInv, DeleteUplinkBridge
  PROVE  VSwitchInv'
<1>1. kw = "uplink_delete" /\ sut <= NSuts /\ objs[sut] # <<>>
  BY DEF DeleteUplinkBridge, In, HasBridge
<1>2. ofp' \in [Suts -> BOOLEAN]
  <2>1. ofp \in [Suts -> BOOLEAN] /\ (ofp[sut] /\ ~Br.uplinks) \in BOOLEAN
    BY DEF VSwitchInv, TypeOK
  <2>2. ofp' = [ofp EXCEPT ![sut] = ofp[sut] /\ ~Br.uplinks]
    BY DEF DeleteUplinkBridge
  <2> QED
    BY <2>1, <2>2
<1>3. CASE Succeeds(Ovs.br, NoBridge) /\ objs' = [objs EXCEPT ![sut] = Tail(@)] /\ NextSut
  <2>1. /\ ovs' = [ovs EXCEPT ![sut] = NoBridge] /\ faults' = faults
        /\ objs' = [objs EXCEPT ![sut] = Tail(objs[sut])]
        /\ sut' = sut + 1 /\ pos' = 1 /\ UNCHANGED <<kw, args, done, vni>>
    BY <1>3 DEF Succeeds, NextSut, GoOn
  <2>2. UplinkPending' /\ DeleteProgress' /\ DeployProgress'
    BY <1>1, <2>1, Untracked DEF Tracked
  <2> QED
    BY <1>1, <1>2, <2>1, <2>2, Here, BridgeRemoved, Blank, GoesOn
<1>4. CASE Raises(Ovs.br, {NoBridge}) /\ UNCHANGED objs
  <2>1. PICK results : results = {NoBridge}
    OBVIOUS
  <2>2. results \subseteq OvsStates /\ \A r \in results : Sound(objs[sut], r)
    BY <1>1, <2>1, Here, BridgeMade, Blank
  <2>3. /\ \/ UNCHANGED <<ovs, faults>>
           \/ /\ faults < MaxFaults
              /\ faults' = faults + 1
              /\ UNCHANGED ovs \/ \E r \in results : ovs' = [ovs EXCEPT ![sut] = r]
        /\ kw' = "idle" /\ UNCHANGED <<sut, pos, args, done, vni>>
    BY <1>4, <2>1 DEF Raises
  <2> QED
    BY <1>1, <1>2, <1>4, <2>2, <2>3, Interrupted
<1> QED
  BY <1>3, <1>4 DEF DeleteUplinkBridge

\* AttributeError or IndexError before any command.
LEMMA NoBridgeToUse ==
  ASSUME VSwitchInv, WithoutBridge \/ NoTunnelId
  PROVE  VSwitchInv'
  BY AbortedUntouched DEF WithoutBridge, NoTunnelId, In

-------------------------------------------------------------------------------
(* The VIF keywords. *)

\* A change of a bridge object that leaves its ids alone.
LEMMA Noted ==
  ASSUME NEW o \in Seq(BridgeObjects), NEW v \in OvsStates, Sound(o, v), o # <<>>,
         NEW b \in BridgeObjects, b.ids = o[1].ids, b.tnl_ports = o[1].tnl_ports,
         NEW w \in OvsStates, w.tnl = v.tnl
  PROVE  /\ <<b>> \o Tail(o) \in Seq(BridgeObjects) /\ <<b>> \o Tail(o) # <<>>
         /\ (<<b>> \o Tail(o))[1] = b /\ Sound(<<b>> \o Tail(o), w)
<1>1. 1 \in 1..Len(o)
  OBVIOUS
<1>2. /\ IsInjective(b.ids) /\ IsInjective(b.tnl_ports)
      /\ Range(b.ids) \cap Range(b.tnl_ports) = {} /\ Range(b.ids) \cap w.tnl = {}
  BY <1>1 DEF Sound
<1> QED
  BY <1>2, FirstChanged

\* add_vif_ports: the VIFs are no part of what objects and Open vSwitch must agree on.
LEMMA AddsVif ==
  ASSUME VSwitchInv, AddVif
  PROVE  VSwitchInv'
<1>1. kw = "add_vifs" /\ sut <= NSuts /\ pos <= NVifs /\ ofp' \in [Suts -> BOOLEAN]
  BY DEF AddVif, In, VSwitchInv, TypeOK
<1>2. PICK w : w = [ovs[sut] EXCEPT !.vifs = @ \cup {pos}]
  OBVIOUS
<1>3. pos \in Vifs
  BY <1>1, Here, VSwitchAssumption DEF Vifs
<1>4. /\ w \in OvsStates /\ w.tnl = ovs[sut].tnl /\ w.br = ovs[sut].br
      /\ w.uplink = ovs[sut].uplink /\ w.tlv = ovs[sut].tlv
  BY <1>1, <1>2, <1>3, Here DEF OvsStates
<1>5. Sound(objs[sut], w)
  BY <1>1, <1>4, Here, OvsChanged
<1>6. CASE /\ Succeeds(Ovs.br /\ pos \notin Ovs.vifs, w) /\ HasBridge
           /\ SetBr([Br EXCEPT !.vifs = @ \cup {pos}]) /\ NextPos
  <2>1. PICK b : b = [objs[sut][1] EXCEPT !.vifs = @ \cup {pos}]
    OBVIOUS
  <2>2. PICK o : o = <<b>> \o Tail(objs[sut])
    OBVIOUS
  <2>3. /\ ovs[sut].br /\ ovs' = [ovs EXCEPT ![sut] = w] /\ faults' = faults /\ objs[sut] # <<>>
        /\ objs' = [objs EXCEPT ![sut] = o]
        /\ sut' = sut /\ pos' = pos + 1 /\ UNCHANGED <<kw, args, done, vni>>
    BY <1>6, <2>1, <2>2 DEF Succeeds, HasBridge, SetBr, Br, Ovs, NextPos, GoOn
  <2>4. objs[sut][1] \in BridgeObjects
    BY <1>1, <2>3, Here
  <2>5. /\ b \in BridgeObjects /\ b.ids = objs[sut][1].ids /\ b.tnl_ports = objs[sut][1].tnl_ports
        /\ b.uplinks = objs[sut][1].uplinks /\ b.with_md = objs[sut][1].with_md
    BY <1>3, <2>1, <2>4 DEF BridgeObjects
  <2>6. o \in Seq(BridgeObjects) /\ Sound(o, w)
    BY <1>1, <1>4, <2>2, <2>3, <2>5, Here, Noted
  <2>7. ASSUME faults = 0 PROVE Agree(o, w)
    <3>1. Agree(objs[sut], ovs[sut])
      BY <1>1, <2>7, Here
    <3>2. /\ w.br /\ Range(b.tnl_ports) = w.tnl /\ Len(b.tnl_ports) + Len(b.ids) = Len(TunnelIds)
          /\ b.uplinks = w.uplink /\ b.with_md = w.tlv
      BY <1>4, <2>3, <2>5, <3>1 DEF Agree
    <3> QED
      BY <1>1, <2>2, <2>3, <2>5, <3>1, <3>2, Here, FirstAgrees
  <2>8. UplinkPending' /\ DeleteProgress' /\ DeployProgress'
    BY <1>1, <2>3, Untracked DEF Tracked
  <2> QED
    BY <1>1, <1>4, <2>3, <2>6, <2>7, <2>8, GoesOn
<1>7. CASE /\ Succeeds(Ovs.br /\ pos \notin Ovs.vifs, w) /\ ~HasBridge
           /\ UNCHANGED objs /\ Errs
  <2>1. /\ ovs[sut].br /\ ovs' = [ovs EXCEPT ![sut] = w] /\ faults' = faults /\ objs[sut] = <<>>
        /\ kw' = "idle" /\ UNCHANGED <<sut, pos, args, done, vni>>
    BY <1>7 DEF Succeeds, HasBridge, Errs, Ovs
  <2>2. objs' = [objs EXCEPT ![sut] = objs[sut]]
    BY <1>1, <1>7, Here
  <2>3. faults # 0
    BY <1>1, <2>1, Here DEF Agree
  <2> QED
    BY <1>1, <1>4, <1>5, <2>1, <2>2, <2>3, Here, Aborted
<1>8. CASE Raises(Ovs.br /\ pos \notin Ovs.vifs, {w}) /\ UNCHANGED objs
  <2>1. PICK results : results = {w}
    OBVIOUS
  <2>2. results \subseteq OvsStates /\ \A r \in results : Sound(objs[sut], r)
    BY <1>4, <1>5, <2>1
  <2>3. /\ \/ UNCHANGED <<ovs, faults>>
           \/ /\ faults < MaxFaults
              /\ faults' = faults + 1
              /\ UNCHANGED ovs \/ \E r \in results : ovs' = [ovs EXCEPT ![sut] = r]
        /\ kw' = "idle" /\ UNCHANGED <<sut, pos, args, done, vni>>
    BY <1>8, <2>1 DEF Raises, Ovs
  <2> QED
    BY <1>1, <1>8, <2>2, <2>3, Interrupted
<1> QED
  BY <1>2, <1>6, <1>7, <1>8 DEF AddVif, Ovs

\* A command that changes neither the objects nor what they mirror: the VIFs, the flows.
LEMMA OvsOnly ==
  ASSUME VSwitchInv, sut <= NSuts, NEW w \in OvsStates,
         w.tnl = ovs[sut].tnl, w.br = ovs[sut].br, w.uplink = ovs[sut].uplink, w.tlv = ovs[sut].tlv
  PROVE  Sound(objs[sut], w) /\ (faults = 0 => Agree(objs[sut], w))
  BY Here, OvsChanged

\* delete_vif_ports.
LEMMA DeletesVif ==
  ASSUME VSwitchInv, DeleteVif
  PROVE  VSwitchInv'
<1>1. /\ kw = "delete_vifs" /\ sut <= NSuts /\ ofp' \in [Suts -> BOOLEAN] /\ UNCHANGED objs
  BY DEF DeleteVif, In, VSwitchInv, TypeOK
<1>2. PICK w : w = [ovs[sut] EXCEPT !.vifs = @ \ {pos}]
  OBVIOUS
<1>3. /\ w \in OvsStates /\ w.tnl = ovs[sut].tnl /\ w.br = ovs[sut].br
      /\ w.uplink = ovs[sut].uplink /\ w.tlv = ovs[sut].tlv
  BY <1>1, <1>2, Here DEF OvsStates
<1>4. Sound(objs[sut], w) /\ (faults = 0 => Agree(objs[sut], w))
  BY <1>1, <1>3, OvsOnly
<1>5. CASE Succeeds(Ovs.br /\ pos \in Ovs.vifs, w) /\ NextPos
  <2>1. /\ ovs' = [ovs EXCEPT ![sut] = w] /\ faults' = faults
        /\ sut' = sut /\ pos' = pos + 1 /\ UNCHANGED <<kw, args, done, vni>>
    BY <1>5 DEF Succeeds, NextPos, GoOn
  <2>2. objs' = [objs EXCEPT ![sut] = objs[sut]]
    BY <1>1, Here
  <2>3. UplinkPending' /\ DeleteProgress' /\ DeployProgress'
    BY <1>1, <2>1, Untracked DEF Tracked
  <2> QED
    BY <1>1, <1>3, <1>4, <2>1, <2>2, <2>3, Here, GoesOn
<1>6. CASE Raises(Ovs.br /\ pos \in Ovs.vifs, {w})
  <2>1. PICK results : results = {w}
    OBVIOUS
  <2>2. results \subseteq OvsStates /\ \A r \in results : Sound(objs[sut], r)
    BY <1>3, <1>4, <2>1
  <2>3. /\ \/ UNCHANGED <<ovs, faults>>
           \/ /\ faults < MaxFaults
              /\ faults' = faults + 1
              /\ UNCHANGED ovs \/ \E r \in results : ovs' = [ovs EXCEPT ![sut] = r]
        /\ kw' = "idle" /\ UNCHANGED <<sut, pos, args, done, vni>>
    BY <1>6, <2>1 DEF Raises, Ovs
  <2> QED
    BY <1>1, <1>6, <2>2, <2>3, Interrupted
<1> QED
  BY <1>2, <1>5, <1>6 DEF DeleteVif, Ovs

\* A loop over the VIFs or the tunnel ports of a SUT that nothing depends on is over.
LEMMA InnerLoopEnds ==
  ASSUME VSwitchInv, VifsDone \/ TunnelPortsDeleted
  PROVE  VSwitchInv'
<1>1. /\ kw \in {"add_vifs", "delete_vifs", "tnl_delete"} /\ sut <= NSuts
      /\ sut' = sut + 1 /\ pos' = 1 /\ UNCHANGED <<kw, args, done, vni>>
      /\ UNCHANGED <<objs, ovs, ofp, faults>>
  BY DEF VifsDone, TunnelPortsDeleted, In, NextSut, GoOn
<1>2. objs' = [objs EXCEPT ![sut] = objs[sut]] /\ ovs' = [ovs EXCEPT ![sut] = ovs[sut]]
  BY <1>1, Here
<1>3. UplinkPending' /\ DeleteProgress' /\ DeployProgress'
  BY <1>1, Untracked DEF Tracked
<1>4. ofp' \in [Suts -> BOOLEAN]
  BY <1>1 DEF VSwitchInv, TypeOK
<1> QED
  BY <1>1, <1>2, <1>3, <1>4, Here, GoesOn

-------------------------------------------------------------------------------
(* deploy_vni_as_tunnel_overlay. *)

\* The id that create_tunnel_port takes, the Bridge object once it is taken and once
\* the port is listed, and Open vSwitch once it has the port.
PortTaken(o, v, id, g, b, w) ==
  /\ o \in Seq(BridgeObjects) /\ v \in OvsStates /\ Sound(o, v)
  /\ o # <<>> /\ o[1].ids # <<>> /\ id = Head(o[1].ids)
  /\ g \in BridgeObjects /\ g.ids = Tail(o[1].ids) /\ g.tnl_ports = o[1].tnl_ports
  /\ b \in BridgeObjects /\ b.ids = Tail(o[1].ids)
  /\ b.tnl_ports = Append(o[1].tnl_ports, id)
  /\ b.uplinks = o[1].uplinks /\ b.with_md = o[1].with_md
  /\ w \in OvsStates /\ w.br = v.br /\ w.tnl = v.tnl \cup {id}
  /\ w.uplink = v.uplink /\ w.tlv = v.tlv

\* The id was in no port before, so it may be listed and present: nothing else is free
\* and in use at once, and there is one port more that is both.
LEMMA TunnelAdded ==
  ASSUME NEW o, NEW v, NEW id, NEW g, NEW b, NEW w, PortTaken(o, v, id, g, b, w)
  PROVE  /\ id \notin v.tnl
         /\ <<g>> \o Tail(o) \in Seq(BridgeObjects)
         /\ Sound(<<g>> \o Tail(o), v) /\ Sound(<<g>> \o Tail(o), w)
         /\ <<b>> \o Tail(o) \in Seq(BridgeObjects) /\ Sound(<<b>> \o Tail(o), w)
         /\ <<b>> \o Tail(o) # <<>> /\ (<<b>> \o Tail(o))[1] = b
         /\ v.br /\ Agree(o, v) => Agree(<<b>> \o Tail(o), w)
         /\ Range(b.tnl_ports) \cap w.tnl = (Range(o[1].tnl_ports) \cap v.tnl) \cup {id}
         /\ id \notin Range(o[1].tnl_ports)
<1> USE DEF PortTaken
<1>1. o[1] \in BridgeObjects /\ 1 \in 1..Len(o)
  OBVIOUS
<1>2. o[1].ids \in Seq(Ids) /\ o[1].tnl_ports \in Seq(Ids)
  BY <1>1 DEF BridgeObjects
<1>3. /\ IsInjective(o[1].ids) /\ IsInjective(o[1].tnl_ports)
      /\ Range(o[1].ids) \cap Range(o[1].tnl_ports) = {} /\ Range(o[1].ids) \cap v.tnl = {}
  BY <1>1 DEF Sound
<1>4. /\ id \in Ids /\ id \in Range(o[1].ids) /\ IsInjective(b.ids)
      /\ Len(b.ids) = Len(o[1].ids) - 1 /\ Range(b.ids) = Range(o[1].ids) \ {id}
  BY <1>2, <1>3, TakeId
<1>5. id \notin Range(o[1].tnl_ports) /\ id \notin v.tnl
  BY <1>3, <1>4
<1>6. /\ IsInjective(b.tnl_ports) /\ Len(b.tnl_ports) = Len(o[1].tnl_ports) + 1
      /\ Range(b.tnl_ports) = Range(o[1].tnl_ports) \cup {id}
  BY <1>2, <1>3, <1>4, <1>5, AddId
<1>7. /\ Range(b.ids) \cap Range(o[1].tnl_ports) = {} /\ Range(b.ids) \cap v.tnl = {}
      /\ Range(b.ids) \cap w.tnl = {} /\ Range(b.ids) \cap Range(b.tnl_ports) = {}
  BY <1>3, <1>4, <1>6
<1>8. g.ids = b.ids
  OBVIOUS
<1>9. /\ <<g>> \o Tail(o) \in Seq(BridgeObjects)
      /\ Sound(<<g>> \o Tail(o), v) /\ Sound(<<g>> \o Tail(o), w)
  BY <1>3, <1>4, <1>7, <1>8, FirstChanged
<1>10. /\ <<b>> \o Tail(o) \in Seq(BridgeObjects) /\ Sound(<<b>> \o Tail(o), w)
       /\ <<b>> \o Tail(o) # <<>> /\ (<<b>> \o Tail(o))[1] = b
  <2>1. /\ o \in Seq(BridgeObjects) /\ v \in OvsStates /\ Sound(o, v) /\ o # <<>>
        /\ b \in BridgeObjects /\ w \in OvsStates
    OBVIOUS
  <2> HIDE DEF PortTaken
  <2> QED
    BY <1>4, <1>6, <1>7, <2>1, FirstChanged
<1>11. ASSUME v.br, Agree(o, v) PROVE Agree(<<b>> \o Tail(o), w)
  <2>1. /\ Range(o[1].tnl_ports) = v.tnl /\ o[1].uplinks = v.uplink /\ o[1].with_md = v.tlv
        /\ Len(o[1].tnl_ports) + Len(o[1].ids) = Len(TunnelIds)
    BY <1>11 DEF Agree
  <2>2. Len(o[1].tnl_ports) \in Nat /\ Len(o[1].ids) \in Nat
    BY <1>2
  <2>3. \A m, n \in Nat : (m + 1) + (n - 1) = m + n
    OBVIOUS
  <2>4. Len(b.tnl_ports) + Len(b.ids) = Len(TunnelIds)
    <3> HIDE DEF PortTaken
    <3>1. PICK m \in Nat, n \in Nat : m = Len(o[1].tnl_ports) /\ n = Len(o[1].ids)
      BY <2>2
    <3>2. Len(b.tnl_ports) = m + 1 /\ Len(b.ids) = n - 1 /\ m + n = Len(TunnelIds)
      BY <1>4, <1>6, <2>1, <3>1
    <3> QED
      BY <2>3, <3>2
  <2>5. w.br /\ Range(b.tnl_ports) = w.tnl /\ b.uplinks = w.uplink /\ b.with_md = w.tlv
    BY <1>6, <1>11, <2>1
  <2> QED
    BY <1>11, <2>4, <2>5, FirstAgrees
<1>12. Range(b.tnl_ports) \cap w.tnl = (Range(o[1].tnl_ports) \cap v.tnl) \cup {id}
  BY <1>6
<1> QED
  BY <1>5, <1>9, <1>10, <1>11, <1>12

\* The number of ports of a deployment is a number.
LEMMA PortCount ==
  ASSUME TypeOK
  PROVE  PortsPerSut \in Nat
  BY VSwitchAssumption DEF TypeOK, PortsPerSut

\* Ports that are both listed and present can be counted.
LEMMA Countable ==
  ASSUME NEW o \in Seq(BridgeObjects), NEW v \in OvsStates
  PROVE  /\ IsFiniteSet(Range(o[1].tnl_ports) \cap v.tnl)
         /\ Cardinality(Range(o[1].tnl_ports) \cap v.tnl) \in Nat
<1>1. v.tnl \in SUBSET Ids
  BY DEF OvsStates
<1>2. Range(o[1].tnl_ports) \cap v.tnl \in SUBSET Ids
  BY <1>1
<1> QED
  BY <1>2, Blank, FS_Subset, FS_CardinalityType

\* create_tunnel_port: one port more on this SUT, or an id lost to a failed command.
LEMMA CreatesTunnelPort ==
  ASSUME VSwitchInv, CreateTunnelPort
  PROVE  VSwitchInv'
<1>1. /\ kw = "tnl_ports" /\ sut <= NSuts /\ objs[sut] # <<>> /\ objs[sut][1].ids # <<>>
      /\ ofp' \in [Suts -> BOOLEAN]
  BY DEF CreateTunnelPort, In, HasBridge, Br, VSwitchInv, TypeOK
<1>2. PICK id, g, b, w :
        /\ id = Head(objs[sut][1].ids)
        /\ g = [objs[sut][1] EXCEPT !.ids = Tail(@)]
        /\ b = [g EXCEPT !.tnl_ports = Append(@, id)]
        /\ w = [ovs[sut] EXCEPT !.tnl = @ \cup {id}]
  OBVIOUS
<1>3. PICK og, ob : og = <<g>> \o Tail(objs[sut]) /\ ob = <<b>> \o Tail(objs[sut])
  OBVIOUS
<1>4. /\ id \notin ovs[sut].tnl /\ w \in OvsStates
      /\ og \in Seq(BridgeObjects) /\ Sound(og, ovs[sut]) /\ Sound(og, w)
      /\ ob \in Seq(BridgeObjects) /\ Sound(ob, w) /\ ob # <<>> /\ ob[1] = b
      /\ ovs[sut].br /\ Agree(objs[sut], ovs[sut]) => Agree(ob, w)
      /\ Range(b.tnl_ports) \cap w.tnl = (Range(objs[sut][1].tnl_ports) \cap ovs[sut].tnl) \cup {id}
      /\ id \notin Range(objs[sut][1].tnl_ports)
  <2>1. PICK o \in Seq(BridgeObjects), v \in OvsStates : o = objs[sut] /\ v = ovs[sut]
    BY <1>1, Here
  <2>2. Sound(o, v) /\ o # <<>> /\ o[1].ids # <<>>
    BY <1>1, <2>1, Here
  <2>3. /\ o[1] \in BridgeObjects /\ IsInjective(o[1].ids) /\ o[1].ids \in Seq(Ids)
        /\ o[1].tnl_ports \in Seq(Ids)
    <3>1. o[1] \in BridgeObjects /\ 1 \in 1..Len(o)
      BY <2>1, <2>2
    <3>2. IsInjective(o[1].ids)
      BY <2>2, <3>1 DEF Sound
    <3> QED
      BY <3>1, <3>2 DEF BridgeObjects
  <2>4. id = Head(o[1].ids) /\ id \in Ids /\ Tail(o[1].ids) \in Seq(Ids)
    BY <1>2, <2>1, <2>2, <2>3, TakeId
  <2>5. Append(o[1].tnl_ports, id) \in Seq(Ids)
    BY <2>3, <2>4
  <2>6. /\ g \in BridgeObjects /\ g.ids = Tail(o[1].ids) /\ g.tnl_ports = o[1].tnl_ports
        /\ g.uplinks = o[1].uplinks /\ g.with_md = o[1].with_md
    BY <1>2, <2>1, <2>3, <2>4 DEF BridgeObjects
  <2>7. /\ b \in BridgeObjects /\ b.ids = Tail(o[1].ids)
        /\ b.tnl_ports = Append(o[1].tnl_ports, id)
        /\ b.uplinks = o[1].uplinks /\ b.with_md = o[1].with_md
    BY <1>2, <2>5, <2>6 DEF BridgeObjects
  <2>8. /\ w \in OvsStates /\ w.br = v.br /\ w.tnl = v.tnl \cup {id}
        /\ w.uplink = v.uplink /\ w.tlv = v.tlv
    BY <1>2, <2>1, <2>4 DEF OvsStates
  <2>9. /\ id \notin v.tnl
        /\ <<g>> \o Tail(o) \in Seq(BridgeObjects)
        /\ Sound(<<g>> \o Tail(o), v) /\ Sound(<<g>> \o Tail(o), w)
        /\ <<b>> \o Tail(o) \in Seq(BridgeObjects) /\ Sound(<<b>> \o Tail(o), w)
        /\ <<b>> \o Tail(o) # <<>> /\ (<<b>> \o Tail(o))[1] = b
        /\ v.br /\ Agree(o, v) => Agree(<<b>> \o Tail(o), w)
        /\ Range(b.tnl_ports) \cap w.tnl = (Range(o[1].tnl_ports) \cap v.tnl) \cup {id}
        /\ id \notin Range(o[1].tnl_ports)
    <3>1. PortTaken(o, v, id, g, b, w)
      BY <2>1, <2>2, <2>4, <2>6, <2>7, <2>8 DEF PortTaken
    <3> QED
      BY <3>1, TunnelAdded
  <2> QED
    BY <1>3, <2>1, <2>8, <2>9
<1>5. \/ /\ ovs[sut].br /\ ovs' = [ovs EXCEPT ![sut] = w] /\ faults' = faults
         /\ objs' = [objs EXCEPT ![sut] = ob]
         /\ sut' = sut /\ pos' = pos + 1 /\ UNCHANGED <<kw, args, done, vni>>
      \/ /\ \/ ~(ovs[sut].br /\ id \notin ovs[sut].tnl) /\ UNCHANGED <<ovs, faults>>
            \/ /\ faults < MaxFaults /\ faults' = faults + 1
               /\ UNCHANGED ovs \/ ovs' = [ovs EXCEPT ![sut] = w]
         /\ objs' = [objs EXCEPT ![sut] = og]
         /\ kw' = "idle" /\ UNCHANGED <<sut, pos, args, done, vni>>
  BY <1>2, <1>3 DEF CreateTunnelPort, Succeeds, Raises, SetBr, Br, Ovs, NextPos, GoOn
<1>6. CASE /\ ovs[sut].br /\ ovs' = [ovs EXCEPT ![sut] = w] /\ faults' = faults
           /\ objs' = [objs EXCEPT ![sut] = ob]
           /\ sut' = sut /\ pos' = pos + 1 /\ UNCHANGED <<kw, args, done, vni>>
  <2>1. faults = 0 => Agree(ob, w)
    BY <1>1, <1>4, <1>6, Here
  <2>2. UplinkPending' /\ DeleteProgress'
    BY <1>1, <1>6 DEF VSwitchInv, Progress, Reset, UplinkPending, DeleteProgress, DeletedEverywhere
  <2>3. DeployProgress'
    <3>1. objs'[sut] = ob /\ ovs'[sut] = w
      BY <1>1, <1>6, Here
    <3>2. PICK S : S = Range(objs[sut][1].tnl_ports) \cap ovs[sut].tnl
      OBVIOUS
    <3>3. IsFiniteSet(S) /\ Cardinality(S) \in Nat /\ id \notin S
      BY <1>1, <1>4, <3>2, Here, Countable
    <3>4. Cardinality(S \cup {id}) = Cardinality(S) + 1
      BY <3>3, FS_AddElement
    <3>5. Cardinality(S) >= pos - 1
      <4>1. CASE pos = 1
        BY <3>3, <4>1
      <4>2. CASE pos # 1
        BY <1>1, <3>2, <4>2 DEF VSwitchInv, Progress, DeployProgress, Tunnelled
      <4> QED
        BY <4>1, <4>2
    <3>6. pos \in Nat /\ pos \in Nat \ {0}
      BY <1>1, Here
    <3>7. Cardinality(S \cup {id}) >= pos' - 1 /\ pos' # 1
      BY <1>6, <3>3, <3>4, <3>5, <3>6
    <3>8. Tunnelled(sut, pos - 1)'
      BY <1>4, <1>6, <3>1, <3>2, <3>7 DEF Tunnelled
    <3>9. ASSUME NEW s \in Suts, s < sut' PROVE Tunnelled(s, PortsPerSut)'
      <4>1. s # sut
        BY <1>1, <1>6, <3>9, Here DEF Suts
      <4>2. Tunnelled(s, PortsPerSut)
        BY <1>1, <1>6, <3>9 DEF VSwitchInv, Progress, DeployProgress
      <4>3. objs'[s] = objs[s] /\ ovs'[s] = ovs[s] /\ PortsPerSut' = PortsPerSut
        BY <1>1, <1>6, <4>1, Here DEF PortsPerSut
      <4> QED
        BY <4>2, <4>3 DEF Tunnelled
    <3>10. done' = "none"
      BY <1>1, <1>6 DEF VSwitchInv, Progress, Reset
    <3> QED
      BY <1>1, <1>6, <3>8, <3>9, <3>10 DEF DeployProgress
  <2> QED
    BY <1>1, <1>4, <1>6, <2>1, <2>2, <2>3, GoesOn
<1>7. CASE /\ \/ ~(ovs[sut].br /\ id \notin ovs[sut].tnl) /\ UNCHANGED <<ovs, faults>>
              \/ /\ faults < MaxFaults /\ faults' = faults + 1
                 /\ UNCHANGED ovs \/ ovs' = [ovs EXCEPT ![sut] = w]
           /\ objs' = [objs EXCEPT ![sut] = og]
           /\ kw' = "idle" /\ UNCHANGED <<sut, pos, args, done, vni>>
  <2>1. faults' # 0
    <3>1. CASE faults < MaxFaults /\ faults' = faults + 1
      BY <1>1, <3>1, Here
    <3>2. CASE ~(ovs[sut].br /\ id \notin ovs[sut].tnl) /\ faults' = faults
      BY <1>1, <1>4, <3>2, Here DEF Agree
    <3> QED
      BY <1>7, <3>1, <3>2
  <2>2. PICK v \in {ovs[sut], w} : ovs' = [ovs EXCEPT ![sut] = v]
    <3>1. ovs = [ovs EXCEPT ![sut] = ovs[sut]]
      BY <1>1, Here
    <3> QED
      BY <1>7, <3>1
  <2>3. v \in OvsStates /\ Sound(og, v)
    BY <1>1, <1>4, Here
  <2> QED
    BY <1>1, <1>4, <1>7, <2>1, <2>2, <2>3, Aborted
<1> QED
  BY <1>5, <1>6, <1>7

\* The ports of a SUT are made.
LEMMA EndsTunnelPorts ==
  ASSUME VSwitchInv, TunnelPortsDone
  PROVE  VSwitchInv'
<1>1. /\ kw = "tnl_ports" /\ sut <= NSuts /\ objs[sut] # <<>> /\ pos > PortsPerSut
      /\ sut' = sut + 1 /\ pos' = 1 /\ UNCHANGED <<kw, args, done, vni>>
      /\ UNCHANGED <<objs, ovs, ofp, faults>>
  BY DEF TunnelPortsDone, In, HasBridge, NextSut, GoOn
<1>2. objs' = [objs EXCEPT ![sut] = objs[sut]] /\ ovs' = [ovs EXCEPT ![sut] = ovs[sut]]
  BY <1>1, Here
<1>3. UplinkPending' /\ DeleteProgress'
  BY <1>1 DEF VSwitchInv, Progress, Reset, UplinkPending, DeleteProgress, DeletedEverywhere
<1>4. Tunnelled(sut, PortsPerSut)
  <2>1. PICK c \in Nat : c = Cardinality(Range(objs[sut][1].tnl_ports) \cap ovs[sut].tnl)
    BY <1>1, Here, Countable
  <2>2. PICK k \in Nat : k = PortsPerSut
    BY PortCount DEF VSwitchInv
  <2>3. pos \in Nat \ {0} /\ pos > k
    BY <1>1, <2>2, Here
  <2>4. c >= pos - 1
    <3>1. CASE pos = 1
      BY <3>1
    <3>2. CASE pos # 1
      BY <1>1, <2>1, <3>2 DEF VSwitchInv, Progress, DeployProgress, Tunnelled
    <3> QED
      BY <3>1, <3>2
  <2>5. c >= k
    BY <2>3, <2>4
  <2> QED
    BY <1>1, <2>1, <2>2, <2>5 DEF Tunnelled
<1>5. DeployProgress'
  <2>1. ASSUME NEW s \in Suts, s < sut' PROVE Tunnelled(s, PortsPerSut)'
    <3>1. s = sut \/ s < sut
      BY <1>1, <2>1, Here DEF Suts
    <3>2. Tunnelled(s, PortsPerSut)
      BY <1>1, <1>4, <3>1 DEF VSwitchInv, Progress, DeployProgress
    <3>3. PortsPerSut' = PortsPerSut
      BY <1>1 DEF PortsPerSut
    <3> QED
      BY <1>1, <3>2, <3>3 DEF Tunnelled
  <2>2. done' = "none"
    BY <1>1 DEF VSwitchInv, Progress, Reset
  <2> QED
    BY <1>1, <2>1, <2>2 DEF DeployProgress
<1>6. ofp' \in [Suts -> BOOLEAN]
  BY <1>1 DEF VSwitchInv, TypeOK
<1> QED
  BY <1>1, <1>2, <1>3, <1>5, <1>6, Here, GoesOn

\* The loops after the tunnel ports are made: no step of theirs takes a port away.
LEMMA TunnelsKept ==
  ASSUME VSwitchInv, kw \in {"pipeline", "overlay"}, sut <= NSuts, NEW o, NEW v,
         objs' = [objs EXCEPT ![sut] = o], ovs' = [ovs EXCEPT ![sut] = v],
         o # <<>>, o[1].tnl_ports = objs[sut][1].tnl_ports, v.tnl = ovs[sut].tnl,
         UNCHANGED <<kw, args, done>>
  PROVE  /\ UplinkPending' /\ DeleteProgress' /\ done' = "none"
         /\ \A s \in Suts : Tunnelled(s, PortsPerSut)'
         /\ \A s \in Suts : s # sut => ovs'[s] = ovs[s]
         /\ ovs'[sut] = v /\ WantedFlows' = WantedFlows
<1>1. UplinkPending' /\ DeleteProgress' /\ done' = "none"
  BY DEF VSwitchInv, Progress, Reset, UplinkPending, DeleteProgress, DeletedEverywhere
<1>2. /\ objs'[sut] = o /\ ovs'[sut] = v
      /\ \A s \in Suts : s # sut => objs'[s] = objs[s] /\ ovs'[s] = ovs[s]
  BY Here
<1>3. PortsPerSut' = PortsPerSut /\ WantedFlows' = WantedFlows
  BY DEF PortsPerSut, WantedFlows
<1>4. ASSUME NEW s \in Suts PROVE Tunnelled(s, PortsPerSut)'
  <2>1. Tunnelled(s, PortsPerSut)
    BY DEF VSwitchInv, Progress, DeployProgress
  <2>2. /\ objs'[s] # <<>> /\ objs'[s][1].tnl_ports = objs[s][1].tnl_ports
        /\ ovs'[s].tnl = ovs[s].tnl
    BY <1>2, <2>1 DEF Tunnelled
  <2> QED
    BY <1>3, <2>1, <2>2 DEF Tunnelled
<1> QED
  BY <1>1, <1>2, <1>3, <1>4

\* Where the loops after the tunnel ports are, there is a bridge to work on.
LEMMA TunnelBridge ==
  ASSUME VSwitchInv, kw \in {"pipeline", "overlay"}, sut <= NSuts
  PROVE  objs[sut] # <<>> /\ objs[sut][1] \in BridgeObjects
<1>1. objs[sut] # <<>>
  BY Here DEF VSwitchInv, Progress, DeployProgress, Tunnelled
<1> QED
  BY <1>1, Here

\* setup_default_pipeline_on_all_suts: the tunnel ports stay.
LEMMA SetsUpPipeline ==
  ASSUME VSwitchInv, SetupPipeline
  PROVE  VSwitchInv'
<1>1. /\ kw = "pipeline" /\ sut <= NSuts /\ ofp' \in [Suts -> BOOLEAN] /\ UNCHANGED objs
  BY DEF SetupPipeline, In, VSwitchInv, TypeOK
<1>2. PICK c, w : c = [ovs[sut] EXCEPT !.flows = "none"] /\ w = [ovs[sut] EXCEPT !.flows = "native"]
  OBVIOUS
<1>3. /\ c \in OvsStates /\ c.tnl = ovs[sut].tnl /\ c.br = ovs[sut].br
      /\ c.uplink = ovs[sut].uplink /\ c.tlv = ovs[sut].tlv
      /\ w \in OvsStates /\ w.tnl = ovs[sut].tnl /\ w.br = ovs[sut].br
      /\ w.uplink = ovs[sut].uplink /\ w.tlv = ovs[sut].tlv
  BY <1>1, <1>2, Here DEF OvsStates
<1>4. Sound(objs[sut], c) /\ Sound(objs[sut], w) /\ (faults = 0 => Agree(objs[sut], w))
  BY <1>1, <1>3, OvsOnly
<1>5. CASE Succeeds(Ovs.br, w) /\ NextSut
  <2>1. /\ ovs' = [ovs EXCEPT ![sut] = w] /\ faults' = faults
        /\ sut' = sut + 1 /\ pos' = 1 /\ UNCHANGED <<kw, args, done, vni>>
    BY <1>5 DEF Succeeds, NextSut, GoOn
  <2>2. objs' = [objs EXCEPT ![sut] = objs[sut]]
    BY <1>1, Here
  <2>3. /\ UplinkPending' /\ DeleteProgress' /\ done' = "none"
        /\ \A s \in Suts : Tunnelled(s, PortsPerSut)'
    BY <1>1, <1>3, <2>1, <2>2, TunnelBridge, TunnelsKept
  <2>4. DeployProgress'
    BY <1>1, <2>1, <2>3 DEF DeployProgress
  <2> QED
    BY <1>1, <1>3, <1>4, <2>1, <2>2, <2>3, <2>4, Here, GoesOn
<1>6. CASE Raises(Ovs.br, {c, w})
  <2>1. PICK results : results = {c, w}
    OBVIOUS
  <2>2. results \subseteq OvsStates /\ \A r \in results : Sound(objs[sut], r)
    BY <1>3, <1>4, <2>1
  <2>3. /\ \/ UNCHANGED <<ovs, faults>>
           \/ /\ faults < MaxFaults
              /\ faults' = faults + 1
              /\ UNCHANGED ovs \/ \E r \in results : ovs' = [ovs EXCEPT ![sut] = r]
        /\ kw' = "idle" /\ UNCHANGED <<sut, pos, args, done, vni>>
    BY <1>6, <2>1 DEF Raises, Ovs
  <2> QED
    BY <1>1, <1>6, <2>2, <2>3, Interrupted
<1> QED
  BY <1>2, <1>5, <1>6 DEF SetupPipeline, Ovs

\* Until the loop is past a SUT, its flows are of no account.
LEMMA OverlayGoesOn ==
  ASSUME VSwitchInv, kw = "overlay", sut <= NSuts, NEW o, NEW v,
         objs' = [objs EXCEPT ![sut] = o], ovs' = [ovs EXCEPT ![sut] = v],
         o # <<>>, o[1].tnl_ports = objs[sut][1].tnl_ports, v.tnl = ovs[sut].tnl,
         UNCHANGED <<kw, args, done>>,
         sut' = sut \/ (sut' = sut + 1 /\ v.flows = WantedFlows)
  PROVE  UplinkPending' /\ DeleteProgress' /\ DeployProgress'
<1>1. /\ UplinkPending' /\ DeleteProgress' /\ done' = "none"
      /\ \A s \in Suts : Tunnelled(s, PortsPerSut)'
      /\ \A s \in Suts : s # sut => ovs'[s] = ovs[s]
      /\ ovs'[sut] = v /\ WantedFlows' = WantedFlows
  BY TunnelsKept
<1>2. ASSUME NEW s \in Suts, s < sut' PROVE ovs'[s].flows = WantedFlows
  <2>1. s < sut \/ (s = sut /\ v.flows = WantedFlows)
    BY <1>2, Here DEF Suts
  <2>2. CASE s < sut
    <3>1. s # sut /\ ovs[s].flows = WantedFlows
      BY <2>2, Here DEF VSwitchInv, Progress, DeployProgress, Suts
    <3> QED
      BY <1>1, <3>1
  <2>3. CASE s = sut /\ v.flows = WantedFlows
    BY <1>1, <2>3
  <2> QED
    BY <2>1, <2>2, <2>3
<1>3. DeployProgress'
  BY <1>1, <1>2 DEF DeployProgress
<1> QED
  BY <1>1, <1>3

\* _add_tlv_map, or nothing without metadata.
LEMMA AddsTlvMap ==
  ASSUME VSwitchInv, AddTlvMap
  PROVE  VSwitchInv'
<1>1. kw = "overlay" /\ sut <= NSuts /\ ofp' \in [Suts -> BOOLEAN]
  BY DEF AddTlvMap, In, VSwitchInv, TypeOK
<1>2. objs[sut] # <<>> /\ objs[sut][1] \in BridgeObjects
  BY <1>1, TunnelBridge
<1>3. PICK w, b : /\ w = [ovs[sut] EXCEPT !.tlv = TRUE]
                  /\ b = [objs[sut][1] EXCEPT !.with_md = TRUE]
  OBVIOUS
<1>4. /\ w \in OvsStates /\ w.tnl = ovs[sut].tnl /\ w.br = ovs[sut].br
      /\ w.uplink = ovs[sut].uplink /\ w.tlv = TRUE
  BY <1>1, <1>3, Here DEF OvsStates
<1>5. /\ b \in BridgeObjects /\ b.ids = objs[sut][1].ids /\ b.tnl_ports = objs[sut][1].tnl_ports
      /\ b.uplinks = objs[sut][1].uplinks /\ b.with_md = TRUE
  BY <1>2, <1>3 DEF BridgeObjects
<1>6. Sound(objs[sut], w)
  BY <1>1, <1>4, Here, OvsChanged
<1>7. CASE Succeeds(Ovs.br /\ ~Ovs.tlv, w) /\ SetBr(b) /\ NextPos
  <2>1. PICK o : o = <<b>> \o Tail(objs[sut])
    OBVIOUS
  <2>2. /\ ovs[sut].br /\ ovs' = [ovs EXCEPT ![sut] = w] /\ faults' = faults
        /\ objs' = [objs EXCEPT ![sut] = o]
        /\ sut' = sut /\ pos' = pos + 1 /\ UNCHANGED <<kw, args, done, vni>>
    BY <1>7, <2>1 DEF Succeeds, SetBr, Ovs, NextPos, GoOn
  <2>3. o \in Seq(BridgeObjects) /\ o # <<>> /\ o[1] = b /\ Sound(o, w)
    BY <1>1, <1>2, <1>4, <1>5, <2>1, Here, Noted
  <2>4. ASSUME faults = 0 PROVE Agree(o, w)
    <3>1. Agree(objs[sut], ovs[sut])
      BY <1>1, <2>4, Here
    <3>2. /\ w.br /\ Range(b.tnl_ports) = w.tnl /\ Len(b.tnl_ports) + Len(b.ids) = Len(TunnelIds)
          /\ b.uplinks = w.uplink /\ b.with_md = w.tlv
      BY <1>2, <1>4, <1>5, <2>2, <3>1 DEF Agree
    <3> QED
      BY <1>1, <1>2, <1>5, <2>1, <3>1, <3>2, Here, FirstAgrees
  <2>5. UplinkPending' /\ DeleteProgress' /\ DeployProgress'
    BY <1>1, <1>4, <1>5, <2>2, <2>3, OverlayGoesOn
  <2> QED
    BY <1>1, <1>4, <2>2, <2>3, <2>4, <2>5, GoesOn
<1>8. CASE Raises(Ovs.br /\ ~Ovs.tlv, {w}) /\ UNCHANGED objs
  <2>1. PICK results : results = {w}
    OBVIOUS
  <2>2. results \subseteq OvsStates /\ \A r \in results : Sound(objs[sut], r)
    BY <1>4, <1>6, <2>1
  <2>3. /\ \/ UNCHANGED <<ovs, faults>>
           \/ /\ faults < MaxFaults
              /\ faults' = faults + 1
              /\ UNCHANGED ovs \/ \E r \in results : ovs' = [ovs EXCEPT ![sut] = r]
        /\ kw' = "idle" /\ UNCHANGED <<sut, pos, args, done, vni>>
    BY <1>8, <2>1 DEF Raises, Ovs
  <2> QED
    BY <1>1, <1>8, <2>2, <2>3, Interrupted
<1>9. CASE NextPos /\ UNCHANGED <<objs, ovs, faults>>
  <2>1. /\ objs' = [objs EXCEPT ![sut] = objs[sut]] /\ ovs' = [ovs EXCEPT ![sut] = ovs[sut]]
        /\ faults' = faults /\ sut' = sut /\ pos' = pos + 1 /\ UNCHANGED <<kw, args, done, vni>>
    BY <1>1, <1>9, Here DEF NextPos, GoOn
  <2>2. UplinkPending' /\ DeleteProgress' /\ DeployProgress'
    BY <1>1, <1>2, <2>1, OverlayGoesOn
  <2> QED
    BY <1>1, <2>1, <2>2, Here, GoesOn
<1> QED
  BY <1>3, <1>7, <1>8, <1>9 DEF AddTlvMap, Ovs, Br

\* The flows of the overlay, of the mode that deploy was called with.
LEMMA SetsUpOverlayFlows ==
  ASSUME VSwitchInv, SetupOverlayFlows
  PROVE  VSwitchInv'
<1>1. kw = "overlay" /\ sut <= NSuts /\ ofp' \in [Suts -> BOOLEAN] /\ UNCHANGED objs
  BY DEF SetupOverlayFlows, In, VSwitchInv, TypeOK
<1>2. PICK w : w = [ovs[sut] EXCEPT !.flows = WantedFlows]
  OBVIOUS
<1>3. /\ w \in OvsStates /\ w.tnl = ovs[sut].tnl /\ w.br = ovs[sut].br
      /\ w.uplink = ovs[sut].uplink /\ w.tlv = ovs[sut].tlv /\ w.flows = WantedFlows
  BY <1>1, <1>2, Here DEF OvsStates, WantedFlows
<1>4. Sound(objs[sut], w) /\ (faults = 0 => Agree(objs[sut], w))
  BY <1>1, <1>3, OvsOnly
<1>5. CASE Succeeds(Ovs.br /\ (args.md => Ovs.tlv), w) /\ NextSut
  <2>1. /\ ovs' = [ovs EXCEPT ![sut] = w] /\ faults' = faults
        /\ sut' = sut + 1 /\ pos' = 1 /\ UNCHANGED <<kw, args, done, vni>>
    BY <1>5 DEF Succeeds, NextSut, GoOn
  <2>2. objs' = [objs EXCEPT ![sut] = objs[sut]]
    BY <1>1, Here
  <2>3. UplinkPending' /\ DeleteProgress' /\ DeployProgress'
    BY <1>1, <1>3, <2>1, <2>2, TunnelBridge, OverlayGoesOn
  <2> QED
    BY <1>1, <1>3, <1>4, <2>1, <2>2, <2>3, Here, GoesOn
<1>6. CASE Raises(Ovs.br /\ (args.md => Ovs.tlv), {w})
  <2>1. PICK results : results = {w}
    OBVIOUS
  <2>2. results \subseteq OvsStates /\ \A r \in results : Sound(objs[sut], r)
    BY <1>3, <1>4, <2>1
  <2>3. /\ \/ UNCHANGED <<ovs, faults>>
           \/ /\ faults < MaxFaults
              /\ faults' = faults + 1
              /\ UNCHANGED ovs \/ \E r \in results : ovs' = [ovs EXCEPT ![sut] = r]
        /\ kw' = "idle" /\ UNCHANGED <<sut, pos, args, done, vni>>
    BY <1>6, <2>1 DEF Raises, Ovs
  <2> QED
    BY <1>1, <1>6, <2>2, <2>3, Interrupted
<1> QED
  BY <1>2, <1>5, <1>6 DEF SetupOverlayFlows, Ovs, WantedFlows

-------------------------------------------------------------------------------
(* undeploy_vni_as_tunnel_overlay. *)

\* The flows of the overlay are cleared.
LEMMA ClearsFlows ==
  ASSUME VSwitchInv, ClearFlows
  PROVE  VSwitchInv'
<1>1. kw = "clear" /\ sut <= NSuts /\ ofp' \in [Suts -> BOOLEAN] /\ UNCHANGED objs
  BY DEF ClearFlows, In, VSwitchInv, TypeOK
<1>2. PICK w : w = [ovs[sut] EXCEPT !.flows = "none"]
  OBVIOUS
<1>3. /\ w \in OvsStates /\ w.tnl = ovs[sut].tnl /\ w.br = ovs[sut].br
      /\ w.uplink = ovs[sut].uplink /\ w.tlv = ovs[sut].tlv
  BY <1>1, <1>2, Here DEF OvsStates
<1>4. Sound(objs[sut], w) /\ (faults = 0 => Agree(objs[sut], w))
  BY <1>1, <1>3, OvsOnly
<1>5. CASE Succeeds(Ovs.br, w) /\ NextPos
  <2>1. /\ ovs' = [ovs EXCEPT ![sut] = w] /\ faults' = faults
        /\ sut' = sut /\ pos' = pos + 1 /\ UNCHANGED <<kw, args, done, vni>>
    BY <1>5 DEF Succeeds, NextPos, GoOn
  <2>2. objs' = [objs EXCEPT ![sut] = objs[sut]]
    BY <1>1, Here
  <2>3. UplinkPending' /\ DeleteProgress' /\ DeployProgress'
    BY <1>1, <2>1, Untracked DEF Tracked
  <2> QED
    BY <1>1, <1>3, <1>4, <2>1, <2>2, <2>3, Here, GoesOn
<1>6. CASE Raises(Ovs.br, {w})
  <2>1. PICK results : results = {w}
    OBVIOUS
  <2>2. results \subseteq OvsStates /\ \A r \in results : Sound(objs[sut], r)
    BY <1>3, <1>4, <2>1
  <2>3. /\ \/ UNCHANGED <<ovs, faults>>
           \/ /\ faults < MaxFaults
              /\ faults' = faults + 1
              /\ UNCHANGED ovs \/ \E r \in results : ovs' = [ovs EXCEPT ![sut] = r]
        /\ kw' = "idle" /\ UNCHANGED <<sut, pos, args, done, vni>>
    BY <1>6, <2>1 DEF Raises, Ovs
  <2> QED
    BY <1>1, <1>6, <2>2, <2>3, Interrupted
<1> QED
  BY <1>2, <1>5, <1>6 DEF ClearFlows, Ovs

\* _del_tlv_map, or nothing when the bridge has no map.
LEMMA DeletesTlvMap ==
  ASSUME VSwitchInv, DelTlvMap
  PROVE  VSwitchInv'
<1>1. kw = "clear" /\ sut <= NSuts /\ ofp' \in [Suts -> BOOLEAN] /\ UNCHANGED ofp
  BY DEF DelTlvMap, In, VSwitchInv, TypeOK
<1>2. CASE Errs /\ UNCHANGED <<objs, ovs, faults>>
  BY <1>1, <1>2, AbortedUntouched
<1>3. CASE NextSut /\ UNCHANGED <<objs, ovs, faults>>
  <2>1. /\ objs' = [objs EXCEPT ![sut] = objs[sut]] /\ ovs' = [ovs EXCEPT ![sut] = ovs[sut]]
        /\ faults' = faults /\ sut' = sut + 1 /\ pos' = 1 /\ UNCHANGED <<kw, args, done, vni>>
    BY <1>1, <1>3, Here DEF NextSut, GoOn
  <2>2. UplinkPending' /\ DeleteProgress' /\ DeployProgress'
    BY <1>1, <2>1, Untracked DEF Tracked
  <2> QED
    BY <1>1, <2>1, <2>2, Here, GoesOn
<1>4. PICK w, b : /\ w = [ovs[sut] EXCEPT !.tlv = FALSE]
                  /\ b = [objs[sut][1] EXCEPT !.with_md = FALSE]
  OBVIOUS
<1>5. /\ w \in OvsStates /\ w.tnl = ovs[sut].tnl /\ w.br = ovs[sut].br
      /\ w.uplink = ovs[sut].uplink /\ w.tlv = FALSE
  BY <1>1, <1>4, Here DEF OvsStates
<1>6. Sound(objs[sut], w)
  BY <1>1, <1>5, Here, OvsChanged
<1>7. CASE HasBridge /\ Succeeds(Ovs.br /\ Ovs.flows # "metadata", w) /\ SetBr(b) /\ NextSut
  <2>1. PICK o : o = <<b>> \o Tail(objs[sut])
    OBVIOUS
  <2>2. /\ ovs[sut].br /\ ovs' = [ovs EXCEPT ![sut] = w] /\ faults' = faults /\ objs[sut] # <<>>
        /\ objs' = [objs EXCEPT ![sut] = o]
        /\ sut' = sut + 1 /\ pos' = 1 /\ UNCHANGED <<kw, args, done, vni>>
    BY <1>7, <2>1 DEF Succeeds, HasBridge, SetBr, Ovs, NextSut, GoOn
  <2>3. objs[sut][1] \in BridgeObjects
    BY <1>1, <2>2, Here
  <2>4. /\ b \in BridgeObjects /\ b.ids = objs[sut][1].ids /\ b.tnl_ports = objs[sut][1].tnl_ports
        /\ b.uplinks = objs[sut][1].uplinks /\ b.with_md = FALSE
    BY <1>4, <2>3 DEF BridgeObjects
  <2>5. o \in Seq(BridgeObjects) /\ Sound(o, w)
    BY <1>1, <1>5, <2>1, <2>2, <2>4, Here, Noted
  <2>6. ASSUME faults = 0 PROVE Agree(o, w)
    <3>1. Agree(objs[sut], ovs[sut])
      BY <1>1, <2>6, Here
    <3>2. /\ w.br /\ Range(b.tnl_ports) = w.tnl /\ Len(b.tnl_ports) + Len(b.ids) = Len(TunnelIds)
          /\ b.uplinks = w.uplink /\ b.with_md = w.tlv
      BY <1>5, <2>2, <2>4, <3>1 DEF Agree
    <3> QED
      BY <1>1, <2>1, <2>2, <2>4, <3>1, <3>2, Here, FirstAgrees
  <2>7. UplinkPending' /\ DeleteProgress' /\ DeployProgress'
    BY <1>1, <2>2, Untracked DEF Tracked
  <2> QED
    BY <1>1, <1>5, <2>2, <2>5, <2>6, <2>7, GoesOn
<1>8. CASE Raises(Ovs.br /\ Ovs.flows # "metadata", {w}) /\ UNCHANGED objs
  <2>1. PICK results : results = {w}
    OBVIOUS
  <2>2. results \subseteq OvsStates /\ \A r \in results : Sound(objs[sut], r)
    BY <1>5, <1>6, <2>1
  <2>3. /\ \/ UNCHANGED <<ovs, faults>>
           \/ /\ faults < MaxFaults
              /\ faults' = faults + 1
              /\ UNCHANGED ovs \/ \E r \in results : ovs' = [ovs EXCEPT ![sut] = r]
        /\ kw' = "idle" /\ UNCHANGED <<sut, pos, args, done, vni>>
    BY <1>8, <2>1 DEF Raises, Ovs
  <2> QED
    BY <1>1, <1>8, <2>2, <2>3, Interrupted
<1> QED
  BY <1>2, <1>3, <1>4, <1>7, <1>8 DEF DelTlvMap, Ovs, Br

\* The port at a position of the list is removed, and its id put back.
PortReturned(o, v, p, b, w) ==
  /\ o \in Seq(BridgeObjects) /\ v \in OvsStates /\ Sound(o, v)
  /\ o # <<>> /\ p \in 1..Len(o[1].tnl_ports)
  /\ b \in BridgeObjects /\ b.ids = Append(o[1].ids, o[1].tnl_ports[p])
  /\ b.tnl_ports = RemoveAt(o[1].tnl_ports, p)
  /\ b.uplinks = o[1].uplinks /\ b.with_md = o[1].with_md
  /\ w \in OvsStates /\ w.br = v.br /\ w.tnl = v.tnl \ {o[1].tnl_ports[p]}
  /\ w.uplink = v.uplink /\ w.tlv = v.tlv

\* The id leaves the ports and Open vSwitch before it is free again.
LEMMA TunnelRemoved ==
  ASSUME NEW o, NEW v, NEW p, NEW b, NEW w, PortReturned(o, v, p, b, w)
  PROVE  /\ <<b>> \o Tail(o) \in Seq(BridgeObjects) /\ Sound(<<b>> \o Tail(o), w)
         /\ v.br /\ Agree(o, v) => Agree(<<b>> \o Tail(o), w)
<1> USE DEF PortReturned
<1>1. o[1] \in BridgeObjects /\ 1 \in 1..Len(o)
  OBVIOUS
<1>2. o[1].ids \in Seq(Ids) /\ o[1].tnl_ports \in Seq(Ids)
  BY <1>1 DEF BridgeObjects
<1>3. /\ IsInjective(o[1].ids) /\ IsInjective(o[1].tnl_ports)
      /\ Range(o[1].ids) \cap Range(o[1].tnl_ports) = {} /\ Range(o[1].ids) \cap v.tnl = {}
  BY <1>1 DEF Sound
<1>4. PICK id : id = o[1].tnl_ports[p]
  OBVIOUS
<1>5. /\ id \in Ids /\ id \in Range(o[1].tnl_ports) /\ IsInjective(b.tnl_ports)
      /\ Len(b.tnl_ports) = Len(o[1].tnl_ports) - 1
      /\ Range(b.tnl_ports) = Range(o[1].tnl_ports) \ {id}
  <2>1. PICK q \in Seq(Ids) : q = o[1].tnl_ports
    BY <1>2
  <2>2. IsInjective(q) /\ p \in 1..Len(q) /\ b.tnl_ports = RemoveAt(q, p) /\ id = q[p]
    BY <1>3, <1>4, <2>1
  <2> HIDE DEF PortReturned
  <2>3. /\ q[p] \in Ids /\ q[p] \in Range(q) /\ IsInjective(RemoveAt(q, p))
        /\ Len(RemoveAt(q, p)) = Len(q) - 1 /\ Range(RemoveAt(q, p)) = Range(q) \ {q[p]}
    <3>1. \A t \in Seq(Ids) : \A j \in 1..Len(t) : IsInjective(t) =>
            /\ t[j] \in Ids /\ t[j] \in Range(t) /\ IsInjective(RemoveAt(t, j))
            /\ Len(RemoveAt(t, j)) = Len(t) - 1 /\ Range(RemoveAt(t, j)) = Range(t) \ {t[j]}
      BY RemoveId
    <3> QED
      BY <2>1, <2>2, <3>1
  <2> QED
    BY <2>1, <2>2, <2>3
<1>6. id \notin Range(o[1].ids)
  BY <1>3, <1>5
<1>7. /\ IsInjective(b.ids) /\ Len(b.ids) = Len(o[1].ids) + 1
      /\ Range(b.ids) = Range(o[1].ids) \cup {id}
  BY <1>2, <1>3, <1>4, <1>5, <1>6, AddId
<1>8. Range(b.ids) \cap w.tnl = {} /\ Range(b.ids) \cap Range(b.tnl_ports) = {}
  BY <1>3, <1>4, <1>5, <1>7
<1>9. <<b>> \o Tail(o) \in Seq(BridgeObjects) /\ Sound(<<b>> \o Tail(o), w)
  BY <1>5, <1>7, <1>8, FirstChanged
<1>10. ASSUME v.br, Agree(o, v) PROVE Agree(<<b>> \o Tail(o), w)
  <2>1. /\ Range(o[1].tnl_ports) = v.tnl /\ o[1].uplinks = v.uplink /\ o[1].with_md = v.tlv
        /\ Len(o[1].tnl_ports) + Len(o[1].ids) = Len(TunnelIds)
    BY <1>10 DEF Agree
  <2>2. Len(o[1].tnl_ports) \in Nat /\ Len(o[1].ids) \in Nat
    BY <1>2
  <2>3. \A m, n \in Nat : (m - 1) + (n + 1) = m + n
    OBVIOUS
  <2>4. Len(b.tnl_ports) + Len(b.ids) = Len(TunnelIds)
    BY <1>5, <1>7, <2>1, <2>2, <2>3
  <2>5. w.br /\ Range(b.tnl_ports) = w.tnl /\ b.uplinks = w.uplink /\ b.with_md = w.tlv
    BY <1>4, <1>5, <1>10, <2>1
  <2> QED
    BY <1>10, <2>4, <2>5, FirstAgrees
<1> QED
  BY <1>9, <1>10

\* delete_tunnel_port.
LEMMA DeletesTunnelPort ==
  ASSUME VSwitchInv, DeleteTunnelPort
  PROVE  VSwitchInv'
<1>1. /\ kw = "tnl_delete" /\ sut <= NSuts /\ objs[sut] # <<>>
      /\ pos <= Len(objs[sut][1].tnl_ports) /\ ofp' \in [Suts -> BOOLEAN]
  BY DEF DeleteTunnelPort, In, HasBridge, Br, VSwitchInv, TypeOK
<1>2. PICK id, b, w :
        /\ id = objs[sut][1].tnl_ports[pos]
        /\ b = [objs[sut][1] EXCEPT !.ids = Append(@, id), !.tnl_ports = RemoveAt(@, pos)]
        /\ w = [ovs[sut] EXCEPT !.tnl = @ \ {id}]
  OBVIOUS
<1>3. PICK o : o = <<b>> \o Tail(objs[sut])
  OBVIOUS
<1>4. objs[sut][1] \in BridgeObjects
  BY <1>1, Here
<1>5. objs[sut][1].ids \in Seq(Ids) /\ objs[sut][1].tnl_ports \in Seq(Ids)
  BY <1>4 DEF BridgeObjects
<1>6. IsInjective(objs[sut][1].tnl_ports)
  <2>1. 1 \in 1..Len(objs[sut]) /\ Sound(objs[sut], ovs[sut])
    BY <1>1, Here
  <2> QED
    BY <2>1 DEF Sound
<1>7. pos \in 1..Len(objs[sut][1].tnl_ports)
  <2>1. Len(objs[sut][1].tnl_ports) \in Nat /\ pos \in Nat \ {0}
    BY <1>1, <1>5, Here
  <2> QED
    BY <1>1, <2>1
<1>8. id \in Ids /\ RemoveAt(objs[sut][1].tnl_ports, pos) \in Seq(Ids)
  BY <1>2, <1>5, <1>6, <1>7, RemoveId
<1>9. Append(objs[sut][1].ids, id) \in Seq(Ids)
  BY <1>5, <1>8
<1>10. /\ b \in BridgeObjects /\ b.ids = Append(objs[sut][1].ids, id)
       /\ b.tnl_ports = RemoveAt(objs[sut][1].tnl_ports, pos)
       /\ b.uplinks = objs[sut][1].uplinks /\ b.with_md = objs[sut][1].with_md
  BY <1>2, <1>4, <1>8, <1>9 DEF BridgeObjects
<1>11. /\ w \in OvsStates /\ w.br = ovs[sut].br /\ w.tnl = ovs[sut].tnl \ {id}
       /\ w.uplink = ovs[sut].uplink /\ w.tlv = ovs[sut].tlv
  BY <1>1, <1>2, Here DEF OvsStates
<1>12. PortReturned(objs[sut], ovs[sut], pos, b, w)
  BY <1>1, <1>2, <1>7, <1>10, <1>11, Here DEF PortReturned
<1>13. /\ o \in Seq(BridgeObjects) /\ Sound(o, w)
       /\ ovs[sut].br /\ Agree(objs[sut], ovs[sut]) => Agree(o, w)
  BY <1>3, <1>12, TunnelRemoved
<1>14. Sound(objs[sut], w)
  BY <1>1, <1>11, Here, OvsChanged
<1>15. CASE Succeeds(Ovs.br /\ id \in Ovs.tnl, w) /\ SetBr(b) /\ NextPos
  <2>1. /\ ovs[sut].br /\ ovs' = [ovs EXCEPT ![sut] = w] /\ faults' = faults
        /\ objs' = [objs EXCEPT ![sut] = o]
        /\ sut' = sut /\ pos' = pos + 1 /\ UNCHANGED <<kw, args, done, vni>>
    BY <1>3, <1>15 DEF Succeeds, SetBr, Ovs, NextPos, GoOn
  <2>2. faults = 0 => Agree(o, w)
    BY <1>1, <1>13, <2>1, Here
  <2>3. UplinkPending' /\ DeleteProgress' /\ DeployProgress'
    BY <1>1, <2>1, Untracked DEF Tracked
  <2> QED
    BY <1>1, <1>11, <1>13, <2>1, <2>2, <2>3, GoesOn
<1>16. CASE Raises(Ovs.br /\ id \in Ovs.tnl, {w}) /\ UNCHANGED objs
  <2>1. PICK results : results = {w}
    OBVIOUS
  <2>2. results \subseteq OvsStates /\ \A r \in results : Sound(objs[sut], r)
    BY <1>11, <1>14, <2>1
  <2>3. /\ \/ UNCHANGED <<ovs, faults>>
           \/ /\ faults < MaxFaults
              /\ faults' = faults + 1
              /\ UNCHANGED ovs \/ \E r \in results : ovs' = [ovs EXCEPT ![sut] = r]
        /\ kw' = "idle" /\ UNCHANGED <<sut, pos, args, done, vni>>
    BY <1>16, <2>1 DEF Raises, Ovs
  <2> QED
    BY <1>1, <1>16, <2>2, <2>3, Interrupted
<1> QED
  BY <1>2, <1>15, <1>16 DEF DeleteTunnelPort, Ovs, Br

-------------------------------------------------------------------------------
(* The keywords begin and end. *)

\* Steps that leave the SUTs as they are.
LEMMA SutsUnmoved ==
  ASSUME VSwitchInv, UNCHANGED <<objs, ovs, faults>>
  PROVE  SutsSound'
  BY DEF VSwitchInv, SutsSound, Sound, Agree

\* A keyword is called: nothing is claimed of its progress yet.
LEMMA Begins ==
  ASSUME VSwitchInv, NEW k \in Keywords \cup {"tnl_ports"}, Begin(k),
         args' \in [rip : {"flow", "non-flow"}, md : BOOLEAN]
  PROVE  VSwitchInv'
<1>1. /\ kw' = k /\ sut' = 1 /\ pos' = 1 /\ done' = "none"
      /\ UNCHANGED <<objs, ovs, ofp, vni, faults>>
  BY DEF Begin
<1>2. SutsSound'
  BY <1>1, SutsUnmoved
<1>3. TypeOK'
  <2>1. sut' \in 1..(NSuts + 1) /\ pos' \in Nat \ {0}
    BY <1>1, VSwitchAssumption
  <2> QED
    BY <1>1, <2>1 DEF VSwitchInv, TypeOK
<1>4. \A s \in Suts : ~(s < sut')
  BY <1>1 DEF Suts
<1>5. k \notin {"idle", "pipeline", "overlay"}
  BY DEF Keywords
<1>6. Reset' /\ UplinkPending'
  BY <1>1 DEF Reset, UplinkPending
<1>7. DeleteProgress'
  BY <1>1, <1>4 DEF DeleteProgress, DeletedEverywhere
<1>8. DeployProgress'
  BY <1>1, <1>4, <1>5 DEF DeployProgress
<1> QED
  BY <1>2, <1>3, <1>6, <1>7, <1>8 DEF VSwitchInv, Progress

\* A loop over the SUTs is over: it has dealt with every SUT, which the next loop, or the
\* end of the keyword, relies on.
LEMMA LoopEnds ==
  ASSUME VSwitchInv, EndLoop
  PROVE  VSwitchInv'
<1>1. /\ kw # "idle" /\ sut > NSuts /\ kw' = Loops(kw) /\ sut' = 1 /\ pos' = 1
      /\ done' = IF Loops(kw) = "idle" THEN kw ELSE done
      /\ UNCHANGED <<objs, ovs, ofp, vni, args, faults>>
  BY DEF EndLoop
<1>2. SutsSound'
  BY <1>1, SutsUnmoved
<1>3. done = "none"
  BY <1>1 DEF VSwitchInv, Progress, Reset
<1>4. \/ kw = "tnl_ports" /\ kw' = "pipeline" /\ done' = "none"
      \/ kw = "pipeline" /\ kw' = "overlay" /\ done' = "none"
      \/ kw = "overlay" /\ kw' = "idle" /\ done' = "overlay"
      \/ kw = "clear" /\ kw' = "tnl_delete" /\ done' = "none"
      \/ /\ kw \notin {"tnl_ports", "pipeline", "overlay", "clear"}
         /\ kw' = "idle" /\ done' = kw
  BY <1>1, <1>3 DEF Loops
<1>5. TypeOK'
  <2>1. sut' \in 1..(NSuts + 1) /\ pos' \in Nat \ {0}
    BY <1>1, VSwitchAssumption
  <2>2. kw' \in {"idle", "pipeline", "overlay", "tnl_delete"}
    BY <1>4
  <2> QED
    BY <1>1, <2>1, <2>2 DEF VSwitchInv, TypeOK
<1>6. \A s \in Suts : s < sut
  <2>1. sut \in 1..(NSuts + 1) /\ NSuts \in Nat
    BY VSwitchAssumption DEF VSwitchInv, TypeOK
  <2> QED
    BY <1>1, <2>1 DEF Suts
<1>7. \A s \in Suts : ~(s < sut')
  BY <1>1 DEF Suts
<1>8. Reset' /\ UplinkPending'
  BY <1>1, <1>4 DEF Reset, UplinkPending
<1>9. DeleteProgress'
  <2>1. kw' # "delete_bridge"
    BY <1>4
  <2>2. CASE kw = "delete_bridge"
    BY <1>1, <1>6, <2>1, <2>2 DEF VSwitchInv, Progress, DeleteProgress, DeletedEverywhere
  <2>3. CASE kw # "delete_bridge"
    BY <1>4, <2>1, <2>3 DEF DeleteProgress, DeletedEverywhere
  <2> QED
    BY <2>2, <2>3
<1>10. DeployProgress'
  <2>1. /\ PortsPerSut' = PortsPerSut /\ WantedFlows' = WantedFlows
        /\ \A s \in Suts : ovs'[s] = ovs[s]
    BY <1>1 DEF PortsPerSut, WantedFlows
  <2>2. CASE kw \in {"tnl_ports", "pipeline", "overlay"}
    <3>1. \A s \in Suts : Tunnelled(s, PortsPerSut)
      BY <1>6, <2>2 DEF VSwitchInv, Progress, DeployProgress
    <3>2. \A s \in Suts : Tunnelled(s, PortsPerSut)'
      BY <1>1, <2>1, <3>1 DEF Tunnelled
    <3>3. kw = "overlay" => \A s \in Suts : ovs[s].flows = WantedFlows
      BY <1>6 DEF VSwitchInv, Progress, DeployProgress
    <3>4. done' = "overlay" => kw = "overlay"
      BY <1>4
    <3>5. kw' # "tnl_ports"
      BY <1>4
    <3> QED
      BY <1>7, <2>1, <3>2, <3>3, <3>4, <3>5 DEF DeployProgress
  <2>3. CASE kw \notin {"tnl_ports", "pipeline", "overlay"}
    <3>1. kw' \notin {"tnl_ports", "pipeline", "overlay"} /\ done' # "overlay"
      BY <1>4, <2>3
    <3> QED
      BY <3>1 DEF DeployProgress
  <2> QED
    BY <2>2, <2>3
<1> QED
  BY <1>2, <1>5, <1>8, <1>9, <1>10 DEF VSwitchInv, Progress

\* The VNI keywords change no SUT.
LEMMA SetsVni ==
  ASSUME VSwitchInv, SetVni
  PROVE  VSwitchInv'
<1>1. /\ kw = "set_vni" /\ sut <= NSuts /\ sut' = sut + 1
      /\ UNCHANGED <<objs, ovs, ofp, kw, pos, args, done, faults>>
  BY DEF SetVni, In
<1>2. SutsSound'
  BY <1>1, SutsUnmoved
<1>3. vni' \in [Suts -> [Vifs -> Nat]]
  <2>1. vni \in [Suts -> [Vifs -> Nat]] /\ sut \in Suts
    BY <1>1, Here DEF VSwitchInv, TypeOK
  <2>2. vni' = [vni EXCEPT ![sut] = [v \in Vifs |-> vni[sut][v]]]
    BY DEF SetVni, VifsOfSutVms
  <2>3. [v \in Vifs |-> vni[sut][v]] \in [Vifs -> Nat]
    BY <2>1
  <2> QED
    BY <2>1, <2>2, <2>3
<1>4. sut' \in 1..(NSuts + 1)
  <2>1. sut \in 1..NSuts /\ NSuts \in Nat
    BY <1>1, Here DEF Suts
  <2> QED
    BY <1>1, <2>1
<1>5. TypeOK'
  BY <1>1, <1>3, <1>4 DEF VSwitchInv, TypeOK
<1>6. UplinkPending' /\ DeleteProgress' /\ DeployProgress'
  BY <1>1, Untracked DEF Tracked
<1>7. Reset'
  BY <1>1 DEF VSwitchInv, Progress, Reset
<1> QED
  BY <1>2, <1>5, <1>6, <1>7 DEF VSwitchInv, Progress

\* In the beginning there is no bridge anywhere.
LEMMA Starts ==
  ASSUME Init
  PROVE  VSwitchInv
<1>1. /\ objs = [s \in Suts |-> <<>>] /\ ovs = [s \in Suts |-> NoBridge]
      /\ ofp = [s \in Suts |-> FALSE] /\ vni = [s \in Suts |-> [v \in Vifs |-> VNI_NONE]]
      /\ kw = "idle" /\ sut = 1 /\ pos = 1 /\ args = [rip |-> "flow", md |-> FALSE]
      /\ done = "none" /\ faults = 0
  BY DEF Init
<1>2. TypeOK
  <2>1. sut \in 1..(NSuts + 1) /\ pos \in Nat \ {0} /\ faults \in 0..MaxFaults
    BY <1>1, VSwitchAssumption
  <2>2. objs \in [Suts -> Seq(BridgeObjects)] /\ ovs \in [Suts -> OvsStates]
    BY <1>1, Blank
  <2>3. ofp \in [Suts -> BOOLEAN] /\ vni \in [Suts -> [Vifs -> Nat]]
    BY <1>1 DEF VNI_NONE
  <2>4. args \in [rip : {"flow", "non-flow"}, md : BOOLEAN]
    BY <1>1
  <2> QED
    BY <1>1, <2>1, <2>2, <2>3, <2>4 DEF TypeOK
<1>3. SutsSound
  <2> SUFFICES ASSUME NEW s \in Suts
               PROVE  Sound(objs[s], ovs[s]) /\ Agree(objs[s], ovs[s])
    BY DEF SutsSound
  <2>1. objs[s] = <<>> /\ Len(objs[s]) = 0 /\ ovs[s] = NoBridge
    BY <1>1
  <2> QED
    BY <2>1, Blank DEF Sound, Agree
<1>4. Progress
  BY <1>1 DEF Progress, Reset, UplinkPending, DeleteProgress, DeletedEverywhere, DeployProgress
<1> QED
  BY <1>2, <1>3, <1>4 DEF VSwitchInv

-------------------------------------------------------------------------------
(* The theorems. *)

\* Every step of a keyword, and every keyword begun, keeps the invariant.
LEMMA Preserved ==
  ASSUME VSwitchInv, [Next]_vars
  PROVE  VSwitchInv'
<1>1. ASSUME NEW k \in Keywords, Call(k) PROVE VSwitchInv'
  <2>1. args' \in [rip : {"flow", "non-flow"}, md : BOOLEAN]
    BY <1>1 DEF Call, VSwitchInv, TypeOK
  <2> QED
    BY <1>1, <2>1, Begins DEF Call
<1>2. ASSUME NEW rip \in {"flow", "non-flow"}, NEW md \in BOOLEAN, Deploy(rip, md)
      PROVE  VSwitchInv'
  <2>1. args' \in [rip : {"flow", "non-flow"}, md : BOOLEAN]
    BY <1>2 DEF Deploy
  <2> QED
    BY <1>2, <2>1, Begins DEF Deploy
<1>3. ASSUME NEW bond \in BOOLEAN, AddUplink(bond) PROVE VSwitchInv'
  BY <1>3, AddsUplink
<1>4. CASE CreateBridge \/ DeleteBridge \/ CreateUplinkBridge \/ AddTepAddress \/ DeleteUplinkBridge
  BY <1>4, CreatesBridge, DeletesBridge, CreatesUplinkBridge, AddsTepAddress, DeletesUplinkBridge
<1>5. CASE WithoutBridge \/ NoTunnelId
  BY <1>5, NoBridgeToUse
<1>6. CASE AddVif \/ DeleteVif
  BY <1>6, AddsVif, DeletesVif
<1>7. CASE VifsDone \/ TunnelPortsDeleted
  BY <1>7, InnerLoopEnds
<1>8. CASE CreateTunnelPort \/ TunnelPortsDone
  BY <1>8, CreatesTunnelPort, EndsTunnelPorts
<1>9. CASE SetupPipeline \/ AddTlvMap \/ SetupOverlayFlows
  BY <1>9, SetsUpPipeline, AddsTlvMap, SetsUpOverlayFlows
<1>10. CASE ClearFlows \/ DelTlvMap \/ DeleteTunnelPort
  BY <1>10, ClearsFlows, DeletesTlvMap, DeletesTunnelPort
<1>11. CASE EndLoop \/ SetVni
  BY <1>11, LoopEnds, SetsVni
<1>12. CASE UNCHANGED vars
  <2>1. TypeOK'
    BY <1>12 DEF vars, VSwitchInv, TypeOK
  <2>2. SutsSound'
    BY <1>12 DEF vars, VSwitchInv, SutsSound, Sound, Agree
  <2>3. Progress'
    BY <1>12 DEF vars, VSwitchInv, Progress, Reset, UplinkPending, DeleteProgress, DeletedEverywhere,
                 DeployProgress, Tunnelled, PortsPerSut, WantedFlows
  <2> QED
    BY <2>1, <2>2, <2>3 DEF VSwitchInv
<1> QED
  BY <1>1, <1>2, <1>3, <1>4, <1>5, <1>6, <1>7, <1>8, <1>9, <1>10, <1>11, <1>12 DEF Next

\* The inductive invariant: on every SUT no id is free and in use at once, without a
\* failed command the objects agree with Open vSwitch at every step, and what the
\* keyword in progress has passed is as it leaves it.
THEOREM Inductive == Spec => []VSwitchInv
<1>1. Init => VSwitchInv
  BY Starts
<1>2. VSwitchInv /\ [Next]_vars => VSwitchInv'
  BY Preserved
<1> QED
  BY <1>1, <1>2, PTL DEF Spec

\* The variables of the bridge, tunnel, uplink and VIF keywords keep their types.
THEOREM Typed == Spec => []TypeOK
<1>1. VSwitchInv => TypeOK
  BY DEF VSwitchInv
<1> QED
  BY <1>1, Inductive, PTL

\* IDAllocator: whatever commands fail, and whether they had their effect or not, an
\* id that is free is the id of no tunnel port and is free only once.
THEOREM NoIdInUseIsFree == Spec => []FreeIdsAreFree
<1>1. VSwitchInv => FreeIdsAreFree
  <2> SUFFICES ASSUME VSwitchInv, NEW s \in Suts, objs[s] # <<>>
               PROVE  /\ IsInjective(objs[s][1].ids) /\ IsInjective(objs[s][1].tnl_ports)
                      /\ Range(objs[s][1].ids) \cap (Range(objs[s][1].tnl_ports) \cup ovs[s].tnl) = {}
    BY DEF FreeIdsAreFree
  <2>1. Sound(objs[s], ovs[s]) /\ objs[s] \in Seq(BridgeObjects)
    BY DEF VSwitchInv, TypeOK, SutsSound
  <2>2. 1 \in 1..Len(objs[s])
    BY <2>1
  <2>3. /\ IsInjective(objs[s][1].ids) /\ IsInjective(objs[s][1].tnl_ports)
        /\ Range(objs[s][1].ids) \cap Range(objs[s][1].tnl_ports) = {}
        /\ Range(objs[s][1].ids) \cap ovs[s].tnl = {}
    BY <2>1, <2>2 DEF Sound
  <2> QED
    BY <2>3
<1> QED
  BY <1>1, Inductive, PTL

\* Between keywords, while no command has failed by itself, the Bridge objects say
\* what Open vSwitch has, and no tunnel id is lost.
THEOREM ObjectsMirrorOvs == Spec => []Mirror
<1>1. VSwitchInv => Mirror
  BY DEF VSwitchInv, SutsSound, Mirror
<1> QED
  BY <1>1, Inductive, PTL

\* delete_bridge, when it completes, has left no bridge on any SUT.
THEOREM DeleteIsComplete == Spec => []DeletedEverywhere
<1>1. VSwitchInv => DeletedEverywhere
  BY DEF VSwitchInv, Progress, DeleteProgress
<1> QED
  BY <1>1, Inductive, PTL

\* deploy_vni_as_tunnel_overlay, when it completes, has left on every SUT the tunnel
\* ports and the flows of its mode, although three loops one after another made them.
THEOREM DeployIsComplete == Spec => []DeployedEverywhere
<1>1. VSwitchInv => DeployedEverywhere
  BY DEF VSwitchInv, Progress, DeployProgress, Tunnelled, WantedFlows, DeployedEverywhere
<1> QED
  BY <1>1, Inductive, PTL

===============================================================================
