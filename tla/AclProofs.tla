------------------------------- MODULE AclProofs -------------------------------
(*****************************************************************************)
(* Theorems about Acl, for any number of SUTs, endpoints, VNIs, connections  *)
(* and protocols.                                                            *)
(*****************************************************************************)
EXTENDS Acl, TLAPS

\* Both endpoints of a connection are on SUTs, and have one VNI.
LEMMA Ends ==
  ASSUME NEW c \in Conns
  PROVE  /\ c.orig \in Eps /\ c.resp \in Eps /\ c.orig # c.resp
         /\ c.proto \in Protos
         /\ SutOf(c.orig) \in Suts /\ SutOf(c.resp) \in Suts
         /\ Vni[c.orig] = Vni[c.resp] /\ Vni[c.orig] \in Nat
  BY AclAssumption DEF SutOf

\* The initial state satisfies the inductive invariant.
LEMMA InitInv == Init => AclInv
<1> SUFFICES ASSUME Init PROVE AclInv
  OBVIOUS
<1>1. TypeOK
  BY AclAssumption DEF Init, TypeOK, Idle, TableStates, Keywords
<1>2. DeniesAclProtos /\ SentBySides /\ LateUntracked /\ WayBack
  BY DEF Init, DeniesAclProtos, SentBySides, LateUntracked, WayBack
<1>3. OthersDenied /\ AllowedPass /\ EstablishedAnswered
  BY DEF Init, OthersDenied, AllowedPass, EstablishedAnswered
<1> QED
  BY <1>1, <1>2, <1>3 DEF AclInv

\* Something else than a packet happens: no packet and no connection is calm any more.
LEMMA DisturbInv ==
  ASSUME AclInv, Disturb,
         table' \in [Suts -> TableStates],
         deny' \in [Suts -> SUBSET (Eps \X Protos)], DeniesAclProtos',
         overlay' \in [Suts -> BOOLEAN],
         ct' \in [Suts -> SUBSET CtEntries],
         \A s \in Suts : ct'[s] \subseteq ct[s],
         kw' \in Keywords,
         late' \subseteq late,
         \A c \in late' : Denied(c)'
  PROVE  AclInv'
<1> USE DEF AclInv, Disturb
<1>1. TypeOK'
  <2>1. pkt' \subseteq Packets
    <3> SUFFICES ASSUME NEW q \in pkt' PROVE q \in Packets
      OBVIOUS
    <3>1. PICK p \in pkt : q = [p EXCEPT !.calm = FALSE]
      OBVIOUS
    <3>2. p \in Packets
      BY DEF TypeOK
    <3> QED
      BY <3>1, <3>2 DEF Packets
  <2>2. /\ born' \subseteq Conns /\ late' \subseteq born'
        /\ got' \subseteq born' /\ calm' \subseteq got'
    BY DEF TypeOK
  <2> QED
    BY <2>1, <2>2 DEF TypeOK
<1>2. SentBySides'
  BY DEF SentBySides, TypeOK, Packets
<1>3. LateUntracked'
  <2>1. \A c \in late : SutOf(c.resp) \in Suts
    BY Ends DEF TypeOK
  <2> QED
    BY <2>1 DEF LateUntracked
<1>4. WayBack'
  BY DEF WayBack, TypeOK, Packets
<1>5. OthersDenied' /\ AllowedPass' /\ EstablishedAnswered'
  BY DEF OthersDenied, AllowedPass, EstablishedAnswered
<1> QED
  BY <1>1, <1>2, <1>3, <1>4, <1>5

\* Timeouts and keywords preserve the invariant.
LEMMA KeywordInv ==
  ASSUME AclInv,
         \/ \E s \in Suts : \E e \in ct[s] : Expire(s, e)
         \/ \E loop \in {"native", "deploy"} : Begin(loop, "none")
         \/ \E proto \in AclProtos : Begin("acl", proto)
         \/ \E proto \in AclProtos, sep \in Seps : AllowOriginate(proto, sep)
         \/ ClearAcl \/ WriteAcl \/ DefaultPipeline \/ OverlayFlows \/ EndLoop \/ Abort
  PROVE  AclInv'
<1> USE AclAssumption
<1>a. TypeOK /\ DeniesAclProtos /\ LateUntracked
  BY DEF AclInv
<1>b. \A c \in late : SutOf(c.resp) \in Suts /\ Denied(c)
  BY <1>a, Ends DEF TypeOK, LateUntracked
<1>c. ASSUME kw.sut <= NSuts, NextSut PROVE kw' \in Keywords
  <2>1. kw \in Keywords /\ kw.sut + 1 \in 1..(NSuts + 1) /\ 1 \in 1..2
    BY <1>a, <1>c DEF TypeOK, Keywords
  <2> QED
    BY <2>1, <1>c DEF NextSut, Keywords
<1>1. ASSUME NEW s \in Suts, NEW e \in ct[s], Expire(s, e) PROVE AclInv'
  BY <1>1, <1>a, <1>b, DisturbInv DEF Expire, TypeOK, DeniesAclProtos, Denied
<1>2. ASSUME NEW loop \in {"native", "deploy", "acl"}, NEW proto \in {"none"} \cup AclProtos,
             Begin(loop, proto)
      PROVE  AclInv'
  <2>1. kw' \in Keywords
    BY <1>2 DEF Begin, Keywords
  <2> QED
    BY <1>2, <2>1, <1>a, <1>b, DisturbInv DEF Begin, TypeOK, DeniesAclProtos, Denied
<1>3. ASSUME NEW proto \in AclProtos, NEW sep \in Seps, AllowOriginate(proto, sep) PROVE AclInv'
  <2>1. SutOf(sep) \in Suts /\ sep \in Eps
    BY DEF SutOf
  <2>2. deny' \in [Suts -> SUBSET (Eps \X Protos)] /\ DeniesAclProtos'
    <3>1. deny' = [deny EXCEPT ![SutOf(sep)] = @ \cup {<<sep, proto>>}]
      BY <1>3 DEF AllowOriginate
    <3>2. <<sep, proto>> \in Eps \X AclProtos /\ AclProtos \subseteq Protos
      BY <2>1 DEF Protos
    <3> QED
      BY <3>1, <3>2, <2>1, <1>a DEF TypeOK, DeniesAclProtos
  <2>3. \A c \in late' : Denied(c)'
    BY <1>3, <2>1, <1>a, <1>b DEF AllowOriginate, TypeOK, Denied
  <2> QED
    BY <1>3, <2>2, <2>3, <1>a, DisturbInv DEF AllowOriginate, TypeOK
<1>4. ASSUME NEW s \in Suts, NEW t \in {"none", "open"}, Empty(s, t)
      PROVE  /\ table' \in [Suts -> TableStates]
             /\ deny' \in [Suts -> SUBSET (Eps \X Protos)] /\ DeniesAclProtos'
             /\ late' \subseteq late /\ \A c \in late' : Denied(c)'
  BY <1>4, <1>a, <1>b DEF Empty, TypeOK, TableStates, DeniesAclProtos, Denied
<1>5. ASSUME ClearAcl \/ DefaultPipeline PROVE AclInv'
  <2>1. kw.sut \in Suts
    BY <1>5, <1>a DEF ClearAcl, DefaultPipeline, In, TypeOK, Keywords, Suts
  <2>2. CASE ClearAcl
    <3>1. kw' \in Keywords
      BY <2>2, <1>a DEF ClearAcl, In, NextPos, TypeOK, Keywords
    <3> QED
      BY <3>1, <2>1, <2>2, <1>4, <1>a, DisturbInv DEF ClearAcl, TypeOK
  <2>3. CASE DefaultPipeline
    <3>1. kw' \in Keywords
      BY <2>3, <1>c DEF DefaultPipeline, In
    <3>2. overlay' \in [Suts -> BOOLEAN]
      BY <2>3, <1>a DEF DefaultPipeline, TypeOK
    <3> QED
      BY <3>1, <3>2, <2>1, <2>3, <1>4, <1>a, DisturbInv DEF DefaultPipeline, TypeOK
  <2> QED
    BY <1>5, <2>2, <2>3
<1>6. CASE WriteAcl
  <2>1. kw' \in Keywords /\ table' \in [Suts -> TableStates]
    BY <1>6, <1>a, <1>c DEF WriteAcl, In, TypeOK, TableStates, Keywords
  <2>2. DeniesAclProtos' /\ \A c \in late' : Denied(c)'
    BY <1>6, <1>a, <1>b DEF WriteAcl, TypeOK, Keywords, DeniesAclProtos, Denied
  <2> QED
    BY <2>1, <2>2, <1>6, <1>a, DisturbInv DEF WriteAcl, TypeOK
<1>7. CASE OverlayFlows
  <2>1. kw' \in Keywords /\ overlay' \in [Suts -> BOOLEAN]
    BY <1>7, <1>a, <1>c DEF OverlayFlows, In, TypeOK
  <2>2. DeniesAclProtos' /\ \A c \in late' : Denied(c)'
    BY <1>7, <1>a, <1>b DEF OverlayFlows, DeniesAclProtos, Denied
  <2> QED
    BY <2>1, <2>2, <1>7, <1>a, DisturbInv DEF OverlayFlows, TypeOK
<1>8. CASE EndLoop \/ Abort
  <2>1. kw' \in Keywords
    <3>1. kw \in Keywords /\ 1 \in 1..(NSuts + 1) /\ 1 \in 1..2
      BY <1>a DEF TypeOK
    <3>2. Idle \in Keywords
      BY <3>1 DEF Idle, Keywords
    <3>3. [kw EXCEPT !.loop = "overlay", !.sut = 1] \in Keywords
      BY <3>1 DEF Keywords
    <3> QED
      BY <1>8, <3>2, <3>3 DEF EndLoop, Abort
  <2>2. DeniesAclProtos' /\ \A c \in late' : Denied(c)'
    BY <1>8, <1>a, <1>b DEF EndLoop, Abort, DeniesAclProtos, Denied
  <2> QED
    BY <2>1, <2>2, <1>8, <1>a, DisturbInv DEF EndLoop, Abort, TypeOK
<1> QED
  BY <1>1, <1>2, <1>3, <1>5, <1>6, <1>7, <1>8

\* The zone of a packet has flows on every port that it can come in at, once the SUT's
\* INPUT table loads VNIs.
LEMMA ZoneCovered ==
  ASSUME NEW c \in Conns, NEW from \in {c.orig, c.resp},
         NEW s \in {SutOf(from), SutOf(Peer(c, from))}, overlay[s]
  PROVE  Zone(s, from) \in PortZones(s, from)
<1>1. CASE SutOf(from) = s
  BY <1>1 DEF Zone, PortZones
<1>2. CASE SutOf(from) # s
  <2>1. SutOf(Peer(c, from)) = s /\ Peer(c, from) \in Eps /\ Vni[Peer(c, from)] = Vni[from]
    BY <1>2, Ends DEF Peer
  <2> QED
    BY <1>2, <2>1 DEF Zone, PortZones
<1> QED
  BY <1>1, <1>2

\* What a packet does to a tracker: it adds an entry of its sender's or marks entries of
\* the other side's established, and an originator's packet leaves a way back.
LEMMA CommittedLemma ==
  ASSUME TypeOK, SentBySides, NEW c \in Conns, NEW from \in {c.orig, c.resp}, NEW s \in Suts,
         NEW new, new = Committed(s, c, from)
  PROVE  /\ new \subseteq CtEntries
         /\ \A e \in ct[s] : \E f \in new : /\ f.c = e.c /\ f.zone = e.zone /\ f.from = e.from
                                            /\ e.est => f.est
         /\ \A f \in new : \/ f \in ct[s]
                           \/ f.c = c /\ f.from = from /\ ~f.est
                           \/ \E e \in ct[s] : /\ e.c = c /\ f.c = c
                                               /\ e.from # from /\ f.from = e.from
         /\ table[s] # "open" /\ c.proto # "arp" /\ from = c.orig =>
              \E f \in new : /\ f.c = c /\ f.zone = Zone(s, c.orig)
                             /\ f.from = c.orig \/ f.est
<1> DEFINE added == [c |-> c, zone |-> Zone(s, from), from |-> from, est |-> FALSE]
           Marked(e) == IF e \in Entries(s, c, from) /\ e.from # from
                        THEN [e EXCEPT !.est = TRUE] ELSE e
<1>1. ct[s] \subseteq CtEntries /\ from \in Eps /\ Zone(s, from) \in Nat
  BY Ends DEF TypeOK, Zone
<1>2. added \in CtEntries
  BY <1>1 DEF CtEntries
<1>3. \A e \in ct[s] : /\ Marked(e) \in CtEntries
                       /\ Marked(e).c = e.c /\ Marked(e).zone = e.zone /\ Marked(e).from = e.from
                       /\ e.est => Marked(e).est
  BY <1>1 DEF CtEntries
<1>4. \/ new = ct[s] /\ (table[s] = "open" \/ c.proto = "arp")
      \/ new = ct[s] \cup {added}
      \/ new = {Marked(e) : e \in ct[s]} /\ Entries(s, c, from) # {}
  BY DEF Committed
<1>5. added.c = c /\ added.zone = Zone(s, from) /\ added.from = from /\ ~added.est
  OBVIOUS
<1>6. new \subseteq CtEntries
  BY <1>1, <1>2, <1>3, <1>4
<1>7. \A e \in ct[s] : e \in new \/ Marked(e) \in new
  BY <1>4
<1>8. \A f \in new : f \in ct[s] \/ f = added \/ (\E e \in ct[s] : f = Marked(e))
  BY <1>4
<1>9. \A e \in ct[s] : Marked(e) # e => e.c = c /\ e.from # from
  BY DEF Entries
<1>10. ASSUME table[s] # "open", c.proto # "arp", from = c.orig
       PROVE  \E f \in new : f.c = c /\ f.zone = Zone(s, c.orig) /\ (f.from = c.orig \/ f.est)
  <2>1. CASE new = ct[s] \cup {added}
    BY <2>1, <1>5, <1>10
  <2>2. CASE new = {Marked(e) : e \in ct[s]} /\ Entries(s, c, from) # {}
    <3>1. PICK e \in ct[s] : e.c = c /\ e.zone = Zone(s, from) /\ e \in Entries(s, c, from)
      BY <2>2 DEF Entries
    <3>2. e.from # from => Marked(e).est
      BY <3>1, <1>1 DEF CtEntries
    <3>3. Marked(e) \in new
      BY <2>2
    <3> QED
      BY <3>1, <3>2, <3>3, <1>3, <1>10
  <2> QED
    BY <2>1, <2>2, <1>4, <1>10
<1> HIDE DEF added, Marked
<1>11. \A e \in ct[s] : \E f \in new : /\ f.c = e.c /\ f.zone = e.zone /\ f.from = e.from
                                       /\ e.est => f.est
  BY <1>3, <1>7, Zenon
<1>12. \A f \in new : \/ f \in ct[s]
                      \/ f.c = c /\ f.from = from /\ ~f.est
                      \/ \E e \in ct[s] : /\ e.c = c /\ f.c = c
                                          /\ e.from # from /\ f.from = e.from
  <2> SUFFICES ASSUME NEW f \in new
               PROVE  \/ f \in ct[s]
                      \/ f.c = c /\ f.from = from /\ ~f.est
                      \/ \E e \in ct[s] : /\ e.c = c /\ f.c = c
                                          /\ e.from # from /\ f.from = e.from
    OBVIOUS
  <2>1. ASSUME NEW e \in ct[s], f = Marked(e), f # e
        PROVE  e.c = c /\ f.c = c /\ e.from # from /\ f.from = e.from
    BY <2>1, <1>3, <1>9
  <2> QED
    BY <2>1, <1>5, <1>8, Zenon
<1> QED
  BY <1>6, <1>10, <1>11, <1>12, Zenon

\* A way back stays open as long as only packets pass.
LEMMA WayBackStays ==
  ASSUME NEW t \in Suts, NEW d \in Conns, PassesAnswer(t, d), UNCHANGED <<table, overlay>>,
         \A e \in ct[t] : \E f \in ct'[t] : /\ f.c = e.c /\ f.zone = e.zone /\ f.from = e.from
                                            /\ e.est => f.est
  PROVE  PassesAnswer(t, d)'
<1>1. Zone(t, d.orig)' = Zone(t, d.orig)
  BY DEF Zone
<1>2. ASSUME NEW e \in ct[t], e.c = d, e.zone = Zone(t, d.orig), e.from = d.orig \/ e.est
      PROVE  \E f \in ct'[t] : f.c = d /\ f.zone = Zone(t, d.orig) /\ (f.from = d.orig \/ f.est)
  BY <1>2
<1>3. Tracked(table[t])' = Tracked(table[t]) /\ table'[t] = table[t]
  BY DEF Tracked
<1> QED
  BY <1>1, <1>2, <1>3, Zenon DEF PassesAnswer

\* A packet that passes one SUT preserves the invariant.
LEMMA PassInv ==
  ASSUME AclInv, NEW c \in Conns, NEW from \in {c.orig, c.resp},
         NEW s \in {SutOf(from), SutOf(Peer(c, from))}, NEW u \in BOOLEAN,
         from = c.resp => c \in got,
         u /\ from = c.orig /\ s # SutOf(c.orig) => PassesAnswer(SutOf(c.orig), c),
         Pass(s, c, from, u),
         UNCHANGED <<table, deny, overlay, kw>>,
         born' = born \cup {c},
         late' = late \/ (c \notin born /\ Denied(c) /\ late' = late \cup {c})
  PROVE  AclInv'
<1>a. TypeOK /\ DeniesAclProtos /\ SentBySides /\ LateUntracked /\ WayBack
  BY DEF AclInv
<1>b. OthersDenied /\ AllowedPass /\ EstablishedAnswered
  BY DEF AclInv
<1>c. /\ s \in Suts /\ from \in Eps /\ Peer(c, from) \in Eps
      /\ s \in {SutOf(c.orig), SutOf(c.resp)}
      /\ from = c.orig => Peer(c, from) = c.resp
      /\ from = c.resp => Peer(c, from) = c.orig
  BY Ends DEF Peer
<1>1. PICK st \in States(s, c, from) :
        IF Dropped(s, c, from, st)
          THEN /\ wrong' = wrong \cup WrongDrop(s, c, from, st)
               /\ pkt' = {} /\ UNCHANGED <<ct, got, calm>>
          ELSE /\ ct' = [ct EXCEPT ![s] = Committed(s, c, from)]
               /\ UNCHANGED wrong
               /\ IF SutOf(Peer(c, from)) # s
                    THEN /\ pkt' = {[c |-> c, from |-> from, calm |-> u]}
                         /\ UNCHANGED <<got, calm>>
                    ELSE /\ pkt' = {}
                         /\ got' = IF from = c.orig THEN got \cup {c} ELSE got
                         /\ calm' = IF from = c.orig /\ u THEN calm \cup {c} ELSE calm
  BY DEF Pass
<1> DEFINE drop == Dropped(s, c, from, st)
<1> HIDE DEF drop
\* Nothing is dropped wrongly.
<1>2. wrong' = {}
  <2>1. CASE ~drop
    BY <2>1, <1>1, <1>b DEF AllowedPass, drop
  <2>2. CASE drop
    <3> DEFINE zoned == Zone(s, from) \in PortZones(s, from)
    <3>1. overlay[s] => zoned
      BY ZoneCovered
    <3> HIDE DEF zoned
    <3>2. ASSUME from = c.resp, c \in calm, table[s] # "none" => zoned PROVE FALSE
      <4>1. PassesAnswer(s, c)
        BY <3>2, <1>a, <1>c DEF WayBack
      <4>2. table[s] \notin {"none", "open"} /\ c.proto # "arp" /\ c.proto \in Tracked(table[s])
        BY <4>1, <2>2, <3>2 DEF drop, Dropped, PassesAnswer
      <4>3. PICK e \in ct[s] : e.c = c /\ e.zone = Zone(s, c.orig) /\ (e.from = c.orig \/ e.est)
        BY <4>1, <4>2 DEF PassesAnswer
      <4>4. Zone(s, c.orig) = Zone(s, from) /\ c.orig # from
        BY Ends, <3>2 DEF Zone
      <4>5. e \in Entries(s, c, from) /\ (e.from # from \/ e.est)
        BY <4>3, <4>4 DEF Entries
      <4>6. st = "est"
        BY <4>5 DEF States
      <4> QED
        BY <4>2, <4>6, <2>2, <3>2 DEF drop, Dropped, zoned
    <3>3. WrongDrop(s, c, from, st) = {}
      BY <3>1, <3>2 DEF WrongDrop, zoned
    <3> QED
      BY <3>3, <2>2, <1>1, <1>b DEF AllowedPass, drop
  <2> QED
    BY <2>1, <2>2
\* What becomes of the trackers.
<1>3. /\ ct' \in [Suts -> SUBSET CtEntries]
      /\ drop => ct' = ct
      /\ \A t \in Suts : t # s => ct'[t] = ct[t]
      /\ ~drop => ct'[s] = Committed(s, c, from)
  BY <1>1, <1>a, <1>c, CommittedLemma, SMTT(30) DEF TypeOK, drop
<1>4. \A t \in Suts : \A e \in ct[t] : \E f \in ct'[t] :
         f.c = e.c /\ f.zone = e.zone /\ f.from = e.from /\ (e.est => f.est)
  <2>1. ASSUME NEW t \in Suts, t # s \/ drop, NEW e \in ct[t] PROVE e \in ct'[t]
    BY <2>1, <1>3
  <2>2. CASE ~drop
    BY <2>1, <2>2, <1>3, <1>a, <1>c, CommittedLemma
  <2> QED
    BY <2>1, <2>2, Zenon
<1>5. \A t \in Suts : \A f \in ct'[t] :
         \/ f \in ct[t]
         \/ ~drop /\ t = s /\ f.c = c /\ f.from = from /\ ~f.est
         \/ ~drop /\ t = s /\ \E e \in ct[s] : e.c = c /\ f.c = c /\ e.from # from /\ f.from = e.from
  <2>1. ASSUME NEW t \in Suts, t # s \/ drop, NEW f \in ct'[t] PROVE f \in ct[t]
    BY <2>1, <1>3
  <2>2. CASE ~drop
    BY <2>1, <2>2, <1>3, <1>a, <1>c, CommittedLemma
  <2> QED
    BY <2>1, <2>2, Zenon
\* A connection begun against the ACL is dropped at its responder's SUT.
<1>6. ASSUME c \in late' PROVE /\ c \notin got /\ Denied(c)
                               /\ \A e \in ct[SutOf(c.resp)] : e.c # c
                               /\ s = SutOf(c.resp) => drop
  <2>1. c \notin got /\ Denied(c) /\ \A e \in ct[SutOf(c.resp)] : e.c # c
    <3>1. CASE c \in late
      BY <3>1, <1>a, <1>b DEF LateUntracked, OthersDenied
    <3>2. CASE c \notin born /\ Denied(c)
      BY <3>2, <1>a, Ends DEF TypeOK, SentBySides
    <3> QED
      BY <1>6, <3>1, <3>2
  <2>2. ASSUME s = SutOf(c.resp) PROVE drop
    <3>1. from = c.orig /\ Peer(c, from) = c.resp
      BY <2>1, <1>c
    <3>2. <<Peer(c, from), c.proto>> \in deny[s] /\ table[s] # "open"
      BY <2>1, <2>2, <3>1 DEF Denied
    <3>3. c.proto \in AclProtos /\ c.proto # "arp"
      BY <3>2, <1>a, <1>c, AclAssumption DEF DeniesAclProtos
    <3>4. Entries(s, c, from) = {}
      BY <2>1, <2>2 DEF Entries
    <3>5. st \in {"new", "inv"}
      BY <3>4 DEF States
    <3> QED
      BY <3>2, <3>3, <3>5 DEF drop, Dropped
  <2> QED
    BY <2>1, <2>2
<1>7. /\ got \subseteq got' /\ got' \subseteq got \cup {c}
      /\ got' # got => ~drop /\ from = c.orig /\ s = SutOf(c.resp)
  BY <1>1, <1>c DEF drop
<1>8. /\ calm' \subseteq calm \cup {c}
      /\ calm' # calm => ~drop /\ u /\ from = c.orig /\ s = SutOf(c.resp) /\ c \in got'
  BY <1>1, <1>c DEF drop
<1>9. \A p \in pkt' : /\ p = [c |-> c, from |-> from, calm |-> u]
                      /\ ~drop /\ SutOf(Peer(c, from)) # s
  BY <1>1 DEF drop
<1>10. TypeOK'
  <2>1. pkt' \subseteq Packets
    BY <1>9, <1>c DEF Packets
  <2>2. born' \subseteq Conns /\ late' \subseteq born' /\ got' \subseteq born' /\ calm' \subseteq got'
    BY <1>7, <1>8, <1>a DEF TypeOK
  <2> QED
    BY <2>1, <2>2, <1>3, <1>a DEF TypeOK
<1>11. SentBySides'
  <2>1. ASSUME NEW t \in Suts, NEW f \in ct'[t] PROVE f.c \in born' /\ f.from \in {f.c.orig, f.c.resp}
    BY <2>1, <1>5, <1>a, <1>c DEF SentBySides
  <2>2. ASSUME NEW p \in pkt' PROVE /\ p.c \in born' /\ p.from \in {p.c.orig, p.c.resp}
                                    /\ p.from = p.c.resp => p.c \in got'
    BY <2>2, <1>7, <1>9
  <2> QED
    BY <2>1, <2>2 DEF SentBySides
<1>12. LateUntracked'
  <2> SUFFICES ASSUME NEW d \in late'
               PROVE  Denied(d)' /\ \A f \in ct'[SutOf(d.resp)] : f.c # d
    BY DEF LateUntracked
  <2>1. d \in Conns /\ SutOf(d.resp) \in Suts
    BY <1>10, Ends DEF TypeOK
  <2>2. Denied(d) /\ \A e \in ct[SutOf(d.resp)] : e.c # d
    BY <1>6, <1>a DEF LateUntracked
  <2>3. Denied(d)'
    BY <2>2 DEF Denied
  <2>4. \A f \in ct'[SutOf(d.resp)] : f.c # d
    BY <2>1, <2>2, <1>5, <1>6
  <2> QED
    BY <2>3, <2>4
<1>13. OthersDenied'
  BY <1>6, <1>7, <1>b DEF OthersDenied
<1>14. EstablishedAnswered'
  <2> SUFFICES ASSUME NEW t \in Suts, NEW f \in ct'[t], f.est \/ f.from = f.c.resp
               PROVE  f.c \in got'
    BY DEF EstablishedAnswered
  <2>1. CASE f \in ct[t]
    BY <2>1, <1>7, <1>b DEF EstablishedAnswered
  <2>2. CASE f.c = c /\ f.from = from /\ ~f.est
    BY <2>2, <1>7
  <2>3. ASSUME NEW e \in ct[s], e.c = c, f.c = c, e.from # from PROVE c \in got'
    <3>1. CASE from = c.resp
      BY <3>1, <1>7
    <3>2. CASE from = c.orig
      <4>1. e.from = e.c.resp
        BY <2>3, <3>2, <1>a, <1>c DEF SentBySides
      <4> QED
        BY <4>1, <2>3, <1>7, <1>b, <1>c DEF EstablishedAnswered
    <3> QED
      BY <3>1, <3>2
  <2> QED
    BY <2>1, <2>2, <2>3, <1>5
<1>15. WayBack'
  <2>1. ASSUME NEW t \in Suts, NEW d \in Conns, PassesAnswer(t, d) PROVE PassesAnswer(t, d)'
    BY <2>1, <1>4, WayBackStays
  <2>2. ASSUME ~drop, from = c.orig PROVE PassesAnswer(s, c)'
    <3>1. table[s] # "none"
      BY <2>2 DEF drop, Dropped
    <3>2. CASE table[s] = "open" \/ c.proto = "arp"
      BY <3>1, <3>2 DEF PassesAnswer
    <3>3. CASE table[s] # "open" /\ c.proto # "arp"
      <4>1. c.proto \in Tracked(table[s])
        BY <2>2, <3>1, <3>3 DEF drop, Dropped
      <4>2. \E f \in ct'[s] : f.c = c /\ f.zone = Zone(s, c.orig) /\ (f.from = c.orig \/ f.est)
        BY <2>2, <3>3, <1>3, <1>a, <1>c, CommittedLemma
      <4>3. Zone(s, c.orig)' = Zone(s, c.orig) /\ Tracked(table[s])' = Tracked(table[s])
        BY DEF Zone, Tracked
      <4> QED
        BY <3>1, <4>1, <4>2, <4>3, Zenon DEF PassesAnswer
    <3> QED
      BY <3>2, <3>3
  <2>3. ASSUME NEW d \in calm' PROVE PassesAnswer(SutOf(d.orig), d)' /\ PassesAnswer(SutOf(d.resp), d)'
    <3>1. CASE d \in calm
      BY <3>1, <2>1, <1>a, Ends DEF TypeOK, WayBack
    <3>2. CASE d \notin calm
      <4>1. d = c /\ ~drop /\ u /\ from = c.orig /\ s = SutOf(c.resp)
        BY <3>2, <1>8
      <4>2. PassesAnswer(s, c)'
        BY <4>1, <2>2
      <4>3. PassesAnswer(SutOf(c.orig), c)'
        BY <4>1, <4>2, <2>1, Ends
      <4> QED
        BY <4>1, <4>2, <4>3
    <3> QED
      BY <3>1, <3>2
  <2>4. ASSUME NEW p \in pkt', p.from = p.c.orig PROVE PassesAnswer(SutOf(p.c.orig), p.c)'
    <3>1. p.c = c /\ p.from = from
      BY <1>9
    <3>2. ~drop /\ from = c.orig /\ s = SutOf(c.orig)
      BY <2>4, <3>1, <1>9, <1>c
    <3> QED
      BY <3>1, <3>2, <2>2
  <2> QED
    BY <2>3, <2>4, Zenon DEF WayBack
<1> QED
  BY <1>2, <1>a, <1>10, <1>11, <1>12, <1>13, <1>14, <1>15 DEF AclInv, AllowedPass, DeniesAclProtos

\* AclInv is inductive.
THEOREM Inductive == Spec => []AclInv
<1>1. AclInv /\ [Next]_vars => AclInv'
  <2> SUFFICES ASSUME AclInv, [Next]_vars PROVE AclInv'
    OBVIOUS
  <2>a. TypeOK /\ SentBySides /\ WayBack
    BY DEF AclInv
  <2>1. CASE UNCHANGED vars
    BY <2>1 DEF vars, AclInv, TypeOK, DeniesAclProtos, SentBySides, LateUntracked, Denied,
                WayBack, PassesAnswer, Zone, OthersDenied, AllowedPass, EstablishedAnswered
  <2>2. ASSUME NEW c \in Conns, Send(c, c.orig) \/ Send(c, c.resp) PROVE AclInv'
    <3>1. PICK from \in {c.orig, c.resp} : Send(c, from)
      BY <2>2
    <3>2. from = c.resp => c \in got
      BY <3>1, Ends DEF Send
    <3>3. from = c.orig => ~(SutOf(from) # SutOf(c.orig))
      OBVIOUS
    <3>4. late' = late \/ (c \notin born /\ Denied(c) /\ late' = late \cup {c})
      BY <3>1 DEF Send
    <3> QED
      BY <3>1, <3>2, <3>3, <3>4, PassInv DEF Send
  <2>3. ASSUME NEW p \in pkt, Arrive(p) PROVE AclInv'
    <3>1. p.c \in Conns
      BY <2>a DEF TypeOK, Packets
    <3>a. PICK u \in BOOLEAN : u = p.calm
      BY <2>a DEF TypeOK, Packets
    <3>2. /\ p.from \in {p.c.orig, p.c.resp}
          /\ p.from = p.c.resp => p.c \in got
          /\ born' = born \cup {p.c}
      BY <2>3, <2>a DEF SentBySides, Arrive
    <3>3. u /\ p.from = p.c.orig => PassesAnswer(SutOf(p.c.orig), p.c)
      BY <2>a, <3>a, Zenon DEF WayBack
    <3>4. /\ Pass(SutOf(Peer(p.c, p.from)), p.c, p.from, u)
          /\ UNCHANGED <<table, deny, overlay, kw, late>>
      BY <2>3, <3>a DEF Arrive
    <3>5. SutOf(Peer(p.c, p.from)) \in {SutOf(p.from), SutOf(Peer(p.c, p.from))}
      OBVIOUS
    <3> QED
      BY <3>1, <3>2, <3>3, <3>4, <3>5, PassInv
  <2> QED
    BY <2>1, <2>2, <2>3, KeywordInv DEF Next
<1> QED
  BY <1>1, InitInv, PTL DEF Spec

\* The model is well typed for every number of SUTs, endpoints and connections.
THEOREM Typed == Spec => []TypeOK
  BY Inductive, PTL DEF AclInv

\* A connection begun while acl_setup_allow_originate was in force against it never gets
\* a packet through to its responder (conntrack.py:126-154).
THEOREM DeniedStaysDenied == Spec => []OthersDenied
  BY Inductive, PTL DEF AclInv

\* Answers to packets that came through pass both tables, and no packet is dropped for
\* its zone (conntrack.py:34-77, 108-121).
THEOREM AllowedAlwaysPasses == Spec => []AllowedPass
  BY Inductive, PTL DEF AclInv

\* No tracker takes an unanswered connection for an answered one.
THEOREM EstablishedIsAnswered == Spec => []EstablishedAnswered
  BY Inductive, PTL DEF AclInv

===============================================================================
