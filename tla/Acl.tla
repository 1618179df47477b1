----------------------------------- MODULE Acl -----------------------------------
(*****************************************************************************)
(* The conntrack-based ACL (conntrack.py): table ACL of each SUT, the        *)
(* connections that Open vSwitch tracks, and packets that pass one SUT's     *)
(* table or two while keywords rewrite them.                                 *)
(*                                                                           *)
(* An endpoint is <<SUT, VIF>>; a connection has an originator, a responder  *)
(* and a protocol (the IPv4 and IPv6 flows of a protocol go together).  The  *)
(* connection tracker is external.  One packet is under way at a time.       *)
(*****************************************************************************)
EXTENDS Naturals, FiniteSets

CONSTANTS
  NSuts,  \* suts are 1 .. NSuts
  Eps,    \* endpoints
  Conns,  \* connections that the VMs may open, each within a VNI
  Vni,    \* the VNI of each endpoint's VIF
  Seps,      \* source endpoints that acl_setup_allow_originate is called for
  AclProtos, \* protocols that the ACL keywords are called with
  MaxConns,  \* bound: connections that the VMs open
  MaxEvents  \* bound: keywords called and entries timed out

Suts == 1..NSuts
Protos == {"icmp", "tcp", "udp", "arp"}
SutOf(e) == e[1]

ASSUME AclAssumption ==
  /\ NSuts \in Nat /\ MaxEvents \in Nat /\ MaxConns \in Nat
  /\ Eps \subseteq Suts \X Nat
  /\ Conns \subseteq [orig : Eps, resp : Eps, proto : Protos, id : Nat]
  /\ Seps \subseteq Eps /\ AclProtos \subseteq {"icmp", "tcp", "udp"}
  /\ Vni \in [Eps -> Nat]
  /\ \A c \in Conns : c.orig # c.resp /\ Vni[c.orig] = Vni[c.resp]

VARIABLES
  table,    \* ACL of each SUT: "none", "open" or the protocol it tracks
  deny,     \* ACL of each SUT: the new connections it drops, by address and protocol
  overlay,  \* INPUT of each SUT loads the VNI into reg0
  ct,       \* connection tracker of each SUT
  kw,       \* the keyword in progress: loop, SUT, position and protocol
  pkt,      \* the packet on its way to a second SUT, if there is one
  born,     \* connections of which a packet was sent
  late,     \* connections begun while their responder's SUT denied them, as it still does
  got,      \* connections of which the responder received a packet
  calm,     \* connections whose responder received a packet, nothing else having happened since
  wrong,    \* the ways in which a packet was dropped that should have passed
  events    \* keywords called and entries timed out so far

vars == <<table, deny, overlay, ct, kw, pkt, born, late, got, calm, wrong, events>>

Peer(c, from) == IF from = c.orig THEN c.resp ELSE c.orig
Idle == [loop |-> "idle", sut |-> 1, pos |-> 1, proto |-> "none"]

Init ==
  /\ table = [s \in Suts |-> "none"]
  /\ deny = [s \in Suts |-> {}]
  /\ overlay = [s \in Suts |-> FALSE]
  /\ ct = [s \in Suts |-> {}]
  /\ kw = Idle
  /\ pkt = {}
  /\ born = {} /\ late = {} /\ got = {} /\ calm = {}
  /\ wrong = {}
  /\ events = 0

-------------------------------------------------------------------------------
(* A packet in table ACL. *)

\* _generate_flow_track_proto: the protocols that have flows.
Tracked(proto) == IF proto = "udp" THEN {"tcp", "udp"} ELSE {proto}

\* Mutant: the zone of the last VNI's flow, not the packet's, on ports with many VNIs.
ZoneOfLastVni(s, from) ==
  IF ~overlay[s] THEN 0
  ELSE IF SutOf(from) = s THEN Vni[from]
  ELSE Vni[CHOOSE e \in Eps : \A x \in Eps : Vni[e] >= Vni[x]]

\* reg0[0..15], the zone that the packet is tracked in.
Zone(s, from) == IF overlay[s] THEN Vni[from] ELSE 0

Entries(s, c, from) == {e \in ct[s] : e.c = c /\ e.zone = Zone(s, from)}

\* ct_state after the ct action (external): replies and packets of a connection that
\* was replied to are established; without an entry, a packet that does not begin
\* its connection may be invalid instead of new.
States(s, c, from) ==
  IF Entries(s, c, from) = {}
    THEN IF c \in born THEN {"new", "inv"} ELSE {"new"}
    ELSE IF \E e \in Entries(s, c, from) : e.from # from \/ e.est THEN {"est"} ELSE {"new"}

\* The zones with flows for the port: a VIF's own VNI, and on the tunnel ports and
\* uplinks the VNIs of all VIFs of the bridge (VNI 0 is the bridge's own port's).
PortZones(s, from) ==
  IF SutOf(from) = s THEN {Vni[from]} ELSE {0} \cup {Vni[e] : e \in {e \in Eps : SutOf(e) = s}}

\* Mutant: only invalid packets to the source endpoint are dropped.
DroppedInvOnly(s, c, from, st) ==
  \/ table[s] = "none"
  \/ /\ table[s] # "open" /\ c.proto # "arp"
     /\ \/ c.proto \notin Tracked(table[s])
        \/ st = "inv"
        \/ Zone(s, from) \notin PortZones(s, from)

\* The flow that matches drops the packet, or no flow does.
Dropped(s, c, from, st) ==
  \/ table[s] = "none"
  \/ /\ table[s] # "open" /\ c.proto # "arp"
     /\ \/ c.proto \notin Tracked(table[s])
        \/ st \in {"new", "inv"} /\ <<Peer(c, from), c.proto>> \in deny[s]
        \/ st = "inv"
        \/ Zone(s, from) \notin PortZones(s, from)

\* Mutant: the reply flow matches before the originator's flow has committed.
CommittedEst(s, c, from) ==
  ct[s] \cup {[c |-> c, zone |-> Zone(s, from), from |-> from, est |-> TRUE]}

\* The entries after a packet that was passed: committed if it was new, established
\* once the other side has answered.
Committed(s, c, from) ==
  IF table[s] = "open" \/ c.proto = "arp" THEN ct[s]
  ELSE IF Entries(s, c, from) = {}
    THEN ct[s] \cup {[c |-> c, zone |-> Zone(s, from), from |-> from, est |-> FALSE]}
    ELSE {IF e \in Entries(s, c, from) /\ e.from # from THEN [e EXCEPT !.est = TRUE] ELSE e :
            e \in ct[s]}

\* What is wrong with dropping a packet: it answers one that came through just now,
\* or only its zone has no flow.  When VNIs are assigned and no overlay is deployed,
\* no flow of a VIF matches its packets, and that is not counted.
WrongDrop(s, c, from, st) ==
  LET zoned == Zone(s, from) \in PortZones(s, from)
  IN  IF table[s] # "none" /\ ~overlay[s] /\ ~zoned THEN {}
      ELSE (IF from = c.resp /\ c \in calm THEN {"reply"} ELSE {})
           \cup (IF /\ table[s] # "none" /\ c.proto \in Tracked(table[s]) /\ ~zoned
                    /\ ~(st \in {"new", "inv"} /\ <<Peer(c, from), c.proto>> \in deny[s])
                 THEN {"zone"} ELSE {})

\* acl_setup_allow_originate is in force against connection c.
Denied(c) == table[SutOf(c.resp)] # "open" /\ <<c.resp, c.proto>> \in deny[SutOf(c.resp)]

\* Packet of c from an endpoint at SUT s: to the peer, to the peer's SUT, or dropped.
Pass(s, c, from, undisturbed) ==
  \E st \in States(s, c, from) :
    IF Dropped(s, c, from, st)
      THEN /\ wrong' = wrong \cup WrongDrop(s, c, from, st)
           /\ pkt' = {}
           /\ UNCHANGED <<ct, got, calm>>
      ELSE /\ ct' = [ct EXCEPT ![s] = Committed(s, c, from)]
           /\ UNCHANGED wrong
           /\ IF SutOf(Peer(c, from)) # s
                THEN /\ pkt' = {[c |-> c, from |-> from, calm |-> undisturbed]}
                     /\ UNCHANGED <<got, calm>>
                ELSE /\ pkt' = {}
                     /\ got' = IF from = c.orig THEN got \cup {c} ELSE got
                     /\ calm' = IF from = c.orig /\ undisturbed THEN calm \cup {c} ELSE calm

\* A VM sends a packet of a connection, the responder only once it has received one.
Send(c, from) ==
  /\ pkt = {}
  /\ from = c.orig \/ c \in got
  /\ c \in born \/ Cardinality(born) < MaxConns
  /\ Pass(SutOf(from), c, from, TRUE)
  /\ born' = born \cup {c}
  /\ late' = IF c \notin born /\ Denied(c) THEN late \cup {c} ELSE late
  /\ UNCHANGED <<table, deny, overlay, kw, events>>

Arrive(p) ==
  /\ Pass(SutOf(Peer(p.c, p.from)), p.c, p.from, p.calm)
  /\ UNCHANGED <<table, deny, overlay, kw, born, late, events>>

\* Something else than a packet of the VMs happens.
Disturb ==
  /\ calm' = {}
  /\ pkt' = {[p EXCEPT !.calm = FALSE] : p \in pkt}
  /\ UNCHANGED <<born, got, wrong>>

Event == events < MaxEvents /\ events' = events + 1

\* The tracker drops an entry that has timed out.
Expire(s, e) ==
  /\ ct' = [ct EXCEPT ![s] = @ \ {e}]
  /\ Event /\ Disturb
  /\ UNCHANGED <<table, deny, overlay, kw, late>>

-------------------------------------------------------------------------------
(* The keywords. *)

In(loop, pos) == kw.loop = loop /\ kw.sut <= NSuts /\ kw.pos = pos
NextPos == kw' = [kw EXCEPT !.pos = @ + 1]
NextSut == kw' = [kw EXCEPT !.sut = @ + 1, !.pos = 1]

\* Table ACL of a SUT is emptied, the flows of acl_setup_allow_originate included.
Empty(s, t) ==
  /\ table' = [table EXCEPT ![s] = t]
  /\ deny' = [deny EXCEPT ![s] = {}]
  /\ late' = {c \in late : SutOf(c.resp) # s}

Begin(loop, proto) ==
  /\ kw.loop = "idle"
  /\ kw' = [loop |-> loop, sut |-> 1, pos |-> 1, proto |-> proto]
  /\ Event /\ Disturb
  /\ UNCHANGED <<table, deny, overlay, ct, late>>

\* acl_setup_allow_proto_on_all_suts: del-flows of the table, then its flows.
ClearAcl ==
  /\ In("acl", 1)
  /\ Empty(kw.sut, "none")
  /\ NextPos
  /\ Disturb /\ UNCHANGED events
  /\ UNCHANGED <<overlay, ct>>

WriteAcl ==
  /\ In("acl", 2)
  /\ table' = [table EXCEPT ![kw.sut] = kw.proto]
  /\ NextSut
  /\ Disturb /\ UNCHANGED events
  /\ UNCHANGED <<deny, overlay, ct, late>>

\* acl_setup_allow_originate: flows on the source endpoint's SUT only.
AllowOriginate(proto, sep) ==
  /\ kw.loop = "idle"
  /\ deny' = [deny EXCEPT ![SutOf(sep)] = @ \cup {<<sep, proto>>}]
  /\ Event /\ Disturb
  /\ UNCHANGED <<table, overlay, ct, kw, late>>

\* setup_default_pipeline_on_all_suts, alone or in the deployment of an overlay, whose
\* own flows follow: ACL is open again.
DefaultPipeline ==
  /\ In("native", 1) \/ In("deploy", 1)
  /\ Empty(kw.sut, "open")
  /\ overlay' = [overlay EXCEPT ![kw.sut] = FALSE]
  /\ NextSut
  /\ Disturb /\ UNCHANGED events
  /\ UNCHANGED <<ct>>

OverlayFlows ==
  /\ In("overlay", 1)
  /\ overlay' = [overlay EXCEPT ![kw.sut] = TRUE]
  /\ NextSut
  /\ Disturb /\ UNCHANGED events
  /\ UNCHANGED <<table, deny, ct, late>>

EndLoop ==
  /\ kw.loop # "idle" /\ kw.sut > NSuts
  /\ kw' = IF kw.loop = "deploy" THEN [kw EXCEPT !.loop = "overlay", !.sut = 1] ELSE Idle
  /\ Disturb /\ UNCHANGED events
  /\ UNCHANGED <<table, deny, overlay, ct, late>>

\* A command fails: the keyword ends where it stands.
Abort ==
  /\ kw.loop # "idle"
  /\ kw' = Idle
  /\ Disturb /\ UNCHANGED events
  /\ UNCHANGED <<table, deny, overlay, ct, late>>

Next ==
  \/ \E c \in Conns : Send(c, c.orig) \/ Send(c, c.resp)
  \/ \E p \in pkt : Arrive(p)
  \/ \E s \in Suts : \E e \in ct[s] : Expire(s, e)
  \/ \E loop \in {"native", "deploy"} : Begin(loop, "none")
  \/ \E proto \in AclProtos : Begin("acl", proto)
  \/ \E proto \in AclProtos, sep \in Seps : AllowOriginate(proto, sep)
  \/ ClearAcl \/ WriteAcl \/ DefaultPipeline \/ OverlayFlows \/ EndLoop \/ Abort

Spec == Init /\ [][Next]_vars

-------------------------------------------------------------------------------
(* Properties. *)

CtEntries == [c : Conns, zone : Nat, from : Eps, est : BOOLEAN]
Packets == [c : Conns, from : Eps, calm : BOOLEAN]
TableStates == {"none", "open", "icmp", "tcp", "udp"}
Keywords == [loop : {"idle", "acl", "native", "deploy", "overlay"}, sut : 1..(NSuts + 1),
             pos : 1..2, proto : {"none", "icmp", "tcp", "udp"}]

\* Type correctness.
TypeOK ==
  /\ table \in [Suts -> TableStates]
  /\ deny \in [Suts -> SUBSET (Eps \X Protos)]
  /\ overlay \in [Suts -> BOOLEAN]
  /\ ct \in [Suts -> SUBSET CtEntries]
  /\ pkt \subseteq Packets
  /\ kw \in Keywords
  /\ born \subseteq Conns /\ late \subseteq born /\ got \subseteq born /\ calm \subseteq got

\* A connection that another endpoint begins to the source endpoint while
\* acl_setup_allow_originate is in force never gets a packet through, whatever the
\* trackers have committed on the way and whatever they forget, however the packets
\* and the keywords on other SUTs interleave (conntrack.py:126-154).
OthersDenied == late \cap got = {}

\* What is allowed passes.  When the responder has received a packet of a connection and
\* nothing but packets happened since, its answer comes through the tables of both SUTs,
\* also to an endpoint whose new connections are denied; and no packet of an allowed
\* protocol is dropped for the zone it is tracked in: the flows of every port cover the
\* zones that can come in there (conntrack.py:34-77, 108-121).
AllowedPass == wrong = {}

\* A tracked connection is established, or tracked as begun by its responder, only if
\* the responder has received a packet of it: the trackers of two SUTs never take an
\* unanswered connection for an answered one.
EstablishedAnswered ==
  \A s \in Suts : \A e \in ct[s] : e.est \/ e.from = e.c.resp => e.c \in got

-------------------------------------------------------------------------------
(* The inductive invariant from which AclProofs derives the properties. *)

\* Only acl_setup_allow_originate denies anything, and never ARP.
DeniesAclProtos == \A s \in Suts : deny[s] \subseteq Eps \X AclProtos

\* What is tracked or under way was sent by a side of its connection, the responder
\* only after it had received a packet.
SentBySides ==
  /\ \A s \in Suts : \A e \in ct[s] : e.c \in born /\ e.from \in {e.c.orig, e.c.resp}
  /\ \A p \in pkt : /\ p.c \in born /\ p.from \in {p.c.orig, p.c.resp}
                    /\ p.from = p.c.resp => p.c \in got

\* A connection begun against the ACL is still denied, and the responder's SUT does not
\* track it: whatever comes is new or invalid there.
LateUntracked ==
  \A c \in late : /\ Denied(c)
                  /\ \A e \in ct[SutOf(c.resp)] : e.c # c

\* SUT s lets the responder's packets of c pass: it does not track c, or has an entry
\* that makes them established.
PassesAnswer(s, c) ==
  /\ table[s] # "none"
  /\ \/ table[s] = "open" \/ c.proto = "arp"
     \/ /\ c.proto \in Tracked(table[s])
        /\ \E e \in ct[s] : e.c = c /\ e.zone = Zone(s, c.orig) /\ (e.from = c.orig \/ e.est)

\* The originator's packet has prepared the way back on every SUT that it has passed.
WayBack ==
  /\ \A c \in calm : PassesAnswer(SutOf(c.orig), c) /\ PassesAnswer(SutOf(c.resp), c)
  /\ \A p \in pkt : p.calm /\ p.from = p.c.orig => PassesAnswer(SutOf(p.c.orig), p.c)

AclInv ==
  /\ TypeOK /\ DeniesAclProtos /\ SentBySides /\ LateUntracked /\ WayBack
  /\ OthersDenied /\ AllowedPass /\ EstablishedAnswered

===============================================================================
