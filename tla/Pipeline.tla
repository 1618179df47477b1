-------------------------------- MODULE Pipeline --------------------------------
(*****************************************************************************)
(* The OpenFlow pipeline of a bridge (flowutils.py) and the overlays built   *)
(* on it (overlay.py), with the frames that the VMs send while the keywords  *)
(* write the tables.                                                         *)
(*                                                                           *)
(* The stages are ADMISS, INPUT, ACL, CORE, NAT, L2_MATCH (which asks FIB)   *)
(* and OUTPUT.  INPUT and OUTPUT are tables of flow records, generated as    *)
(* the code generates them; FIB holds what CORE learned; the other stages    *)
(* have one unconditional flow each and are one Boolean.  How Open vSwitch   *)
(* carries a frame through the tables, and the network between the SUTs, are *)
(* external.  One frame and its copies are under way at a time.              *)
(*****************************************************************************)
EXTENDS Integers, SequencesExt

CONSTANTS
  NSuts,     \* suts are 1 .. NSuts
  VifsOf,    \* VifsOf[s]: the VIFs of the VMs of SUT s in order, by their index on the host
  Kinds,     \* "int": a bridge for tunnels; "phy": a bridge with an uplink
  Modes,     \* the rip_mode, tun_id_mode and tnl_md that deploy is called with
  TunnelIds, \* ofp_ids_tunnel at first
  MaxAttach, \* bound: attachments of a SUT's VIFs
  MaxFrames  \* bound: frames that the VMs send

Suts == 1..NSuts

VARIABLES
  kind,      \* the kind of the bridge
  assigned,  \* the VIFs have VNIs by index, or all have VNI_NONE
  plugged,   \* the VIFs are ports of the bridge
  vifs,      \* br.vifs, as the ofps of the VIFs
  tnls,      \* br.tnl_ports
  ids,       \* br.ofp_ids_tunnel
  tables,    \* base, INPUT and OUTPUT of each SUT
  fib,       \* FIB of each SUT
  prog,      \* the deployment whose flows are complete on each SUT
  kw,        \* the keyword in progress: its loop, SUT, position and arguments
  frame,     \* the frame last sent, and what it met
  wire,      \* its copies between SUTs
  rcvd,      \* its copies received by each VIF, as the tags they carried
  sent       \* frames sent so far

ctl == <<kind, assigned, plugged, vifs, tnls, ids, tables, prog, kw>>
vars == <<ctl, fib, frame, wire, rcvd, sent>>

-------------------------------------------------------------------------------
(* Ports, VIFs and VNIs. *)

ANY == -1        \* a field that a flow does not match on
FLOW == -1       \* "flow" as remote_ip or key of a tunnel port
VNI_NONE == 0
OFP_LOCAL == 0
OFP_UPLINK_BASE == 1
OFP_VHOST_BASE == 10
Bcast == <<0, 0>>

Vifs == UNION {{s} \X Range(VifsOf[s]) : s \in Suts}
Ofp(v) == OFP_VHOST_BASE + v
VhostOfps(s) == [i \in DOMAIN VifsOf[s] |-> Ofp(VifsOf[s][i])]

\* Tunnel ports have numbers of their own (OFP_TUNNEL_BASE and above).
ASSUME PipelineAssumption ==
  /\ NSuts \in Nat \ {0} /\ MaxAttach \in Nat \ {0} /\ MaxFrames \in Nat
  /\ VifsOf \in [Suts -> Seq(Nat)]
  /\ TunnelIds \in Seq(Nat) /\ IsInjective(TunnelIds)
  /\ \A i \in DOMAIN TunnelIds : /\ TunnelIds[i] > OFP_VHOST_BASE
                                 /\ \A x \in Vifs : TunnelIds[i] # Ofp(x[2])
  /\ Kinds \subseteq {"int", "phy"}
  /\ Modes \subseteq [rip : {"flow", "non-flow"}, tid : {"flow", "non-flow"}, md : BOOLEAN]

\* set_vif_vni_by_idx_on_host, for the VIFs of a SUT's VMs; the tap keeps VNI_NONE.
Vni(ofp) == IF assigned /\ ofp # OFP_LOCAL THEN 300 + ofp - Ofp(1) ELSE VNI_NONE

Uplinks == IF kind = "phy" THEN <<OFP_UPLINK_BASE>> ELSE <<>>

\* "for x in seq": the flows of all of them, in order.
ForEach(seq, F(_)) == FlattenSeq([i \in DOMAIN seq |-> F(seq[i])])

\* br.vnis: its keys in the order of their first VIF, and the VIFs of each.
VniKeys(s) ==
  ForEach([i \in DOMAIN vifs[s] |-> i], LAMBDA i :
    IF \E j \in 1..(i - 1) : Vni(vifs[s][j]) = Vni(vifs[s][i]) THEN <<>> ELSE <<Vni(vifs[s][i])>>)

\* Mutant: br.vnis is refreshed without being emptied first.
LocalOfpsNotReset(s, vni) ==
  ForEach(vifs[s] \o vifs[s], LAMBDA p : IF Vni(p) = vni THEN <<p>> ELSE <<>>)

LocalOfps(s, vni) == ForEach(vifs[s], LAMBDA p : IF Vni(p) = vni THEN <<p>> ELSE <<>>)

\* The other SUTs.
Remotes(s) == ForEach([i \in Suts |-> i], LAMBDA r : IF r = s THEN <<>> ELSE <<r>>)

-------------------------------------------------------------------------------
(* Flows. *)

Act(op, arg) == [op |-> op, arg |-> arg]
Out(p) == <<Act("out", p)>>

\* A flow of INPUT: what it puts in reg0 (load a VNI, or move from the packet).
InFlow(in, set, vni) == [in |-> in, set |-> set, vni |-> vni]

\* A flow of OUTPUT.
OutFlow(prio, in, reg0, reg1, md, acts) ==
  [prio |-> prio, in |-> in, reg0 |-> reg0, reg1 |-> reg1, md |-> md, acts |-> acts]

\* _tnl_as: with remote_ip 'flow' tun_dst is set for every remote, then one output.
TnlAs(s, port, md) ==
  (IF port.rip = FLOW THEN ForEach(Remotes(s), LAMBDA r : <<Act("tun_dst", r)>>) ELSE <<>>)
  \o (IF port.vni = FLOW THEN <<Act("tun_id", 0)>> ELSE <<>>)
  \o (IF md THEN <<Act("md", 0)>> ELSE <<>>)
  \o Out(port.ofp)

\* _uplink_as: push the VLAN tag, or the inner tag and then the outer.
UplinkAs(deploy) ==
  IF deploy = "vlan" THEN <<Act("push_lo", 0)>> ELSE <<Act("push_lo", 0), Act("push_hi", 0)>>

\* Mutant: the tags are pushed before the local ports get their copies.
LocalFloodAsTaggedFirst(s, p, vni, deploy, md) ==
  (CASE deploy = "tnl" ->
          ForEach(tnls[s], LAMBDA t : IF t.vni \in {FLOW, vni} THEN TnlAs(s, t, md) ELSE <<>>)
     [] deploy \in {"vlan", "qinq"} -> UplinkAs(deploy) \o ForEach(Uplinks, Out)
     [] OTHER -> ForEach(Uplinks, Out))
  \o ForEach(LocalOfps(s, vni), LAMBDA q : IF q = p THEN <<>> ELSE Out(q))

\* Flooding of a frame that a VIF sent: the other VIFs, then the external ports.
LocalFloodAs(s, p, vni, deploy, md) ==
  ForEach(LocalOfps(s, vni), LAMBDA q : IF q = p THEN <<>> ELSE Out(q))
  \o CASE deploy = "tnl" ->
            ForEach(tnls[s], LAMBDA t : IF t.vni \in {FLOW, vni} THEN TnlAs(s, t, md) ELSE <<>>)
       [] deploy \in {"vlan", "qinq"} -> UplinkAs(deploy) \o ForEach(Uplinks, Out)
       [] OTHER -> ForEach(Uplinks, Out)

\* Mutant: the flooding flows of the tunnel ports do not match the VNI.
ExternalFloodAnyVni(s, vni, deploy, md) ==
  LET acts == ForEach(LocalOfps(s, vni), Out)
  IN  CASE deploy = "tnl" ->
             ForEach(tnls[s], LAMBDA t : <<OutFlow(100, t.ofp, ANY, 0, IF md THEN vni ELSE ANY, acts)>>)
        [] deploy \in {"vlan", "qinq"} ->
             ForEach(Uplinks, LAMBDA u : <<OutFlow(100, u, vni, 0, ANY, acts)>>)
        [] OTHER -> ForEach(Uplinks, LAMBDA u : <<OutFlow(100, u, ANY, 0, ANY, acts)>>)

\* Flooding of a frame from an external port: the VIFs of its VNI only.
ExternalFlood(s, vni, deploy, md) ==
  LET acts == ForEach(LocalOfps(s, vni), Out)
  IN  CASE deploy = "tnl" ->
             ForEach(tnls[s], LAMBDA t : <<OutFlow(100, t.ofp, vni, 0, IF md THEN vni ELSE ANY, acts)>>)
        [] deploy \in {"vlan", "qinq"} ->
             ForEach(Uplinks, LAMBDA u : <<OutFlow(100, u, vni, 0, ANY, acts)>>)
        [] OTHER -> ForEach(Uplinks, LAMBDA u : <<OutFlow(100, u, ANY, 0, ANY, acts)>>)

\* Mutant: the flooding flows of VIFs do not ask for reg1=0.
FloodingAlways(s, deploy, md) ==
  ForEach(VniKeys(s), LAMBDA n :
    ForEach(LocalOfps(s, n), LAMBDA p :
      <<OutFlow(100, p, ANY, ANY, ANY, LocalFloodAs(s, p, n, deploy, md))>>)
    \o ExternalFlood(s, n, deploy, md))

Flooding(s, deploy, md) ==
  ForEach(VniKeys(s), LAMBDA n :
    ForEach(LocalOfps(s, n), LAMBDA p :
      <<OutFlow(100, p, ANY, 0, ANY, LocalFloodAs(s, p, n, deploy, md))>>)
    \o ExternalFlood(s, n, deploy, md))

\* Mutant: no flows for the VIFs as known destinations.
UnicastExternalOnly(s, deploy, md) ==
  IF deploy = "tnl"
    THEN ForEach(tnls[s], LAMBDA t : <<OutFlow(20, ANY, ANY, t.ofp, ANY, TnlAs(s, t, md))>>)
    ELSE ForEach(Uplinks, LAMBDA u : <<OutFlow(20, ANY, ANY, u, ANY, Out(u))>>)

\* Output to a port that FIB knows: external ports, checks of the metadata, VIFs.
Unicast(s, deploy, md) ==
  (CASE deploy = "tnl" ->
          ForEach(tnls[s], LAMBDA t : <<OutFlow(20, ANY, ANY, t.ofp, ANY, TnlAs(s, t, md))>>)
     [] deploy \in {"vlan", "qinq"} ->
          ForEach(Uplinks, LAMBDA u : <<OutFlow(20, ANY, ANY, u, ANY, UplinkAs(deploy) \o Out(u))>>)
     [] OTHER -> ForEach(Uplinks, LAMBDA u : <<OutFlow(20, ANY, ANY, u, ANY, Out(u))>>))
  \o (IF md THEN ForEach(tnls[s], LAMBDA t : ForEach(VniKeys(s), LAMBDA n :
                   <<OutFlow(15, t.ofp, ANY, ANY, n, <<Act("out_reg1", 0)>>)>>))
            ELSE <<>>)
  \o ForEach(vifs[s], LAMBDA p : <<OutFlow(10, ANY, ANY, p, ANY, Out(p))>>)

\* generate_output_flows.
generate_output_flows(s, deploy, md) == Flooding(s, deploy, md) \o Unicast(s, deploy, md)

\* generate_input_flows.
generate_input_flows(s, deploy) ==
  IF deploy = "native" THEN <<InFlow(ANY, "nothing", 0)>>
  ELSE ForEach(vifs[s], LAMBDA p : <<InFlow(p, IF deploy = "qinq" THEN "load2" ELSE "load", Vni(p))>>)
       \o CASE deploy = "tnl"  -> ForEach(tnls[s], LAMBDA t : <<InFlow(t.ofp, "tun_id", 0)>>)
            [] deploy = "vlan" -> ForEach(Uplinks, LAMBDA u : <<InFlow(u, "tag", 0)>>)
            [] deploy = "qinq" -> ForEach(Uplinks, LAMBDA u : <<InFlow(u, "tags", 0)>>)

\* provision_flows: add-flow replaces the flow that matches on the same fields.
Match(f) == IF "prio" \in DOMAIN f THEN <<f.prio, f.in, f.reg0, f.reg1, f.md>> ELSE <<f.in>>
provision_flows(table, flows) ==
  LET Stays(i) == \A j \in DOMAIN flows : j > i => Match(flows[j]) # Match(flows[i])
  IN  {g \in table : \A i \in DOMAIN flows : Match(flows[i]) # Match(g)}
      \cup {flows[i] : i \in {i \in DOMAIN flows : Stays(i)}}

NoTables == [base |-> FALSE, input |-> {}, output |-> {}]

-------------------------------------------------------------------------------
(* Open vSwitch: a packet through the tables (external). *)

\* reg0 as its two halves, and the tags that INPUT leaves.
InputReg0(f, p) ==
  CASE f.set = "nothing" -> <<0, 0>>
    [] f.set = "load"    -> <<f.vni, 0>>
    [] f.set = "load2"   -> <<f.vni, f.vni + 100>>
    [] f.set = "tun_id"  -> <<p.tun, 0>>
    [] f.set = "tag"     -> <<IF p.tags = <<>> THEN 0 ELSE Head(p.tags), 0>>
    [] f.set = "tags"    -> IF Len(p.tags) < 2 THEN <<0, IF p.tags = <<>> THEN 0 ELSE Head(p.tags)>>
                                               ELSE <<p.tags[2], p.tags[1]>>
InputTags(f, p) ==
  LET n == CASE f.set = "tag" -> 1 [] f.set = "tags" -> 2 [] OTHER -> 0
  IN  SubSeq(p.tags, n + 1, Len(p.tags))

\* The learn action of CORE: (reg0, source address) leads to the port.
Learned(s, reg0, src, in) ==
  {e \in fib[s] : <<e.reg0, e.mac>> # <<reg0, src>>} \cup {[reg0 |-> reg0, mac |-> src, port |-> in]}

\* The lookup of L2_MATCH: reg1, 0 without a match.
Lookup(table, reg0, dst) ==
  IF \E e \in table : e.reg0 = reg0 /\ e.mac = dst
    THEN (CHOOSE e \in table : e.reg0 = reg0 /\ e.mac = dst).port
    ELSE 0

Matches(f, in, reg0, reg1, md) ==
  /\ f.in \in {ANY, in} /\ f.reg1 \in {ANY, reg1}
  /\ f.reg0 \in {ANY, reg0[1]} /\ f.md \in {ANY, md}

\* The copies that leave as a flow's actions are executed, each with the headers that the
\* actions before it have set.  No flow pushes the same tag twice.
Run(acts, reg0, reg1, tags) ==
  LET Did(i, op) == \E j \in 1..(i - 1) : acts[j].op = op
      LastDst(i) == LET set == {j \in 1..(i - 1) : acts[j].op = "tun_dst"}
                    IN  IF set = {} THEN 0 ELSE acts[Max(set)].arg
      Copy(i) == [port |-> IF acts[i].op = "out" THEN acts[i].arg ELSE reg1,
                  tags |-> (IF Did(i, "push_hi") THEN <<reg0[2]>> ELSE <<>>)
                           \o (IF Did(i, "push_lo") THEN <<reg0[1]>> ELSE <<>>) \o tags,
                  tun  |-> IF Did(i, "tun_id") THEN reg0[1] ELSE 0,
                  tdst |-> LastDst(i),
                  md   |-> IF Did(i, "md") THEN reg0[1] ELSE ANY]
  IN  ForEach([i \in DOMAIN acts |-> i], LAMBDA i :
        IF acts[i].op \in {"out", "out_reg1"} THEN <<Copy(i)>> ELSE <<>>)

\* What happens to packet p that enters SUT s at a port: the FIB after it, whether
\* its destination was known, and its outputs.  Nothing is sent back to the port.
Forward(s, in, p) ==
  LET inflows == {f \in tables[s].input : f.in \in {ANY, in}}
      inflow == CHOOSE f \in inflows : TRUE
      reg0 == InputReg0(inflow, p)
      table == Learned(s, reg0, p.src, in)
      reg1 == Lookup(table, reg0, p.dst)
      outflows == {f \in tables[s].output : Matches(f, in, reg0, reg1, p.md)}
      outflow == CHOOSE f \in outflows : \A g \in outflows : f.prio >= g.prio
      outs == IF outflows = {} THEN <<>> ELSE Run(outflow.acts, reg0, reg1, InputTags(inflow, p))
  IN  IF ~tables[s].base \/ inflows = {}
        THEN [fib |-> fib[s], known |-> FALSE, outs |-> <<>>]
        ELSE [fib |-> table, known |-> reg1 # 0,
              outs |-> ForEach(outs, LAMBDA o : IF o.port = in THEN <<>> ELSE <<o>>)]

\* A tunnel port of which an older one has the same options does not work.
WorkingPorts(s) ==
  {i \in DOMAIN tnls[s] : \A j \in 1..(i - 1) :
     <<tnls[s][j].rip, tnls[s][j].vni>> # <<tnls[s][i].rip, tnls[s][i].vni>>}

\* The network: a tunnel packet reaches the SUT of its remote address, at a port with
\* fitting options; what leaves an uplink reaches the uplinks of all other SUTs.
Carried(s, p, o) ==
  LET Packet(tun, md, to) == [src |-> p.src, dst |-> p.dst, tags |-> o.tags, tun |-> tun, md |-> md,
                              from |-> s, to |-> to]
      remote(t) == IF t.rip = FLOW THEN o.tdst ELSE t.rip
  IN  IF o.port = OFP_UPLINK_BASE
        THEN {Packet(0, ANY, t) : t \in IF kind = "phy" THEN Suts \ {s} ELSE {}}
        ELSE {Packet(IF tnls[s][i].vni = FLOW THEN o.tun ELSE tnls[s][i].vni, o.md, remote(tnls[s][i])) :
                i \in {i \in WorkingPorts(s) : /\ tnls[s][i].ofp = o.port
                                               /\ remote(tnls[s][i]) \in Suts \ {s}}}

InPorts(p) ==
  IF kind = "phy" THEN {OFP_UPLINK_BASE}
  ELSE {tnls[p.to][i].ofp : i \in {i \in WorkingPorts(p.to) :
          tnls[p.to][i].rip \in {FLOW, p.from} /\ tnls[p.to][i].vni \in {FLOW, p.tun}}}

\* The copies of the outputs that VIF v of SUT s receives.
Delivered(s, v, outs) ==
  ForEach(outs, LAMBDA o : IF plugged /\ o.port = Ofp(v) THEN <<o.tags>> ELSE <<>>)

Nothing == [x \in Vifs |-> <<>>]

\* The frame under way when a keyword changed something: what it meets and who gets it
\* is not followed any further.
Disturbed == [src |-> Bcast, dst |-> Bcast, met |-> {"changed"}, known |-> FALSE]

\* Packet p of frame f enters SUT s at a port; w and got are the other copies on the
\* wire and what the VIFs received before.
Handle(s, in, p, f, w, got) ==
  LET r == Forward(s, in, p)
  IN  /\ fib' = [fib EXCEPT ![s] = r.fib]
      /\ frame' = IF f = Disturbed THEN f
                  ELSE [f EXCEPT !.met = @ \cup {prog[s]}, !.known = @ /\ r.known]
      /\ wire' = w \cup UNION {Carried(s, p, r.outs[i]) : i \in DOMAIN r.outs}
      /\ rcvd' = [x \in Vifs |-> got[x] \o IF f # Disturbed /\ x[1] = s
                                           THEN Delivered(s, x[2], r.outs) ELSE <<>>]
      /\ UNCHANGED ctl

\* A VM sends a frame from one of its VIFs.
Send(v, dst) ==
  /\ wire = {} /\ plugged /\ sent < MaxFrames
  /\ sent' = sent + 1
  /\ Handle(v[1], Ofp(v[2]),
            [src |-> v, dst |-> dst, tags |-> <<>>, tun |-> 0, md |-> ANY],
            [src |-> v, dst |-> dst, met |-> {}, known |-> TRUE], {}, Nothing)

Arrive(p) ==
  \/ \E in \in InPorts(p) : Handle(p.to, in, p, frame, wire \ {p}, rcvd) /\ UNCHANGED sent
  \/ /\ InPorts(p) = {}
     /\ wire' = wire \ {p}
     /\ UNCHANGED <<ctl, fib, frame, rcvd, sent>>

-------------------------------------------------------------------------------
(* The keywords. *)

Idle == [loop |-> "idle", sut |-> 1, pos |-> 1, mode |-> "native", rip |-> "flow", tid |-> "flow",
         md |-> FALSE]

Init ==
  /\ kind \in Kinds /\ assigned \in BOOLEAN
  /\ plugged = TRUE
  /\ vifs = [s \in Suts |-> <<OFP_LOCAL>> \o VhostOfps(s)]
  /\ tnls = [s \in Suts |-> <<>>]
  /\ ids = [s \in Suts |-> TunnelIds]
  /\ tables = [s \in Suts |-> NoTables]
  /\ fib = [s \in Suts |-> {}]
  /\ prog = [s \in Suts |-> "none"]
  /\ kw = Idle
  /\ frame = Disturbed
  /\ wire = {}
  /\ rcvd = Nothing
  /\ sent = 0

\* What a keyword's step leaves alone, and where it goes on.
Disturbs == frame' = Disturbed /\ rcvd' = Nothing /\ UNCHANGED <<wire, sent>>
DataPlane == <<frame, wire, rcvd, sent>>
NextPos == kw' = [kw EXCEPT !.pos = @ + 1]
NextSut == kw' = [kw EXCEPT !.sut = @ + 1, !.pos = 1]
In(loop, pos) == kw.loop = loop /\ kw.sut <= NSuts /\ kw.pos = pos
SetTables(t, p) == tables' = [tables EXCEPT ![kw.sut] = t] /\ prog' = [prog EXCEPT ![kw.sut] = p]

Begin(first, mode, rip, tid, md) ==
  /\ kw.loop = "idle"
  /\ kw' = [loop |-> first, sut |-> 1, pos |-> 1, mode |-> mode, rip |-> rip, tid |-> tid, md |-> md]
  /\ UNCHANGED <<kind, assigned, plugged, vifs, tnls, ids, tables, prog, fib, DataPlane>>

setup_default_pipeline_on_all_suts == Begin("pipeline", "native", "flow", "flow", FALSE)
deploy_vni_as_tunnel_overlay(rip, tid, md) ==
  kind = "int" /\ Begin("tnl_ports", "tnl", rip, tid, md)
deploy_vni_as_l2_overlay(mode) == kind = "phy" /\ Begin("pipeline", mode, "flow", "flow", FALSE)
undeploy == Begin("clear", IF kind = "int" THEN "tnl" ELSE "vlan", "flow", "flow", FALSE)

\* The loop over suts ends: the keyword's next loop, or its end.
EndLoop ==
  /\ kw.loop # "idle" /\ kw.sut > NSuts
  /\ LET next == CASE kw.loop = "tnl_ports"                        -> "pipeline"
                   [] kw.loop = "pipeline" /\ kw.mode # "native"   -> "overlay"
                   [] kw.loop = "clear" /\ kw.mode = "tnl"         -> "tnl_delete"
                   [] OTHER                                        -> "idle"
     IN  kw' = IF next = "idle" THEN Idle ELSE [kw EXCEPT !.loop = next, !.sut = 1, !.pos = 1]
  /\ UNCHANGED <<kind, assigned, plugged, vifs, tnls, ids, tables, prog, fib, DataPlane>>

\* A command fails (VSwitch has the commands one by one): the keyword ends here.
Abort ==
  /\ kw.loop # "idle" /\ kw.sut <= NSuts
  /\ kw' = Idle
  /\ UNCHANGED <<kind, assigned, plugged, vifs, tnls, ids, tables, prog, fib, DataPlane>>

\* _create_tunnel_ports on a SUT: the options of its ports, in order.
PortOptions(s) ==
  LET rips == IF kw.rip = "flow" THEN <<FLOW>> ELSE Remotes(s)
      vnis == IF kw.tid = "flow" THEN <<FLOW>> ELSE VniKeys(s)
  IN  ForEach(rips, LAMBDA r : ForEach(vnis, LAMBDA n : <<[rip |-> r, vni |-> n]>>))

CreateTunnelPorts ==
  /\ In("tnl_ports", 1)
  /\ LET s == kw.sut
         options == PortOptions(s)
         n == Len(options)
     IN  /\ n <= Len(ids[s])
         /\ tnls' = [tnls EXCEPT ![s] = @ \o
              [i \in 1..n |-> [ofp |-> ids[s][i], rip |-> options[i].rip, vni |-> options[i].vni]]]
         /\ ids' = [ids EXCEPT ![s] = SubSeq(@, n + 1, Len(@))]
  /\ prog' = [prog EXCEPT ![kw.sut] = IF @ = "none" THEN @ ELSE "partial"]
  /\ NextSut /\ Disturbs
  /\ UNCHANGED <<kind, assigned, plugged, vifs, tables, fib>>

\* Mutant: the default pipeline does not clear the tables first.
ClearAllNot ==
  /\ In("pipeline", 1) \/ In("clear", 1)
  /\ IF kw.loop = "clear" THEN NextSut ELSE NextPos
  /\ UNCHANGED <<kind, assigned, plugged, vifs, tnls, ids, tables, prog, fib, DataPlane>>

\* del-flows without a table, FIB included: the first command of the default pipeline
\* and of _overlay_flow_clear.
ClearAll ==
  /\ In("pipeline", 1) \/ In("clear", 1)
  /\ SetTables(NoTables, "none")
  /\ fib' = [fib EXCEPT ![kw.sut] = {}]
  /\ IF kw.loop = "clear" THEN NextSut ELSE NextPos
  /\ Disturbs
  /\ UNCHANGED <<kind, assigned, plugged, vifs, tnls, ids>>

\* The flows of the default pipeline, OUTPUT last.
ProvisionBase ==
  /\ In("pipeline", 2)
  /\ SetTables([base |-> TRUE, output |-> {},
                input |-> provision_flows({}, generate_input_flows(kw.sut, "native"))], "partial")
  /\ NextPos /\ Disturbs
  /\ UNCHANGED <<kind, assigned, plugged, vifs, tnls, ids, fib>>

ProvisionNativeOutput ==
  /\ In("pipeline", 3)
  /\ SetTables([tables[kw.sut] EXCEPT !.output =
                  provision_flows(@, generate_output_flows(kw.sut, "native", FALSE))], "native")
  /\ NextSut /\ Disturbs
  /\ UNCHANGED <<kind, assigned, plugged, vifs, tnls, ids, fib>>

\* clear_input_output_flows.
clear_input_output_flows ==
  /\ In("overlay", 1)
  /\ SetTables([tables[kw.sut] EXCEPT !.input = {}, !.output = {}], "partial")
  /\ NextPos /\ Disturbs
  /\ UNCHANGED <<kind, assigned, plugged, vifs, tnls, ids, fib>>

\* vif.vni + 100 is a TypeError when the VNI was assigned: those are strings.
VniIsString == kw.mode = "qinq" /\ assigned

ProvisionOverlayInput ==
  /\ In("overlay", 2)
  /\ IF VniIsString
       THEN kw' = Idle /\ UNCHANGED <<tables, prog, DataPlane>>
       ELSE /\ SetTables([tables[kw.sut] EXCEPT !.input =
                            provision_flows(@, generate_input_flows(kw.sut, kw.mode))], "partial")
            /\ NextPos /\ Disturbs
  /\ UNCHANGED <<kind, assigned, plugged, vifs, tnls, ids, fib>>

ProvisionOverlayOutput ==
  /\ In("overlay", 3)
  /\ SetTables([tables[kw.sut] EXCEPT !.output =
                  provision_flows(@, generate_output_flows(kw.sut, kw.mode, kw.md))], kw.mode)
  /\ NextSut /\ Disturbs
  /\ UNCHANGED <<kind, assigned, plugged, vifs, tnls, ids, fib>>

\* _delete_tunnel_ports: the list shrinks while it is iterated, so that every second
\* port stays.
DeleteTunnelPorts ==
  /\ In("tnl_delete", 1)
  /\ LET s == kw.sut
         n == Len(tnls[s])
     IN  /\ tnls' = [tnls EXCEPT ![s] = [i \in 1..(n \div 2) |-> @[2 * i]]]
         /\ ids' = [ids EXCEPT ![s] = @ \o [i \in 1..((n + 1) \div 2) |-> tnls[s][2 * i - 1].ofp]]
  /\ prog' = [prog EXCEPT ![kw.sut] = IF @ = "none" THEN @ ELSE "partial"]
  /\ NextSut /\ Disturbs
  /\ UNCHANGED <<kind, assigned, plugged, vifs, tables, fib>>

\* add_vif_ports and delete_vif_ports on all SUTs (VSwitch has them port by port):
\* delete leaves br.vifs as it is.
add_vif_ports_on_all_suts ==
  /\ kw.loop = "idle" /\ ~plugged
  /\ plugged' = TRUE
  /\ vifs' = [s \in Suts |-> vifs[s] \o VhostOfps(s)]
  /\ \A s \in Suts : Len(vifs'[s]) <= 1 + MaxAttach * Len(VifsOf[s])
  /\ Disturbs
  /\ UNCHANGED <<kind, assigned, tnls, ids, tables, prog, kw, fib>>

delete_vif_ports_on_all_suts ==
  /\ kw.loop = "idle" /\ plugged
  /\ plugged' = FALSE
  /\ Disturbs
  /\ UNCHANGED <<kind, assigned, vifs, tnls, ids, tables, prog, kw, fib>>

Next ==
  \/ \E v \in Vifs : \E dst \in (Vifs \cup {Bcast}) \ {v} : Send(v, dst)
  \/ \E p \in wire : Arrive(p)
  \/ setup_default_pipeline_on_all_suts \/ undeploy
  \/ \E m \in Modes : deploy_vni_as_tunnel_overlay(m.rip, m.tid, m.md)
  \/ \E mode \in {"vlan", "qinq"} : deploy_vni_as_l2_overlay(mode)
  \/ EndLoop \/ Abort
  \/ CreateTunnelPorts \/ ClearAll \/ ProvisionBase \/ ProvisionNativeOutput
  \/ clear_input_output_flows \/ ProvisionOverlayInput \/ ProvisionOverlayOutput
  \/ DeleteTunnelPorts
  \/ add_vif_ports_on_all_suts \/ delete_vif_ports_on_all_suts

Spec == Init /\ [][Next]_vars

-------------------------------------------------------------------------------
(* Properties. *)

Overlays == {"tnl", "vlan", "qinq"}

\* The frame has met the tables of one deployment only, complete on every SUT it
\* came to, and nothing has changed since it was sent.
Steady(modes) == \E m \in modes : frame.met = {m}

SameVni(x, y) == Vni(Ofp(x[2])) = Vni(Ofp(y[2]))
Receivers == {x \in Vifs : rcvd[x] # <<>>}

\* Under an overlay a frame only reaches VIFs of its sender's VNI, and never the
\* sender, whatever was learned while other flows were in place (flowutils.py:116-274).
Isolation ==
  Steady(Overlays) =>
    \A x \in Receivers : x # frame.src /\ SameVni(x, frame.src)

\* The tags that the VLAN and QinQ overlays put on a frame are off when a VIF gets it
\* (flowutils.py:65-76, 169-175).
Untagged ==
  Steady(Overlays) => \A x \in Vifs : \A i \in DOMAIN rcvd[x] : rcvd[x][i] = <<>>

\* A VIF receives a frame once for each time br.vifs lists it, which is once until its
\* port is deleted and added again (vswitch.py:328, 361-373).
CopiesAsListed ==
  Steady(Overlays \cup {"native"}) =>
    \A x \in Vifs :
      Len(rcvd[x]) <= Len(SelectSeq(vifs[x[1]], LAMBDA p : p = Ofp(x[2])))

\* Where a frame is meant to go: its destination, or every other VIF of the VNI.
Meant == {x \in Vifs \ {frame.src} : /\ frame.dst \in {x, Bcast}
                                     /\ plugged /\ SameVni(x, frame.src)}

\* Once an overlay is deployed, a frame reaches its destination in the VNI, or all
\* of the VNI, whatever keywords ran and failed before, whatever FIB had learned by
\* then (overlay.py:93-124, flowutils.py:341-391).  With remote_ip 'flow' this takes
\* a single remote SUT.
Reaches ==
  /\ wire = {}
  /\ Steady(Overlays)
  /\ "tnl" \in frame.met /\ NSuts > 2 => \A i \in DOMAIN tnls[frame.src[1]] : tnls[frame.src[1]][i].rip # FLOW
  => Meant \subseteq Receivers

\* A frame whose destination every SUT on its way had learned goes nowhere else
\* (flowutils.py:365-382).
LearnedIsDirect ==
  Steady(Overlays) /\ frame.known => Receivers \subseteq {frame.dst}

\* FIB never sends a frame to a port that does not lead to its destination: entries
\* do not outlive the tunnel ports they name, whose numbers are given out again
\* (flowutils.py:341-350, overlay.py:183-189).
FibSound ==
  \A s \in Suts : \A e \in fib[s] :
    IF e.mac[1] = s THEN e.port = Ofp(e.mac[2])
    ELSE \/ kind = "phy" /\ e.port = OFP_UPLINK_BASE
         \/ \E i \in DOMAIN tnls[s] : tnls[s][i].ofp = e.port /\ tnls[s][i].rip \in {FLOW, e.mac[1]}

\* rip_mode: "a tunnel port can be multiplexed by multiple tunnels to different remote
\* peers" (overlay.py:163-165).
FlowPortReachesPeers ==
  wire = {} /\ Steady({"tnl"}) /\ frame.dst = Bcast => Meant \subseteq Receivers

\* A frame from an external port: "we don't forward the pkt back to external port"
\* (flowutils.py:191).
NoRelay ==
  Steady({"tnl"}) => \A p \in wire : p.from = frame.src[1]

-------------------------------------------------------------------------------
(* The inductive invariant: what the tables, FIB and the copies under way    *)
(* have to do with the VNIs, whatever keyword wrote them.                    *)

L2Overlays == {"vlan", "qinq"}
Progress == Overlays \cup {"none", "partial", "native"}
Loops == {"idle", "tnl_ports", "pipeline", "overlay", "clear", "tnl_delete"}

\* The local ports of a SUT, the ports that lead out of it, the VNIs of the VIFs.
Locals(s) == {OFP_LOCAL} \cup {Ofp(v) : v \in Range(VifsOf[s])}
Externals == {OFP_UPLINK_BASE} \cup Range(TunnelIds)
Vnis == {Vni(Ofp(x[2])) : x \in Vifs}

TnlPorts == [ofp : Range(TunnelIds), rip : Suts \cup {FLOW}, vni : Nat \cup {FLOW}]
InFlows == [in : Int, set : {"nothing", "load", "load2", "tun_id", "tag", "tags"}, vni : Nat]
Actions == [op : {"out", "out_reg1", "tun_dst", "tun_id", "md", "push_lo", "push_hi"}, arg : Nat]
OutFlows == [prio : {10, 15, 20, 100}, in : Int, reg0 : Int, reg1 : Int, md : Int, acts : Seq(Actions)]

\* Type correctness.
TypeOK ==
  /\ kind \in Kinds /\ assigned \in BOOLEAN /\ plugged \in BOOLEAN
  /\ vifs \in [Suts -> Seq(Nat)] /\ tnls \in [Suts -> Seq(TnlPorts)]
  /\ ids \in [Suts -> Seq(Range(TunnelIds))]
  /\ tables \in [Suts -> [base : BOOLEAN, input : SUBSET InFlows, output : SUBSET OutFlows]]
  /\ DOMAIN fib = Suts
  /\ prog \in [Suts -> Progress]
  /\ kw \in [loop : Loops, sut : 1..(NSuts + 1), pos : 1..3, mode : Overlays \cup {"native"},
             rip : {"flow", "non-flow"}, tid : {"flow", "non-flow"}, md : BOOLEAN]
  /\ frame \in [src : Vifs \cup {Bcast}, dst : Vifs \cup {Bcast},
                met : SUBSET (Progress \cup {"changed"}), known : BOOLEAN]

\* A SUT's tunnel ports have different numbers, none of them free.
SutPorts(s) ==
  /\ Range(vifs[s]) \subseteq Locals(s)
  /\ \A i \in DOMAIN tnls[s] : /\ tnls[s][i].rip # s
                               /\ tnls[s][i].ofp \notin Range(ids[s])
                               /\ ~assigned => tnls[s][i].vni \in {FLOW, VNI_NONE}
  /\ \A i, j \in DOMAIN tnls[s] : tnls[s][i].ofp = tnls[s][j].ofp => i = j
  /\ IsInjective(ids[s])
  /\ Len(tnls[s]) + Len(ids[s]) = Len(TunnelIds)
  /\ kind = "phy" => tnls[s] = <<>>
Ports == \A s \in Suts : SutPorts(s)

\* Overlays and the kinds of bridge they are for.
Fits(m) == (m = "tnl" => kind = "int") /\ (m \in L2Overlays => kind = "phy")

Keyword ==
  /\ Fits(kw.mode)
  /\ kw.loop \in {"tnl_ports", "tnl_delete"} => kw.mode = "tnl"
  /\ kw.loop = "overlay" => kw.mode # "native"
  /\ kw.loop \notin {"pipeline", "overlay"} => kw.pos = 1

\* undeploy empties the tables of all SUTs before it deletes ports.
Cleared(s) == tables[s] = NoTables /\ fib[s] = {}
Undeploying ==
  /\ kw.loop = "clear" => \A s \in Suts : s < kw.sut => Cleared(s)
  /\ kw.loop = "tnl_delete" => \A s \in Suts : Cleared(s)

\* The flows of INPUT under a deployment.
InputFlows(s, m) ==
  CASE m = "native" -> {InFlow(ANY, "nothing", 0)}
    [] m = "tnl"    -> {InFlow(p, "load", Vni(p)) : p \in Locals(s)}
                       \cup {InFlow(t, "tun_id", 0) : t \in Range(TunnelIds)}
    [] m = "vlan"   -> {InFlow(p, "load", Vni(p)) : p \in Locals(s)}
                       \cup {InFlow(OFP_UPLINK_BASE, "tag", 0)}
    [] m = "qinq"   -> {InFlow(p, "load2", Vni(p)) : p \in Locals(s)}
                       \cup {InFlow(OFP_UPLINK_BASE, "tags", 0)}

\* Actions for frames of a VNI: VIFs of the VNI get them before any tag is pushed, tunnel
\* ports with the VNI set or fixed, uplinks with the tags of the overlay.
Before(acts, i, op) == \E j \in 1..(i - 1) : acts[j].op = op
SoundActs(s, m, acts, vni) ==
  \A i \in DOMAIN acts :
    /\ acts[i].op # "out_reg1"
    /\ acts[i].op = "out" =>
         \/ acts[i].arg = OFP_LOCAL
         \/ /\ ~Before(acts, i, "push_lo") /\ ~Before(acts, i, "push_hi")
            /\ \/ acts[i].arg \in Locals(s) /\ Vni(acts[i].arg) = vni
               \/ \E t \in Range(tnls[s]) : /\ t.ofp = acts[i].arg
                                            /\ \/ t.vni = FLOW /\ Before(acts, i, "tun_id")
                                               \/ t.vni = vni
         \/ /\ acts[i].arg = OFP_UPLINK_BASE
            /\ Before(acts, i, "push_lo")
            /\ Before(acts, i, "push_hi") <=> m = "qinq"

\* The flows of OUTPUT under an overlay: flooding from VIFs and from external ports,
\* then the known destinations.
FloodsVif(s, m, f) ==
  f.in \in Locals(s) /\ f.reg1 = 0 /\ SoundActs(s, m, f.acts, Vni(f.in))
FloodsExternal(s, m, f) ==
  f.in \in Externals /\ f.reg0 # ANY /\ f.reg1 = 0 /\ SoundActs(s, m, f.acts, f.reg0)
ToExternal(s, m, f) ==
  /\ f.reg1 \in Externals
  /\ \A i \in DOMAIN f.acts : f.acts[i].op = "out" => f.acts[i].arg = f.reg1
  /\ \A vni \in Vnis : (\A t \in Range(tnls[s]) : t.ofp = f.reg1 => t.vni \in {FLOW, vni})
                       => SoundActs(s, m, f.acts, vni)
ByMetadata(f) == kind = "int" /\ f.prio = 15 /\ f.acts = <<Act("out_reg1", 0)>>
ToVif(s, f) == f.reg1 \in Locals(s) /\ f.acts = Out(f.reg1)

SoundFlow(s, m, f) ==
  FloodsVif(s, m, f) \/ FloodsExternal(s, m, f) \/ ToExternal(s, m, f) \/ ByMetadata(f) \/ ToVif(s, f)

\* The unicast flow of a tunnel port, which goes before the metadata's.
UnicastTo(p, f) == f.prio = 20 /\ f.in = ANY /\ f.reg0 = ANY /\ f.reg1 = p /\ f.md = ANY

SutTables(s) ==
  /\ \E m \in Overlays \cup {"native"} : Fits(m) /\ tables[s].input \subseteq InputFlows(s, m)
  /\ \A m \in Overlays : prog[s] = m =>
       /\ Fits(m)
       /\ tables[s].input \subseteq InputFlows(s, m)
       /\ \A f \in tables[s].output : SoundFlow(s, m, f)
       /\ \A t \in Range(tnls[s]) : \E f \in tables[s].output : UnicastTo(t.ofp, f)

\* The SUT whose flows are being replaced.
Writing ==
  kw.loop = "overlay" /\ kw.sut <= NSuts =>
    /\ kw.pos > 1 => tables[kw.sut].output = {}
    /\ kw.pos = 2 => tables[kw.sut].input = {}
    /\ kw.pos = 3 => tables[kw.sut].input \subseteq InputFlows(kw.sut, kw.mode)

Tables == (\A s \in Suts : SutTables(s)) /\ Writing

\* A FIB entry: a VIF of the SUT, under its VNI or learned without one; or an external
\* port, likewise.
SoundEntry(s, e) ==
  \/ \E v \in Range(VifsOf[s]) :
       e.mac = <<s, v>> /\ e.port = Ofp(v) /\ e.reg0[1] \in {VNI_NONE, Vni(Ofp(v))}
  \/ kind = "phy" /\ e.port = OFP_UPLINK_BASE
  \/ \E t \in Range(tnls[s]) : t.ofp = e.port /\ (t.vni = FLOW \/ e.reg0[1] \in {VNI_NONE, t.vni})
FibEntries == \A s \in Suts : \A e \in fib[s] : SoundEntry(s, e)

\* A copy on the wire carries the VNI of its sender the way the overlay does.
Carries(p, m, vni) ==
  CASE m = "tnl"  -> p.tags = <<>> /\ p.tun = vni
    [] m = "vlan" -> p.tags = <<vni>>
    [] m = "qinq" -> p.tags = <<vni + 100, vni>>
OnTheWire ==
  \A p \in wire :
    /\ p.src \in Vifs /\ p.from \in Suts /\ p.to \in Suts \ {p.from}
    /\ \A m \in Overlays : frame.met = {m} =>
         p.src = frame.src /\ p.dst = frame.dst /\ Carries(p, m, Vni(Ofp(frame.src[2])))

\* What the VIFs received, while the frame has met one overlay only.
Received ==
  /\ frame.met # {}
  /\ Steady(Overlays) =>
       /\ frame.src \in Vifs
       /\ \A x \in Vifs :
            /\ rcvd[x] \in Seq({<<>>})
            /\ rcvd[x] # <<>> => SameVni(x, frame.src) /\ (frame.known => x = frame.dst)

PipelineInv ==
  TypeOK /\ Ports /\ Keyword /\ Undeploying /\ Tables /\ FibEntries /\ OnTheWire /\ Received

\* A frame under one overlay reaches VIFs of its VNI only, relayed or not.
VniKept == Steady(Overlays) => \A x \in Receivers : SameVni(x, frame.src)

\* FIB names no port that is gone.
FibPortsExist ==
  \A s \in Suts : \A e \in fib[s] :
    \/ e.port \in Locals(s)
    \/ kind = "phy" /\ e.port = OFP_UPLINK_BASE
    \/ \E t \in Range(tnls[s]) : t.ofp = e.port

\* Every copy on the wire comes straight from the SUT of its sender.
Direct == \A p \in wire : p.from = p.src[1]

\* A frame does not come back to its sender.
NoEcho == Steady(Overlays) => \A x \in Receivers : x # frame.src

\* A relay takes a second tunnel port.
OnePort == kind = "phy" \/ Len(TunnelIds) <= 1

StraightInv == OnePort => Direct /\ FibSound /\ NoEcho

===============================================================================
