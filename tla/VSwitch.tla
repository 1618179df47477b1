--------------------------------- MODULE VSwitch ---------------------------------
(*****************************************************************************)
(* The bridge, tunnel, uplink and VIF keywords (pal.py, overlay.py,          *)
(* vswitch.py): each runs its ovs-vsctl and ovs-ofctl commands SUT after SUT *)
(* and keeps Python objects beside what Open vSwitch holds.  Any command may *)
(* fail, done or not done; the exception ends the keyword where it stands    *)
(* and the suite goes on with another one.                                   *)
(*                                                                           *)
(* One bridge name is modelled; a Bridge object is a record, and             *)
(* vswitch.bridges the sequence of the objects of that name (get_bridge      *)
(* returns the first).  The datapath is ovs-dpdk.                            *)
(*****************************************************************************)
EXTENDS Naturals, SequencesExt

CONSTANTS
  NSuts,      \* suts are 1 .. NSuts, in the order of the list
  NVifs,      \* VIFs of a SUT's VMs are 1 .. NVifs
  TunnelIds,  \* the initial content of ofp_ids_tunnel, a sequence
  MaxFaults   \* bound: commands that fail by themselves

Suts == 1..NSuts
Vifs == 1..NVifs
Ids == Range(TunnelIds)
VNI_NONE == 0

ASSUME VSwitchAssumption ==
  /\ NSuts \in Nat \ {0} /\ NVifs \in Nat /\ MaxFaults \in Nat
  /\ TunnelIds \in Seq(Nat) /\ IsInjective(TunnelIds)

VARIABLES
  objs,    \* the Bridge objects of each SUT's vswitch
  ovs,     \* what each SUT's Open vSwitch holds
  ofp,     \* uplink.ofp is set
  vni,     \* the VNI of each VIF
  kw,      \* the loop of the keyword in progress, or "idle"
  sut,     \* the position in suts
  pos,     \* the position in the inner loop
  args,    \* rip_mode and tnl_md of deploy
  done,    \* the keyword that last completed, if none has begun since
  faults   \* commands that have failed by themselves

vars == <<objs, ovs, ofp, vni, kw, sut, pos, args, done, faults>>

NewBridge == [tnl_ports |-> <<>>, ids |-> TunnelIds, vifs |-> {}, uplinks |-> FALSE,
              with_md |-> FALSE]

NoBridge == [br |-> FALSE, tnl |-> {}, vifs |-> {}, uplink |-> FALSE, tlv |-> FALSE,
             flows |-> "none"]

EmptyBridge == [NoBridge EXCEPT !.br = TRUE]

Init ==
  /\ objs = [s \in Suts |-> <<>>]
  /\ ovs = [s \in Suts |-> NoBridge]
  /\ ofp = [s \in Suts |-> FALSE]
  /\ vni = [s \in Suts |-> [v \in Vifs |-> VNI_NONE]]
  /\ kw = "idle" /\ sut = 1 /\ pos = 1
  /\ args = [rip |-> "flow", md |-> FALSE]
  /\ done = "none"
  /\ faults = 0

-------------------------------------------------------------------------------
(* Commands and loops. *)

\* execute: the command applies to the current SUT and Open vSwitch accepts it.
Succeeds(ok, result) ==
  /\ ok
  /\ ovs' = [ovs EXCEPT ![sut] = result]
  /\ UNCHANGED faults

\* execute raises: the command is refused, or it fails for a reason of its own (a
\* timeout, a lost connection) having had all, part or none of its effect.
Raises(ok, results) ==
  /\ \/ ~ok /\ UNCHANGED <<ovs, faults>>
     \/ /\ faults < MaxFaults
        /\ faults' = faults + 1
        /\ \/ UNCHANGED ovs
           \/ ok /\ \E r \in results : ovs' = [ovs EXCEPT ![sut] = r]
  /\ kw' = "idle"
  /\ UNCHANGED <<sut, pos, args, done, vni>>

\* A Python error outside a command.
Errs ==
  /\ kw' = "idle"
  /\ UNCHANGED <<sut, pos, args, done, vni>>

In(k) == kw = k /\ sut <= NSuts

HasBridge == objs[sut] # <<>>
Br == objs[sut][1]
SetBr(b) == objs' = [objs EXCEPT ![sut] = <<b>> \o Tail(@)]
Ovs == ovs[sut]

GoOn(s, p) == sut' = s /\ pos' = p /\ UNCHANGED <<kw, args, done, vni>>
NextSut == GoOn(sut + 1, 1)
NextPos == GoOn(sut, pos + 1)

\* A keyword is called.
Begin(k) ==
  /\ kw = "idle"
  /\ kw' = k
  /\ sut' = 1 /\ pos' = 1
  /\ done' = "none"
  /\ UNCHANGED <<objs, ovs, ofp, vni, faults>>

\* A keyword's loop over suts ends: the next loop starts or the keyword is done.
Loops(k) ==
  CASE k = "tnl_ports" -> "pipeline"
    [] k = "pipeline"  -> "overlay"
    [] k = "overlay"   -> "idle"
    [] k = "clear"     -> "tnl_delete"
    [] OTHER           -> "idle"

EndLoop ==
  /\ kw # "idle" /\ sut > NSuts
  /\ kw' = Loops(kw)
  /\ sut' = 1 /\ pos' = 1
  /\ done' = IF Loops(kw) = "idle" THEN kw ELSE done
  /\ UNCHANGED <<objs, ovs, ofp, vni, args, faults>>

-------------------------------------------------------------------------------
(* create_bridge and delete_bridge. *)

BridgeCreated(there) ==
  /\ Succeeds(~Ovs.br, EmptyBridge)
  /\ objs' = [objs EXCEPT ![sut] = Append(@, NewBridge)]
  /\ there

CreateBridge ==
  /\ In("create_bridge")
  /\ \/ BridgeCreated(NextSut)
     \/ Raises(~Ovs.br, {EmptyBridge}) /\ UNCHANGED objs
  /\ UNCHANGED ofp

\* Mutant: a failure on one SUT does not keep the keyword from its end.
DeleteBridgeAnyway ==
  /\ In("delete_bridge")
  /\ \/ /\ Succeeds(Ovs.br, NoBridge)
        /\ objs' = [objs EXCEPT ![sut] = IF HasBridge THEN Tail(@) ELSE @]
     \/ UNCHANGED <<ovs, objs, faults>>
  /\ NextSut
  /\ UNCHANGED ofp

\* del-br, then bridges.remove(get_bridge(...)): a ValueError when there is none.
DeleteBridge ==
  /\ In("delete_bridge")
  /\ \/ /\ Succeeds(Ovs.br, NoBridge)
        /\ IF HasBridge THEN objs' = [objs EXCEPT ![sut] = Tail(@)] /\ NextSut
                        ELSE UNCHANGED objs /\ Errs
     \/ Raises(Ovs.br, {NoBridge}) /\ UNCHANGED objs
  /\ UNCHANGED ofp

-------------------------------------------------------------------------------
(* create_uplink_bridge and delete_uplink_bridge. *)

\* create_bridge, then the addresses and routes of the tunnel end point, then the
\* uplink port, or the bond of all uplinks, whose objects are added beforehand.
CreateUplinkBridge ==
  /\ In("uplink_create") /\ pos = 1
  /\ \/ BridgeCreated(NextPos)
     \/ Raises(~Ovs.br, {EmptyBridge}) /\ UNCHANGED objs
  /\ UNCHANGED ofp

AddTepAddress ==
  /\ In("uplink_create") /\ pos = 2
  /\ \/ Succeeds(TRUE, Ovs) /\ NextPos
     \/ Raises(TRUE, {Ovs})
  /\ UNCHANGED <<objs, ofp>>

AddUplink(bond) ==
  /\ In("uplink_create") /\ pos = 3
  /\ ofp' = [ofp EXCEPT ![sut] = TRUE]
  /\ LET ok == Ovs.br /\ ~Ovs.uplink
         added == [Ovs EXCEPT !.uplink = TRUE]
     IN \/ /\ Succeeds(ok, added)
           /\ SetBr([Br EXCEPT !.uplinks = TRUE])
           /\ NextSut
        \/ /\ Raises(ok, {added})
           /\ IF bond THEN SetBr([Br EXCEPT !.uplinks = TRUE]) ELSE UNCHANGED objs

DeleteUplinkBridge ==
  /\ In("uplink_delete") /\ HasBridge
  /\ ofp' = [ofp EXCEPT ![sut] = @ /\ ~Br.uplinks]
  /\ \/ /\ Succeeds(Ovs.br, NoBridge)
        /\ objs' = [objs EXCEPT ![sut] = Tail(@)]
        /\ NextSut
     \/ Raises(Ovs.br, {NoBridge}) /\ UNCHANGED objs

\* get_bridge returned None: AttributeError before any command.
WithoutBridge ==
  /\ In(kw) /\ kw \in {"uplink_delete", "tnl_ports", "tnl_delete"}
  /\ ~HasBridge
  /\ Errs
  /\ UNCHANGED <<objs, ovs, ofp, faults>>

-------------------------------------------------------------------------------
(* add_vif_ports and delete_vif_ports: for each VM of the SUT, for each VIF. *)

AddVif ==
  /\ In("add_vifs") /\ pos <= NVifs
  /\ LET ok == Ovs.br /\ pos \notin Ovs.vifs
         added == [Ovs EXCEPT !.vifs = @ \cup {pos}]
     IN \/ /\ Succeeds(ok, added)
           /\ IF HasBridge THEN SetBr([Br EXCEPT !.vifs = @ \cup {pos}]) /\ NextPos
                           ELSE UNCHANGED objs /\ Errs
        \/ Raises(ok, {added}) /\ UNCHANGED objs
  /\ UNCHANGED ofp

\* delete_interface changes Open vSwitch only.
DeleteVif ==
  /\ In("delete_vifs") /\ pos <= NVifs
  /\ LET ok == Ovs.br /\ pos \in Ovs.vifs
         removed == [Ovs EXCEPT !.vifs = @ \ {pos}]
     IN \/ Succeeds(ok, removed) /\ NextPos
        \/ Raises(ok, {removed})
  /\ UNCHANGED <<objs, ofp>>

VifsDone ==
  /\ In(kw) /\ kw \in {"add_vifs", "delete_vifs"} /\ pos > NVifs
  /\ NextSut
  /\ UNCHANGED <<objs, ovs, ofp, faults>>

-------------------------------------------------------------------------------
(* deploy_vni_as_tunnel_overlay. *)

\* One port per remote SUT unless rip_mode is 'flow'.  (Every VIF keeps VNI_NONE, so
\* a tun_id_mode other than 'flow' gives one port per remote as well.)
PortsPerSut == IF args.rip = "flow" THEN 1 ELSE NSuts - 1

\* Mutant: the id is read from the allocator, not taken.
CreateTunnelPortPeek ==
  /\ In("tnl_ports") /\ HasBridge /\ pos <= PortsPerSut
  /\ Br.ids # <<>>
  /\ LET id == Head(Br.ids)
         ok == Ovs.br /\ id \notin Ovs.tnl
         added == [Ovs EXCEPT !.tnl = @ \cup {id}]
     IN \/ /\ Succeeds(ok, added)
           /\ SetBr([Br EXCEPT !.tnl_ports = Append(@, id)])
           /\ NextPos
        \/ Raises(ok, {added}) /\ UNCHANGED objs
  /\ UNCHANGED ofp

\* create_tunnel_port: the id is taken before the command runs.
CreateTunnelPort ==
  /\ In("tnl_ports") /\ HasBridge /\ pos <= PortsPerSut
  /\ Br.ids # <<>>
  /\ LET id == Head(Br.ids)
         ok == Ovs.br /\ id \notin Ovs.tnl
         added == [Ovs EXCEPT !.tnl = @ \cup {id}]
         got == [Br EXCEPT !.ids = Tail(@)]
     IN \/ /\ Succeeds(ok, added)
           /\ SetBr([got EXCEPT !.tnl_ports = Append(@, id)])
           /\ NextPos
        \/ Raises(ok, {added}) /\ SetBr(got)
  /\ UNCHANGED ofp

\* ids.pop(0) from an empty list: IndexError.
NoTunnelId ==
  /\ In("tnl_ports") /\ HasBridge /\ pos <= PortsPerSut
  /\ Br.ids = <<>>
  /\ Errs
  /\ UNCHANGED <<objs, ovs, ofp, faults>>

TunnelPortsDone ==
  /\ In("tnl_ports") /\ HasBridge /\ pos > PortsPerSut
  /\ NextSut
  /\ UNCHANGED <<objs, ovs, ofp, faults>>

\* setup_default_pipeline_on_all_suts: del-flows, then the flows one by one.
SetupPipeline ==
  /\ In("pipeline")
  /\ LET cleared == [Ovs EXCEPT !.flows = "none"]
         set == [Ovs EXCEPT !.flows = "native"]
     IN (Succeeds(Ovs.br, set) /\ NextSut) \/ Raises(Ovs.br, {cleared, set})
  /\ UNCHANGED <<objs, ofp>>

\* _add_tlv_map, only with tnl_md.
AddTlvMap ==
  /\ In("overlay") /\ pos = 1
  /\ IF args.md
       THEN LET ok == Ovs.br /\ ~Ovs.tlv
                added == [Ovs EXCEPT !.tlv = TRUE]
            IN \/ Succeeds(ok, added) /\ SetBr([Br EXCEPT !.with_md = TRUE]) /\ NextPos
               \/ Raises(ok, {added}) /\ UNCHANGED objs
       ELSE NextPos /\ UNCHANGED <<objs, ovs, faults>>
  /\ UNCHANGED ofp

\* Mutant: the flows of a deployment with metadata are those without.
SetupOverlayFlowsPlain ==
  /\ In("overlay") /\ pos = 2
  /\ LET set == [Ovs EXCEPT !.flows = "overlay"]
     IN (Succeeds(Ovs.br, set) /\ NextSut) \/ Raises(Ovs.br, {set})
  /\ UNCHANGED <<objs, ofp>>

\* The input and output tables are cleared and written again for the overlay.
SetupOverlayFlows ==
  /\ In("overlay") /\ pos = 2
  /\ LET ok == Ovs.br /\ (args.md => Ovs.tlv)
         set == [Ovs EXCEPT !.flows = IF args.md THEN "metadata" ELSE "overlay"]
     IN (Succeeds(ok, set) /\ NextSut) \/ Raises(ok, {set})
  /\ UNCHANGED <<objs, ofp>>

-------------------------------------------------------------------------------
(* undeploy_vni_as_tunnel_overlay. *)

ClearFlows ==
  /\ In("clear") /\ pos = 1
  /\ LET cleared == [Ovs EXCEPT !.flows = "none"]
     IN (Succeeds(Ovs.br, cleared) /\ NextPos) \/ Raises(Ovs.br, {cleared})
  /\ UNCHANGED <<objs, ofp>>

\* _del_tlv_map, refused while a flow refers to the map.
DelTlvMap ==
  /\ In("clear") /\ pos = 2
  /\ IF ~HasBridge THEN Errs /\ UNCHANGED <<objs, ovs, faults>>
     ELSE IF Br.with_md
       THEN LET ok == Ovs.br /\ Ovs.flows # "metadata"
                deleted == [Ovs EXCEPT !.tlv = FALSE]
            IN \/ Succeeds(ok, deleted) /\ SetBr([Br EXCEPT !.with_md = FALSE]) /\ NextSut
               \/ Raises(ok, {deleted}) /\ UNCHANGED objs
       ELSE NextSut /\ UNCHANGED <<objs, ovs, faults>>
  /\ UNCHANGED ofp

\* Mutant: the id is not put back.
DeleteTunnelPortKeepsId ==
  /\ In("tnl_delete") /\ HasBridge /\ pos <= Len(Br.tnl_ports)
  /\ LET id == Br.tnl_ports[pos]
         ok == Ovs.br /\ id \in Ovs.tnl
         removed == [Ovs EXCEPT !.tnl = @ \ {id}]
     IN \/ /\ Succeeds(ok, removed)
           /\ SetBr([Br EXCEPT !.tnl_ports = RemoveAt(@, pos)])
           /\ NextPos
        \/ Raises(ok, {removed}) /\ UNCHANGED objs
  /\ UNCHANGED ofp

\* "for tnl_port in br.tnl_ports": delete_tunnel_port removes from the list that is
\* being iterated, so the element after the removed one is passed over.
DeleteTunnelPort ==
  /\ In("tnl_delete") /\ HasBridge /\ pos <= Len(Br.tnl_ports)
  /\ LET id == Br.tnl_ports[pos]
         ok == Ovs.br /\ id \in Ovs.tnl
         removed == [Ovs EXCEPT !.tnl = @ \ {id}]
     IN \/ /\ Succeeds(ok, removed)
           /\ SetBr([Br EXCEPT !.ids = Append(@, id), !.tnl_ports = RemoveAt(@, pos)])
           /\ NextPos
        \/ Raises(ok, {removed}) /\ UNCHANGED objs
  /\ UNCHANGED ofp

TunnelPortsDeleted ==
  /\ In("tnl_delete") /\ HasBridge /\ pos > Len(Br.tnl_ports)
  /\ NextSut
  /\ UNCHANGED <<objs, ovs, ofp, faults>>

-------------------------------------------------------------------------------
(* set_vif_vni_by_idx_on_vm, set_vif_vni_by_idx_on_host and reset_vif_vni_on_all_suts. *)

\* The VIFs of sut.vms: SUT.__init__ leaves that list empty and keeps the VMs in
\* numa.vms (get_vms), so there are none.
VifsOfSutVms == {}

\* for vm in sut.vms: for vif in vm.vifs: vif.vni = ...
SetVni ==
  /\ In("set_vni")
  /\ vni' = [vni EXCEPT ![sut] = [v \in Vifs |-> IF v \in VifsOfSutVms THEN v ELSE @[v]]]
  /\ sut' = sut + 1
  /\ UNCHANGED <<objs, ovs, ofp, kw, pos, args, done, faults>>

-------------------------------------------------------------------------------
Keywords == {"create_bridge", "delete_bridge", "uplink_create", "uplink_delete", "add_vifs",
             "delete_vifs", "clear", "set_vni"}

Call(k) == Begin(k) /\ UNCHANGED args

Deploy(rip, md) == Begin("tnl_ports") /\ args' = [rip |-> rip, md |-> md]

Next ==
  \/ \E k \in Keywords : Call(k)
  \/ \E rip \in {"flow", "non-flow"}, md \in BOOLEAN : Deploy(rip, md)
  \/ EndLoop
  \/ CreateBridge \/ DeleteBridge
  \/ CreateUplinkBridge \/ AddTepAddress \/ DeleteUplinkBridge
  \/ \E bond \in BOOLEAN : AddUplink(bond)
  \/ WithoutBridge
  \/ AddVif \/ DeleteVif \/ VifsDone
  \/ CreateTunnelPort \/ NoTunnelId \/ TunnelPortsDone
  \/ SetupPipeline \/ AddTlvMap \/ SetupOverlayFlows
  \/ ClearFlows \/ DelTlvMap \/ DeleteTunnelPort \/ TunnelPortsDeleted
  \/ SetVni

Spec == Init /\ [][Next]_vars

-------------------------------------------------------------------------------
(* Properties. *)

BridgeObjects ==
  [tnl_ports : Seq(Ids), ids : Seq(Ids), vifs : SUBSET Vifs, uplinks : BOOLEAN, with_md : BOOLEAN]

OvsStates ==
  [br : BOOLEAN, tnl : SUBSET Ids, vifs : SUBSET Vifs, uplink : BOOLEAN, tlv : BOOLEAN,
   flows : {"none", "native", "overlay", "metadata"}]

\* Type correctness.
TypeOK ==
  /\ objs \in [Suts -> Seq(BridgeObjects)]
  /\ ovs \in [Suts -> OvsStates]
  /\ ofp \in [Suts -> BOOLEAN]
  /\ vni \in [Suts -> [Vifs -> Nat]]
  /\ kw \in Keywords \cup {"idle", "tnl_ports", "pipeline", "overlay", "tnl_delete"}
  /\ sut \in 1..(NSuts + 1)
  /\ pos \in Nat \ {0}
  /\ args \in [rip : {"flow", "non-flow"}, md : BOOLEAN]
  /\ faults \in 0..MaxFaults

\* An id that the allocator would hand out is not the id of a port, neither of one
\* the bridge object lists nor of one that Open vSwitch still has after a command
\* that failed half way; and no id is in the allocator twice (vswitch.py:53-72,
\* 255-293).
FreeIdsAreFree ==
  \A s \in Suts : objs[s] # <<>> =>
    LET b == objs[s][1]
    IN  /\ IsInjective(b.ids) /\ IsInjective(b.tnl_ports)
        /\ Range(b.ids) \cap (Range(b.tnl_ports) \cup ovs[s].tnl) = {}

\* The Bridge objects o agree with the Open vSwitch state v.
Agree(o, v) ==
  /\ v.br <=> o # <<>>
  /\ Len(o) <= 1
  /\ o # <<>> =>
       /\ Range(o[1].tnl_ports) = v.tnl
       /\ Len(o[1].tnl_ports) + Len(o[1].ids) = Len(TunnelIds)
       /\ o[1].uplinks = v.uplink
       /\ o[1].with_md = v.tlv

\* Between keywords, as long as no command has failed by itself, the Python objects
\* and Open vSwitch agree on the bridge, its uplink, its tunnel ports and its
\* metadata map, and no tunnel id is lost, whatever keywords were called and refused.
Mirror == kw = "idle" /\ faults = 0 => \A s \in Suts : Agree(objs[s], ovs[s])

\* A delete_bridge keyword that completes has removed the bridge from every SUT,
\* whatever failed before it (pal.py:55-61).
DeletedEverywhere ==
  done = "delete_bridge" => \A s \in Suts : ovs[s] = NoBridge

\* A deployment that completes leaves on every SUT at least the tunnel ports its
\* mode calls for, listed and present, and the flows of that mode (overlay.py:157-180).
DeployedEverywhere ==
  done = "overlay" =>
    \A s \in Suts :
      /\ Cardinality(Range(objs[s][1].tnl_ports) \cap ovs[s].tnl) >= PortsPerSut
      /\ ovs[s].flows = IF args.md THEN "metadata" ELSE "overlay"

-------------------------------------------------------------------------------
(* The inductive invariant: what holds of every SUT at every step, and what a *)
(* keyword in progress has already done on the SUTs before the current one.   *)

\* In every Bridge object no id is in use twice or both free and in use; and the
\* free ids of the one get_bridge returns are not in Open vSwitch either.
Sound(o, v) ==
  /\ \A i \in 1..Len(o) : /\ IsInjective(o[i].ids) /\ IsInjective(o[i].tnl_ports)
                          /\ Range(o[i].ids) \cap Range(o[i].tnl_ports) = {}
  /\ o # <<>> => Range(o[1].ids) \cap v.tnl = {}

Reset == kw # "idle" => done = "none"

\* create_uplink_bridge is at work on a bridge that has no uplink yet.
UplinkPending ==
  kw = "uplink_create" /\ sut <= NSuts /\ pos # 1 =>
    objs[sut] # <<>> /\ ovs[sut].br /\ ~ovs[sut].uplink

DeleteProgress ==
  /\ kw = "delete_bridge" => \A s \in Suts : s < sut => ovs[s] = NoBridge
  /\ DeletedEverywhere

\* SUT s has at least k tunnel ports that are both listed and present.
Tunnelled(s, k) ==
  /\ objs[s] # <<>>
  /\ Cardinality(Range(objs[s][1].tnl_ports) \cap ovs[s].tnl) >= k

WantedFlows == IF args.md THEN "metadata" ELSE "overlay"

DeployProgress ==
  /\ kw = "tnl_ports" =>
       /\ \A s \in Suts : s < sut => Tunnelled(s, PortsPerSut)
       /\ sut <= NSuts /\ pos # 1 => Tunnelled(sut, pos - 1)
  /\ kw \in {"pipeline", "overlay"} \/ done = "overlay" =>
       \A s \in Suts : Tunnelled(s, PortsPerSut)
  /\ kw = "overlay" => \A s \in Suts : s < sut => ovs[s].flows = WantedFlows
  /\ done = "overlay" => \A s \in Suts : ovs[s].flows = WantedFlows

SutsSound ==
  \A s \in Suts : Sound(objs[s], ovs[s]) /\ (faults = 0 => Agree(objs[s], ovs[s]))

Progress == Reset /\ UplinkPending /\ DeleteProgress /\ DeployProgress

VSwitchInv == TypeOK /\ SutsSound /\ Progress

\* undeploy_vni_as_tunnel_overlay: "Undeply tunnel based overlay" (overlay.py:183).
UndeployedEverywhere ==
  done = "tnl_delete" => \A s \in Suts : ovs[s].tnl = {}

\* set_vif_vni_by_idx_on_vm: "Assign VNIs to VIFs" (overlay.py:127).
VnisAssigned ==
  done = "set_vni" => \A s \in Suts, v \in Vifs : vni[s][v] # VNI_NONE

===============================================================================
