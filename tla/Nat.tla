----------------------------------- MODULE Nat -----------------------------------
(*****************************************************************************)
(* NAT (nat.py): the addresses of the VIFs and of the guests, the NAT tables *)
(* on the client's SUT, the connections that are tracked there, and the      *)
(* processes and iptables rules that the keywords leave in the guests.       *)
(*                                                                           *)
(* Endpoint 0 is the client, the others are the servers in the order of      *)
(* get_full_deps.  How a packet goes through the tables and how programs in  *)
(* the guests behave is external.  The tables before and after NAT are in    *)
(* Pipeline, the start of VMs is in VmLifecycle.                             *)
(*****************************************************************************)
EXTENDS Integers, FiniteSets, Sequences

CONSTANTS
  NDeps,      \* destinations in the entry of the verify topology
  GetDeps,    \* get_deps(): a destination of each locality that has one
  NeighNum,   \* _NAT_SNAT_ADDR_NUM
  Calls,      \* the arguments that verify_snat and verify_dnat are called with
  MaxCalls,   \* bound: keywords called
  MaxFaults   \* bound: commands that cannot be executed, or guests half configured

Client == 0
Deps == 1..NDeps
Eps == 0..NDeps

\* The arguments of a keyword.  DNAT is to one server, with one telnet or ping.
Tools == {"telnet", "ping", "tftp", "ftp", "related", "none"}
Arguments ==
  {a \in [kind : {"snat", "dnat"}, tool : Tools, ips : Nat \ {0}, svrs : Nat, par : Nat \ {0}] :
     a.kind = "dnat" => a.svrs <= 1 /\ a.par = 1}

ASSUME NatAssumption ==
  /\ NDeps \in Nat \ {0} /\ NeighNum \in Nat /\ MaxCalls \in Nat /\ MaxFaults \in Nat
  /\ GetDeps \in Seq(Deps) /\ GetDeps # <<>>
  /\ Calls \subseteq {a \in Arguments : a.tool \notin {"related", "none"}}

VARIABLES
  ifAddr,   \* vif.if_addr
  saved,    \* vif.restore_if_addr
  guest,    \* address of each guest, and SNAT addresses it has neighbours for
  allow,    \* entries in vt.allow
  flows,    \* NAT tables: SNAT addresses of "any" flows, "vip" flows, addresses of MAC flows
  ct,       \* tracked connections on the client's SUT
  procs,    \* processes that keywords started in guests
  rules,    \* iptables rules in each guest
  kw,       \* the keyword in progress
  ended,    \* how the last keyword ended
  proper,   \* addresses were configured and restored in turns, each completely
  calls, faults

vars == <<ifAddr, saved, guest, allow, flows, ct, procs, rules, kw, ended, proper, calls, faults>>

\* Addresses: a VIF's own, the NAT network's (of the client, or a server's by its
\* index from _NAT_ENDPOINT_ADDR_IDX_START), and None.
Orig(e) == <<"orig", e>>
NatAddr(e) == IF e = Client THEN <<"client", 0>> ELSE <<"server", e - 1>>
None == <<"none", 0>>
Vip == <<"vip", 0>>
Flushed == <<"flushed", 0>>

NoFlows == [any |-> 0, vip |-> FALSE, macs |-> {}]
NoArgs == [kind |-> "snat", tool |-> "none", ips |-> 1, svrs |-> 0, par |-> 1]
Idle == [name |-> "idle", pos |-> 0, args |-> NoArgs, alone |-> TRUE]

Init ==
  /\ ifAddr = [e \in Eps |-> Orig(e)]
  /\ saved = [e \in Eps |-> None]
  /\ guest = [e \in Eps |-> [addr |-> Orig(e), neighs |-> 0]]
  /\ allow \in 0..2
  /\ flows = NoFlows
  /\ ct = {}
  /\ procs = {}
  /\ rules = [e \in Eps |-> 0]
  /\ kw = Idle
  /\ ended = "none"
  /\ proper = TRUE
  /\ calls = 0 /\ faults = 0

-------------------------------------------------------------------------------
(* Calls. *)

Begin(name, args) ==
  /\ kw.name = "idle" /\ calls < MaxCalls
  /\ calls' = calls + 1
  /\ kw' = [name |-> name, pos |-> 0, args |-> args, alone |-> procs = {}]
  /\ ended' = "none"

At(name, pos) == kw.name = name /\ kw.pos = pos
Goto(name) == kw' = [kw EXCEPT !.name = name, !.pos = 0]
Step == kw' = [kw EXCEPT !.pos = @ + 1]
End(how) == kw' = Idle /\ ended' = how

\* A call of execute returns when nobody holds the command's output any more
\* (ExecCommand): a background process that was not redirected keeps it waiting.
Returned == \A p \in procs : ~(p.holds /\ p.call = calls)

Guests == <<ifAddr, saved, guest, allow, proper>>
Net == <<flows, ct, procs, rules>>

\* A command that cannot be executed raises, and the keyword is over.
Raise ==
  /\ kw.name # "idle" /\ Returned /\ faults < MaxFaults
  /\ faults' = faults + 1
  /\ End("raised")
  /\ UNCHANGED <<Guests, Net, calls>>

-------------------------------------------------------------------------------
(* Addresses. *)

configure_vms(kind) ==
  /\ IF allow = 0
       THEN /\ kw.name = "idle" /\ calls < MaxCalls /\ calls' = calls + 1
            /\ End("raised")
            /\ UNCHANGED <<allow, proper>>
       ELSE /\ Begin("configure", [NoArgs EXCEPT !.kind = kind])
            /\ allow' = 1
            /\ proper' = (proper /\ \A e \in Eps : saved[e] = None)
  /\ UNCHANGED <<ifAddr, saved, guest, Net, faults>>

\* _configure_vm: neighbours are permanent, and no command's result is looked at.
_configure_vm(e, kind) ==
  LET n == IF kind = "snat" /\ e # Client THEN NeighNum ELSE 0
      neighs == IF n > guest[e].neighs THEN n ELSE guest[e].neighs
  IN  \/ /\ guest' = [guest EXCEPT ![e] = [addr |-> NatAddr(e), neighs |-> neighs]]
         /\ UNCHANGED faults
      \/ /\ faults < MaxFaults /\ faults' = faults + 1
         /\ guest' = [guest EXCEPT ![e].addr = Flushed]

\* Mutant: the new address is set before the old one is saved.
ConfigureEndpointTooLate(e) ==
  /\ At("configure", e) /\ e \in Eps
  /\ saved' = [saved EXCEPT ![e] = NatAddr(e)]
  /\ ifAddr' = [ifAddr EXCEPT ![e] = NatAddr(e)]
  /\ _configure_vm(e, kw.args.kind)
  /\ Step
  /\ UNCHANGED <<allow, proper, Net, ended, calls>>

\* _nat_configure_vms, the source first and then each of get_full_deps.
ConfigureEndpoint(e) ==
  /\ At("configure", e) /\ e \in Eps
  /\ saved' = [saved EXCEPT ![e] = ifAddr[e]]
  /\ ifAddr' = [ifAddr EXCEPT ![e] = NatAddr(e)]
  /\ _configure_vm(e, kw.args.kind)
  /\ Step
  /\ UNCHANGED <<allow, proper, Net, ended, calls>>

\* The guest cannot be reached: the objects are changed, the guest is not.
ConfigureRaises(e) ==
  /\ At("configure", e) /\ e \in Eps /\ faults < MaxFaults
  /\ saved' = [saved EXCEPT ![e] = ifAddr[e]]
  /\ ifAddr' = [ifAddr EXCEPT ![e] = NatAddr(e)]
  /\ faults' = faults + 1
  /\ End("raised")
  /\ UNCHANGED <<guest, allow, proper, Net, calls>>

Configured ==
  /\ At("configure", NDeps + 1)
  /\ End("configured")
  /\ UNCHANGED <<Guests, Net, calls, faults>>

\* nat_restore_vms: the objects only; vt.allow[0] is an IndexError on an empty list.
nat_restore_vms ==
  /\ kw.name = "idle" /\ calls < MaxCalls /\ calls' = calls + 1
  /\ IF allow = 0
       THEN End("raised") /\ UNCHANGED <<ifAddr, saved, proper>>
       ELSE /\ End("restored")
            /\ ifAddr' = saved
            /\ saved' = [e \in Eps |-> None]
            /\ proper' = (proper /\ \A e \in Eps : saved[e] # None)
  /\ UNCHANGED <<guest, allow, Net, faults>>

\* The VMs are stopped and started by the next suite: Guest.configure sets the
\* address of each VIF object, and fails on None.
RestartVms ==
  /\ kw.name = "idle" /\ calls < MaxCalls /\ calls' = calls + 1
  /\ End(IF \E e \in Eps : ifAddr[e] = None THEN "raised" ELSE "restarted")
  /\ guest' = [e \in Eps |-> [addr |-> IF \E d \in 0..e : ifAddr[d] = None THEN Flushed ELSE ifAddr[e],
                              neighs |-> 0]]
  /\ procs' = {} /\ rules' = [e \in Eps |-> 0]
  /\ UNCHANGED <<ifAddr, saved, allow, flows, ct, proper, faults>>

-------------------------------------------------------------------------------
(* verify_snat, verify_dnat and their related variants. *)

Files == {"tftp", "ftp"}

\* raise "..." when the topology was not trimmed; parallel file copies are refused.
verify(args) ==
  /\ IF allow # 1 \/ (args.tool \in Files /\ args.par > 1)
       THEN /\ kw.name = "idle" /\ calls < MaxCalls /\ calls' = calls + 1
            /\ End(IF allow # 1 THEN "raised" ELSE "refused")
       ELSE Begin("flush", args)
  /\ UNCHANGED <<Guests, Net, faults>>

verify_related(kind) ==
  /\ IF allow # 1
       THEN /\ kw.name = "idle" /\ calls < MaxCalls /\ calls' = calls + 1 /\ End("raised")
       ELSE Begin("flush", [NoArgs EXCEPT !.kind = kind, !.tool = "related"])
  /\ UNCHANGED <<Guests, Net, faults>>

\* Mutant: the trackers are not flushed.
FlushConntrackNot ==
  /\ At("flush", 0)
  /\ Goto("setup")
  /\ UNCHANGED <<Guests, Net, ended, calls, faults>>

FlushConntrack ==
  /\ At("flush", 0)
  /\ ct' = {}
  /\ Goto("setup")
  /\ UNCHANGED <<Guests, flows, procs, rules, ended, calls, faults>>

\* _nat_setup_flows: setup_default_pipeline_on_all_suts deletes all flows first.
SetupPipeline ==
  /\ At("setup", 0)
  /\ flows' = NoFlows
  /\ Step
  /\ UNCHANGED <<Guests, ct, procs, rules, ended, calls, faults>>

\* Mutant: the range of addresses ends one too late.
IaRangePlus(args) == args.ips + 1

\* generate_nat_action: a range with both ends.
IaRange(args) == args.ips

\* The flows for new connections, by what they match, and for MAC addresses.
SetupFlows ==
  /\ At("setup", 1)
  /\ IF \E e \in Eps : ifAddr[e] = None
       THEN End("raised") /\ UNCHANGED flows
       ELSE /\ flows' = [any  |-> IF kw.args.kind = "snat" THEN IaRange(kw.args) ELSE flows.any,
                         vip  |-> flows.vip \/ kw.args.kind = "dnat",
                         macs |-> flows.macs \cup {<<ifAddr[e], e>> : e \in Eps}]
            /\ Goto(CASE kw.args.tool = "related" -> "related"
                      [] kw.args.tool \in Files   -> "copy"
                      [] OTHER                    -> "launch")
            /\ UNCHANGED ended
  /\ UNCHANGED <<Guests, ct, procs, rules, calls, faults>>

\* A process: what it runs, where, its connection's server and address, its number in
\* the keyword, and whether it holds the output of the command that started it.
Proc(prog, at, svr, dst, n, holds) ==
  [prog |-> prog, at |-> at, svr |-> svr, dst |-> dst, n |-> n, holds |-> holds, call |-> calls]

\* telnet or ping number pos, both address families of each; DNAT goes to one server.
Total(args) == 2 * args.par * args.svrs
Server == (kw.pos \div (2 * kw.args.par)) + 1
Dst(s) == IF kw.args.kind = "snat" THEN ifAddr[s] ELSE Vip

\* get_full_deps()[s] is an IndexError when there are fewer destinations.  The
\* commands of verify_snat are not redirected, those of verify_dnat are.
Launch ==
  /\ kw.name = "launch" /\ kw.pos < Total(kw.args) /\ Returned
  /\ IF Server \notin Deps
       THEN End("raised") /\ UNCHANGED procs
       ELSE /\ procs' = procs \cup {Proc(kw.args.tool, Client, Server, Dst(Server), kw.pos,
                                         kw.args.kind = "snat")}
            /\ Step
            /\ UNCHANGED ended
  /\ UNCHANGED <<Guests, flows, ct, rules, calls, faults>>

\* _check_nat_result counts what is tracked, of the protocol or of any.
Live == IF kw.args.tool = "telnet" THEN {c \in ct : c.p.prog = "telnet"} ELSE ct

CheckNatResult ==
  /\ At("launch", Total(kw.args)) /\ Returned
  /\ IF Cardinality(Live) # Total(kw.args) THEN End("raised") ELSE Goto("kill") /\ UNCHANGED ended
  /\ UNCHANGED <<Guests, Net, calls, faults>>

KillClients ==
  /\ At("kill", 0)
  /\ procs' = {p \in procs : ~(p.at = Client /\ p.prog = kw.args.tool)}
  /\ End("verified")
  /\ UNCHANGED <<Guests, flows, ct, rules, calls, faults>>

\* execute_tftp and execute_ftp, server by server: failures are logged at most.
CopyFiles ==
  /\ kw.name = "copy"
  /\ IF kw.pos = kw.args.svrs THEN End("copied")
     ELSE IF kw.pos + 1 \notin Deps THEN End("raised")
     ELSE Step /\ UNCHANGED ended
  /\ UNCHANGED <<Guests, Net, calls, faults>>

-------------------------------------------------------------------------------
(* _nat_execute_related: for each destination, direction and address family. *)

RelatedDeps == IF kw.args.kind = "snat" THEN GetDeps ELSE <<1>>

\* The rounds: position r * RelatedSteps + k is step k of round r.
RelatedSteps == 5
Round == kw.pos \div RelatedSteps
RoundStep == kw.pos % RelatedSteps
Rounds == 4 * Len(RelatedDeps)
Dep == RelatedDeps[(Round \div 4) + 1]
FromClient == (Round \div 2) % 2 = 0
CaptureAt == IF FromClient THEN Dep ELSE Client
RejectAt == IF FromClient THEN Client ELSE Dep

InRound(k) == kw.name = "related" /\ Round < Rounds /\ RoundStep = k /\ Returned

\* Mutant: the programs' output is not redirected.
StartNcHeld ==
  /\ InRound(0)
  /\ procs' = procs \cup {Proc("nc", Dep, Dep, None, 0, TRUE),
                          Proc("nc", Client, Dep, Dst(Dep), 0, TRUE)}
  /\ Step
  /\ UNCHANGED <<Guests, flows, ct, rules, ended, calls, faults>>

StartNc ==
  /\ InRound(0)
  /\ procs' = procs \cup {Proc("nc", Dep, Dep, None, 0, FALSE),
                          Proc("nc", Client, Dep, Dst(Dep), 0, FALSE)}
  /\ Step
  /\ UNCHANGED <<Guests, flows, ct, rules, ended, calls, faults>>

StartTcpdump ==
  /\ InRound(1)
  /\ procs' = procs \cup {Proc("tcpdump", CaptureAt, Dep, None, 0, FALSE)}
  /\ Step
  /\ UNCHANGED <<Guests, flows, ct, rules, ended, calls, faults>>

Reject ==
  /\ InRound(2)
  /\ rules' = [rules EXCEPT ![RejectAt] = @ + 1]
  /\ Step
  /\ UNCHANGED <<Guests, flows, ct, procs, ended, calls, faults>>

\* Mutant: the rule is deleted where the capture was.
AcceptElsewhere ==
  /\ InRound(3)
  /\ rules' = [rules EXCEPT ![CaptureAt] = IF @ = 0 THEN 0 ELSE @ - 1]
  /\ Step
  /\ UNCHANGED <<Guests, flows, ct, procs, ended, calls, faults>>

\* After the capture was read; a rule that is not there is not deleted, which is logged.
Accept ==
  /\ InRound(3)
  /\ rules' = [rules EXCEPT ![RejectAt] = IF @ = 0 THEN 0 ELSE @ - 1]
  /\ Step
  /\ UNCHANGED <<Guests, flows, ct, procs, ended, calls, faults>>

\* kill_process: all of that name in the guest; what was captured is logged at most.
KillRelated ==
  /\ InRound(4)
  /\ procs' = {p \in procs : ~(\/ p.prog = "tcpdump" /\ p.at = CaptureAt
                               \/ p.prog = "nc" /\ p.at \in {Client, Dep})}
  /\ Step
  /\ UNCHANGED <<Guests, flows, ct, rules, ended, calls, faults>>

RelatedDone ==
  /\ kw.name = "related" /\ Round = Rounds
  /\ End("related")
  /\ UNCHANGED <<Guests, Net, calls, faults>>

-------------------------------------------------------------------------------
(* Guests and Open vSwitch (external). *)

\* Everything that a connection to a server needs was configured.
Ready(args, svr) ==
  /\ \A e \in {Client, svr} : guest[e].addr = NatAddr(e) /\ ifAddr[e] = NatAddr(e) /\ rules[e] = 0
  /\ args.kind = "snat" => guest[svr].neighs = NeighNum /\ args.ips <= NeighNum

\* A packet to address a reaches server e, whose answer comes back.  The server needs
\* a neighbour for the client's address as it sees it: SNAT address x, if x >= 0.
Answered(a, e, x) ==
  /\ <<a, e>> \in flows.macs /\ guest[e].addr = a /\ rules[e] = 0
  /\ x < guest[e].neighs
  /\ <<guest[Client].addr, Client>> \in flows.macs /\ rules[Client] = 0

Entry(p, answered) ==
  LET ready == kw.name = "launch" /\ p.call = calls /\ Ready(kw.args, p.svr)
  IN  [p |-> p, missed |-> ready /\ ~answered]

\* A client's packet meets table NAT+1: a flow for new connections commits it.
Track(p) ==
  /\ p.prog # "tcpdump" /\ p.at = Client
  /\ \A c \in ct : c.p # p
  /\ \/ \E x \in 0..(flows.any - 1) :
          ct' = ct \cup {Entry(p, Answered(p.dst, p.svr, x))}
     \/ /\ flows.vip /\ p.dst = Vip
        /\ ct' = ct \cup {Entry(p, Answered(NatAddr(1), 1, -1))}
  /\ UNCHANGED <<Guests, flows, procs, rules, kw, ended, calls, faults>>

\* telnet and ping end by themselves; nc may, at the client.
Quit(p) ==
  /\ p.prog \in {"telnet", "ping"} \/ (p.prog = "nc" /\ p.at = Client)
  /\ procs' = procs \ {p}
  /\ UNCHANGED <<Guests, flows, ct, rules, kw, ended, calls, faults>>

Expire(c) ==
  /\ faults < MaxFaults /\ faults' = faults + 1
  /\ ct' = ct \ {c}
  /\ UNCHANGED <<Guests, flows, procs, rules, kw, ended, calls>>

-------------------------------------------------------------------------------
Keyword ==
  \/ \E e \in Eps : ConfigureEndpoint(e) \/ ConfigureRaises(e)
  \/ Configured
  \/ FlushConntrack \/ SetupPipeline \/ SetupFlows
  \/ Launch \/ CheckNatResult \/ KillClients \/ CopyFiles
  \/ StartNc \/ StartTcpdump \/ Reject \/ Accept \/ KillRelated \/ RelatedDone

Next ==
  \/ \E kind \in {"snat", "dnat"} : configure_vms(kind) \/ verify_related(kind)
  \/ nat_restore_vms \/ RestartVms
  \/ \E args \in Calls : verify(args)
  \/ Keyword \/ Raise
  \/ \E p \in procs : Track(p) \/ Quit(p)
  \/ \E c \in ct : Expire(c)

\* The keyword goes on, and telnet and ping come to an end.
Fairness ==
  /\ WF_vars(Keyword)
  /\ WF_vars(\E p \in procs : p.prog \in {"telnet", "ping"} /\ Quit(p))

Spec == Init /\ [][Next]_vars /\ Fairness

-------------------------------------------------------------------------------
(* Properties. *)

Addrs == {Orig(e) : e \in Eps} \cup {NatAddr(e) : e \in Eps} \cup {None, Vip, Flushed}
GuestStates == [addr : Addrs, neighs : 0..NeighNum]
Processes == [prog : Tools \cup {"nc", "tcpdump"}, at : Eps, svr : Deps, dst : Addrs,
              n : Nat, holds : BOOLEAN, call : Nat]
Keywords == [name : {"idle", "configure", "flush", "setup", "launch", "kill", "copy", "related"},
             pos : Nat, args : Arguments, alone : BOOLEAN]

\* Type correctness.
TypeOK ==
  /\ ifAddr \in [Eps -> Addrs] /\ saved \in [Eps -> Addrs]
  /\ guest \in [Eps -> GuestStates]
  /\ allow \in 0..2 /\ proper \in BOOLEAN
  /\ flows \in [any : Nat, vip : BOOLEAN, macs : SUBSET (Addrs \X Eps)]
  /\ procs \subseteq Processes
  /\ ct \subseteq [p : Processes, missed : BOOLEAN]
  /\ rules \in [Eps -> Nat]
  /\ kw \in Keywords
  /\ calls \in Nat /\ faults \in 0..MaxFaults

\* While configuring and restoring take turns and each completes, no VIF's own address
\* is lost: it is the current one or the one to restore, and with nothing saved every
\* VIF has its own (nat.py:132, 157, 179-183).
AddressesKept ==
  proper => \A e \in Eps : /\ Orig(e) \in {ifAddr[e], saved[e]}
                           /\ kw.name = "idle" /\ saved = [x \in Eps |-> None] => ifAddr[e] = Orig(e)

\* A connection that verify_snat or verify_dnat opens between configured guests is
\* answered, whichever address of the range it gets and whatever NAT flows an earlier
\* keyword left: the range, the neighbours and the MAC flows fit together
\* (nat.py:185-211, 244-276, 356-460).
ConfiguredIsAnswered == \A c \in ct : ~c.missed

\* When the number of connections is right, and no process of an earlier keyword was
\* running, every connection that the keyword opened was tracked: what an earlier
\* keyword left in the tracker does not make up for one that is missing
\* (nat.py:340-354).
CountIsHonest ==
  [][kw.name = "launch" /\ kw'.name = "kill" /\ kw.alone =>
       {c.p.n : c \in {c \in ct : c.p.call = calls}} = 0..(Total(kw.args) - 1)]_vars

\* A related test that completes leaves no nc and no tcpdump in the client, not even
\* those of an earlier test that was cut short, and whatever completes or fails, a
\* guest keeps at most one rule for each failure (nat.py:565-575).
RelatedCleansUp ==
  /\ ended = "related" /\ kw.name = "idle" =>
       \A p \in procs : p.prog \in {"nc", "tcpdump"} => p.at \in Deps
  /\ kw.name = "idle" => \A e \in Eps : rules[e] <= faults

\* Every keyword ends, although a call waits for the processes that hold its output.
KeywordEnds == kw.name # "idle" ~> kw.name = "idle"

-------------------------------------------------------------------------------
(* The inductive invariant. *)

\* In turns: a VIF has its own address and nothing saved, or its own address saved; the
\* configuration that is under way has still to save those of the endpoints ahead.
InTurns ==
  proper => \A e \in Eps : /\ saved[e] = Orig(e) \/ (saved[e] = None /\ ifAddr[e] = Orig(e))
                           /\ kw.name = "configure" /\ e >= kw.pos => saved[e] = None

\* Between the rule that a round adds and its deletion there is one more.
OneRuleMore ==
  \A e \in Eps :
    rules[e] <= faults + (IF kw.name = "related" /\ RoundStep = 3 /\ e = RejectAt THEN 1 ELSE 0)

\* After the last round, which it is over with, the client has neither nc nor tcpdump.
LastRoundCleans ==
  /\ kw.name = "related" => kw.pos <= RelatedSteps * Rounds
  /\ (kw.name = "related" /\ Round = Rounds) \/ (kw.name = "idle" /\ ended = "related") =>
       \A p \in procs : p.prog \in {"nc", "tcpdump"} => p.at \in Deps

\* The flows are those of the keyword in progress and no other.
OwnFlows ==
  /\ kw.name = "setup" /\ kw.pos = 1 => flows = NoFlows
  /\ kw.name = "launch" =>
       /\ flows.any = (IF kw.args.kind = "snat" THEN kw.args.ips ELSE 0)
       /\ flows.vip <=> kw.args.kind = "dnat"
       /\ \A e \in Eps : <<ifAddr[e], e>> \in flows.macs

\* Process number p.n of the keyword in progress.
Launched(p) ==
  /\ p.n \in 0..(kw.pos - 1)
  /\ p = Proc(kw.args.tool, Client, (p.n \div (2 * kw.args.par)) + 1,
              Dst((p.n \div (2 * kw.args.par)) + 1), p.n, kw.args.kind = "snat")

\* Which processes and connections there are while a keyword launches its own.
OwnProcs ==
  /\ \A p \in procs : p.call <= calls
  /\ kw.name \in {"flush", "setup"} => \A p \in procs : p.call # calls
  /\ kw.name = "launch" => /\ kw.pos <= Total(kw.args)
                           /\ \A p \in procs : p.call = calls => Launched(p)
  /\ kw.alone =>
       /\ kw.name \in {"flush", "setup"} => procs = {}
       /\ kw.name = "setup" => ct = {}
       /\ kw.name = "launch" => /\ \A p \in procs : p.call = calls
                                /\ \A c \in ct : c.p.call = calls /\ Launched(c.p)

NatInv ==
  /\ TypeOK /\ InTurns /\ OneRuleMore /\ LastRoundCleans /\ OwnFlows /\ OwnProcs
  /\ ConfiguredIsAnswered

===============================================================================
