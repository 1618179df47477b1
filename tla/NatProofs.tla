------------------------------- MODULE NatProofs -------------------------------
(*****************************************************************************)
(* Proofs about Nat: NatInv is inductive, hence addresses are kept, what is  *)
(* configured is answered, related tests clean up and the number of          *)
(* connections is an honest one, for any destinations, arguments and bounds. *)
(*****************************************************************************)
EXTENDS Nat, FiniteSetTheorems, FunctionTheorems, TLAPS

-------------------------------------------------------------------------------
(* Types. *)

\* Endpoints.
LEMMA Endpoints ==
  /\ NDeps \in Nat /\ NDeps >= 1 /\ Client \in Eps /\ 1 \in Deps /\ Deps \subseteq Eps
  /\ Eps = Deps \cup {Client} /\ Eps \subseteq Nat /\ Client \notin Deps
BY NatAssumption DEF Client, Eps, Deps

\* Addresses.
LEMMA Addresses ==
  /\ \A e \in Eps : Orig(e) \in Addrs /\ NatAddr(e) \in Addrs /\ Orig(e) # None
  /\ None \in Addrs /\ Vip \in Addrs /\ Flushed \in Addrs
BY DEF Addrs, Orig, None

\* What is known of the keyword in progress.
LEMMA KwTypes ==
  ASSUME TypeOK
  PROVE  /\ kw \in Keywords /\ kw.pos \in Nat /\ kw.args \in Arguments /\ kw.alone \in BOOLEAN
         /\ kw.args.kind \in {"snat", "dnat"} /\ kw.args.tool \in Tools
         /\ kw.args.ips \in Nat \ {0} /\ kw.args.svrs \in Nat /\ kw.args.par \in Nat \ {0}
         /\ kw.args.kind = "dnat" => kw.args.svrs <= 1 /\ kw.args.par = 1
<1>1. kw \in Keywords
  BY DEF TypeOK
<1>2. kw.pos \in Nat /\ kw.args \in Arguments /\ kw.alone \in BOOLEAN
  BY <1>1 DEF Keywords
<1> QED
  BY <1>1, <1>2 DEF Arguments

\* No arguments are arguments too.
LEMMA NoArgsTypes ==
  /\ NoArgs \in Arguments /\ Idle \in Keywords
  /\ \A kind \in {"snat", "dnat"} : /\ [NoArgs EXCEPT !.kind = kind] \in Arguments
                                    /\ [NoArgs EXCEPT !.kind = kind, !.tool = "related"] \in Arguments
<1>1. ASSUME NEW kind \in {"snat", "dnat"}, NEW tool \in Tools
      PROVE  [kind |-> kind, tool |-> tool, ips |-> 1, svrs |-> 0, par |-> 1] \in Arguments
  BY DEF Arguments
<1>2. "none" \in Tools /\ "related" \in Tools
  BY DEF Tools
<1>3. NoArgs \in Arguments
  BY <1>1, <1>2 DEF NoArgs
<1>4. Idle \in Keywords
  BY <1>3 DEF Idle, Keywords
<1>5. ASSUME NEW kind \in {"snat", "dnat"}
      PROVE  /\ [NoArgs EXCEPT !.kind = kind] \in Arguments
             /\ [NoArgs EXCEPT !.kind = kind, !.tool = "related"] \in Arguments
  <2> DEFINE a == [NoArgs EXCEPT !.kind = kind]
             b == [NoArgs EXCEPT !.kind = kind, !.tool = "related"]
  <2>1. /\ a \in [kind : {"snat", "dnat"}, tool : Tools, ips : Nat \ {0}, svrs : Nat,
                  par : Nat \ {0}]
        /\ a.svrs = 0 /\ a.par = 1
    BY <1>2 DEF NoArgs
  <2>2. ASSUME NEW x \in [kind : {"snat", "dnat"}, tool : Tools, ips : Nat \ {0}, svrs : Nat,
                          par : Nat \ {0}], x.svrs = 0, x.par = 1
        PROVE  x \in Arguments
    BY <2>2 DEF Arguments
  <2>3. b = [a EXCEPT !.tool = "related"]
    BY DEF NoArgs
  <2>4. a \in Arguments
    BY <2>1, <2>2
  <2> HIDE DEF a
  <2>5. /\ [a EXCEPT !.tool = "related"] \in
             [kind : {"snat", "dnat"}, tool : Tools, ips : Nat \ {0}, svrs : Nat, par : Nat \ {0}]
        /\ [a EXCEPT !.tool = "related"].svrs = 0 /\ [a EXCEPT !.tool = "related"].par = 1
    BY <1>2, <2>1
  <2>6. b \in Arguments
    BY <2>2, <2>3, <2>5
  <2> QED
    BY <2>4, <2>6 DEF a
<1> QED
  BY <1>3, <1>4, <1>5

\* How the keyword in progress moves on.
LEMMA Moves ==
  ASSUME TypeOK
  PROVE  /\ \A name \in {"setup", "launch", "kill", "copy", "related"} :
              Goto(name) => /\ kw' \in Keywords /\ kw'.name = name /\ kw'.pos = 0
                            /\ kw'.args = kw.args /\ kw'.alone = kw.alone
         /\ Step => /\ kw' \in Keywords /\ kw'.name = kw.name /\ kw'.pos = kw.pos + 1
                    /\ kw'.args = kw.args /\ kw'.alone = kw.alone
         /\ kw' = Idle => kw' \in Keywords /\ kw'.name = "idle"
<1>1. kw \in Keywords /\ kw.pos \in Nat
  BY KwTypes
<1>2. ASSUME NEW name \in {"setup", "launch", "kill", "copy", "related"}, Goto(name)
      PROVE  /\ kw' \in Keywords /\ kw'.name = name /\ kw'.pos = 0
             /\ kw'.args = kw.args /\ kw'.alone = kw.alone
  BY <1>1, <1>2 DEF Goto, Keywords
<1>3. ASSUME Step
      PROVE  /\ kw' \in Keywords /\ kw'.name = kw.name /\ kw'.pos = kw.pos + 1
             /\ kw'.args = kw.args /\ kw'.alone = kw.alone
  <2>1. kw.pos + 1 \in Nat
    BY <1>1
  <2> QED
    BY <1>1, <1>3, <2>1 DEF Step, Keywords
<1>4. kw' = Idle => kw' \in Keywords /\ kw'.name = "idle"
  BY NoArgsTypes DEF Idle
<1> QED
  BY <1>2, <1>3, <1>4

\* The number of telnets or pings.
LEMMA TotalType ==
  ASSUME TypeOK
  PROVE  Total(kw.args) \in Nat
<1>1. ASSUME NEW m \in Nat, NEW n \in Nat PROVE 2 * m * n \in Nat
  OBVIOUS
<1> QED
  BY <1>1, KwTypes DEF Total

\* Processes.
LEMMA ProcTypes ==
  ASSUME TypeOK, NEW prog \in Tools \cup {"nc", "tcpdump"}, NEW at \in Eps, NEW svr \in Deps,
         NEW dst \in Addrs, NEW n \in Nat, NEW holds \in BOOLEAN
  PROVE  Proc(prog, at, svr, dst, n, holds) \in Processes
<1>1. calls \in Nat
  BY DEF TypeOK
<1> QED
  BY <1>1 DEF Proc, Processes

-------------------------------------------------------------------------------
(* What an action keeps by leaving things alone. *)

\* The names and the arguments of a keyword that goes on.
LEMMA SameArgs ==
  ASSUME kw'.args = kw.args
  PROVE  /\ RelatedDeps' = RelatedDeps /\ Rounds' = Rounds
BY DEF RelatedDeps, Rounds

\* The rounds of a related test: at least four, and a destination for each.
LEMMA InRounds ==
  ASSUME TypeOK
  PROVE  /\ Rounds \in Nat /\ Rounds >= 4 /\ Round \in Nat /\ RoundStep \in 0..4
         /\ kw.pos = 5 * Round + RoundStep
         /\ Rounds % 4 = 0
         /\ Round < Rounds => Dep \in Deps /\ CaptureAt \in Eps /\ RejectAt \in Eps
<1>1. RelatedDeps \in Seq(Deps) /\ RelatedDeps # <<>>
  BY NatAssumption, Endpoints DEF RelatedDeps
<1>2. PICK n : n = Len(RelatedDeps) /\ n \in Nat /\ n >= 1 /\ DOMAIN RelatedDeps = 1..n
  BY <1>1
<1>3. Rounds = 4 * n
  BY <1>2 DEF Rounds
<1>4. Round \in Nat /\ RoundStep \in 0..4 /\ kw.pos = 5 * Round + RoundStep
  <2>1. PICK n1 \in Nat : n1 = kw.pos
    BY KwTypes
  <2>2. n1 \div 5 \in Nat /\ n1 % 5 \in 0..4 /\ n1 = 5 * (n1 \div 5) + (n1 % 5)
    OBVIOUS
  <2>3. Round = n1 \div 5 /\ RoundStep = n1 % 5
    BY <2>1 DEF Round, RoundStep, RelatedSteps
  <2> QED
    BY <2>1, <2>2, <2>3
<1>5. ASSUME Round < Rounds PROVE Dep \in Deps
  <2>1. (Round \div 4) + 1 \in 1..n
    BY <1>2, <1>3, <1>4, <1>5
  <2> QED
    BY <1>1, <1>2, <2>1 DEF Dep
<1> QED
  BY <1>2, <1>3, <1>4, <1>5, Endpoints DEF CaptureAt, RejectAt

\* Addresses, by whatever neither configures nor restores.
LEMMA TurnsFrame ==
  ASSUME NatInv, UNCHANGED <<ifAddr, saved, proper>>, kw'.name # "configure"
  PROVE  InTurns'
BY DEF NatInv, InTurns

\* Rules, by whatever neither adds nor deletes one: a keyword that is cut short between the
\* two counts as a fault.
LEMMA RulesFrame ==
  ASSUME NatInv, rules' = rules, faults' \in faults..MaxFaults,
         \/ kw.name = "related" /\ kw' = kw
         \/ kw.name = "related" /\ RoundStep = 3 => faults' > faults
  PROVE  OneRuleMore'
<1>1. faults \in Nat /\ rules \in [Eps -> Nat] /\ faults' \in Nat
  BY NatAssumption DEF NatInv, TypeOK
<1>2. SUFFICES ASSUME NEW e \in Eps
               PROVE  rules[e] <= faults' + (IF kw'.name = "related" /\ RoundStep' = 3 /\ e = RejectAt' THEN 1 ELSE 0)
  BY DEF OneRuleMore
<1>3. rules[e] <= faults + (IF kw.name = "related" /\ RoundStep = 3 /\ e = RejectAt THEN 1 ELSE 0)
  BY DEF NatInv, OneRuleMore
<1>4. CASE kw.name = "related" /\ kw' = kw
  <2>1. RoundStep' = RoundStep /\ RejectAt' = RejectAt
    BY <1>4 DEF RoundStep, RejectAt, FromClient, Round, Dep, RelatedDeps
  <2> QED
    BY <1>1, <1>3, <1>4, <2>1
<1>5. CASE kw.name = "related" /\ RoundStep = 3 => faults' > faults
  BY <1>1, <1>3, <1>5
<1> QED
  BY <1>4, <1>5

\* The invariant after a keyword has ended, or could not begin.
LEMMA Ending ==
  ASSUME NatInv, NEW how, End(how), UNCHANGED <<Guests, flows>>,
         procs' \subseteq procs, ct' \subseteq ct, rules' = rules,
         calls' \in {calls, calls + 1}, faults' \in faults..MaxFaults,
         kw.name = "related" /\ RoundStep = 3 => faults' > faults,
         how = "related" => kw.name = "related" /\ Round = Rounds
  PROVE  NatInv'
<1> USE DEF NatInv
<1>1. kw' \in Keywords /\ kw'.name = "idle" /\ ended' = how /\ kw'.pos = 0
  BY Moves DEF End, Idle
<1>2. UNCHANGED <<ifAddr, saved, guest, allow, proper>>
  BY DEF Guests
<1>3. TypeOK'
  BY <1>1, <1>2, NatAssumption DEF TypeOK
<1>4. InTurns'
  BY <1>1, <1>2, TurnsFrame
<1>5. OneRuleMore'
  BY RulesFrame
<1>6. LastRoundCleans'
  BY <1>1 DEF LastRoundCleans
<1>7. OwnFlows'
  BY <1>1 DEF OwnFlows
<1>8. OwnProcs'
  <2>1. calls \in Nat
    BY DEF TypeOK
  <2>2. \A p \in procs : p.call \in Nat
    BY DEF TypeOK, Processes
  <2>3. \A p \in procs' : p.call <= calls'
    BY <2>1, <2>2 DEF OwnProcs
  <2> QED
    BY <1>1, <2>3 DEF OwnProcs
<1>9. ConfiguredIsAnswered'
  BY DEF ConfiguredIsAnswered
<1> QED
  BY <1>3, <1>4, <1>5, <1>6, <1>7, <1>8, <1>9

\* The invariant after a keyword has begun.
LEMMA Beginning ==
  ASSUME NatInv, NEW name \in {"configure", "flush"}, NEW args \in Arguments, Begin(name, args),
         UNCHANGED <<ifAddr, saved, guest, Net, faults>>, allow' \in 0..2, proper' \in BOOLEAN,
         proper' => proper /\ (name = "configure" => \A e \in Eps : saved[e] = None)
  PROVE  NatInv'
<1> USE DEF NatInv
<1>1. /\ kw.name = "idle" /\ calls' = calls + 1 /\ ended' = "none"
      /\ kw' = [name |-> name, pos |-> 0, args |-> args, alone |-> procs = {}]
      /\ UNCHANGED <<flows, ct, procs, rules>>
  BY DEF Begin, Net
<1>2. kw' \in Keywords /\ kw'.name = name /\ kw'.pos = 0 /\ kw'.alone = (procs = {})
  BY <1>1 DEF Keywords
<1>3. TypeOK'
  BY <1>1, <1>2 DEF TypeOK
<1>4. InTurns'
  BY <1>1, <1>2 DEF InTurns
<1>5. OneRuleMore'
  <2>1. faults \in faults..MaxFaults
    BY NatAssumption DEF TypeOK
  <2> QED
    BY <1>1, <2>1, RulesFrame
<1>6. LastRoundCleans' /\ OwnFlows'
  BY <1>1, <1>2 DEF LastRoundCleans, OwnFlows
<1>7. OwnProcs'
  <2>1. calls \in Nat
    BY DEF TypeOK
  <2>2. \A p \in procs : p.call \in Nat /\ p.call <= calls
    BY DEF TypeOK, Processes, OwnProcs
  <2>3. \A p \in procs' : p.call <= calls' /\ p.call # calls'
    BY <1>1, <2>1, <2>2
  <2> QED
    BY <1>1, <1>2, <2>3 DEF OwnProcs
<1>8. ConfiguredIsAnswered'
  BY <1>1 DEF ConfiguredIsAnswered
<1> QED
  BY <1>3, <1>4, <1>5, <1>6, <1>7, <1>8

-------------------------------------------------------------------------------
(* Addresses. *)

\* A failure that ends a keyword.
LEMMA RaiseInv ==
  ASSUME NatInv, Raise
  PROVE  NatInv'
<1>1. /\ faults' \in faults..MaxFaults /\ faults' > faults
  BY NatAssumption DEF NatInv, TypeOK, Raise
<1> QED
  BY <1>1, Ending DEF Raise, Net

\* snat_configure_vms and dnat_configure_vms begin, or refuse to.
LEMMA ConfigureVmsInv ==
  ASSUME NatInv, NEW kind \in {"snat", "dnat"}, configure_vms(kind)
  PROVE  NatInv'
<1>0. faults \in faults..MaxFaults /\ proper \in BOOLEAN
  BY NatAssumption DEF NatInv, TypeOK
<1>1. CASE allow = 0
  <2>1. /\ kw.name = "idle" /\ calls' = calls + 1 /\ End("raised")
        /\ UNCHANGED <<Guests, Net, faults>>
    BY <1>1 DEF configure_vms, Guests
  <2> QED
    BY <1>0, <2>1, Ending DEF Net
<1>2. CASE allow # 0
  <2>1. /\ Begin("configure", [NoArgs EXCEPT !.kind = kind]) /\ allow' = 1
        /\ proper' = (proper /\ \A e \in Eps : saved[e] = None)
        /\ UNCHANGED <<ifAddr, saved, guest, Net, faults>>
    BY <1>2 DEF configure_vms
  <2>2. [NoArgs EXCEPT !.kind = kind] \in Arguments /\ allow' \in 0..2 /\ proper' \in BOOLEAN
    BY <1>0, <2>1, NoArgsTypes
  <2>3. proper' => proper /\ \A e \in Eps : saved[e] = None
    BY <2>1
  <2> QED
    BY <2>1, <2>2, <2>3, Beginning
<1> QED
  BY <1>1, <1>2

\* The part of the invariant that is not about addresses is the same after _configure_vm.
LEMMA ConfigureEndpointInv ==
  ASSUME NatInv, NEW e \in Eps, ConfigureEndpoint(e) \/ ConfigureRaises(e)
  PROVE  NatInv'
<1> USE DEF NatInv
<1>1. /\ kw.name = "configure" /\ kw.pos = e
      /\ saved' = [saved EXCEPT ![e] = ifAddr[e]]
      /\ ifAddr' = [ifAddr EXCEPT ![e] = NatAddr(e)]
      /\ UNCHANGED <<allow, proper, flows, ct, procs, rules, calls>>
      /\ \/ Step /\ UNCHANGED ended
         \/ End("raised")
  BY DEF ConfigureEndpoint, ConfigureRaises, At, Net
<1>2. faults' \in faults..MaxFaults /\ guest' \in [Eps -> GuestStates]
  <2>1. CASE ConfigureRaises(e)
    BY <2>1, NatAssumption DEF ConfigureRaises, TypeOK
  <2>2. CASE ConfigureEndpoint(e)
    <3>1. /\ faults \in faults..MaxFaults /\ faults + 1 \in Nat /\ guest \in [Eps -> GuestStates]
          /\ guest[e].neighs \in 0..NeighNum /\ NeighNum \in 0..NeighNum /\ 0 \in 0..NeighNum
      BY NatAssumption DEF TypeOK, GuestStates
    <3>2. PICK neighs \in 0..NeighNum :
            \/ /\ guest' = [guest EXCEPT ![e] = [addr |-> NatAddr(e), neighs |-> neighs]]
               /\ UNCHANGED faults
            \/ /\ faults < MaxFaults /\ faults' = faults + 1
               /\ guest' = [guest EXCEPT ![e].addr = Flushed]
      BY <2>2, <3>1 DEF ConfigureEndpoint, _configure_vm
    <3>3. [addr |-> NatAddr(e), neighs |-> neighs] \in GuestStates
      BY Addresses DEF GuestStates
    <3>4. [guest[e] EXCEPT !.addr = Flushed] \in GuestStates
      BY <3>1, Addresses DEF GuestStates
    <3> QED
      <4>1. CASE UNCHANGED faults
        BY <3>1, <3>2, <3>3, <3>4, <4>1
      <4>2. CASE faults < MaxFaults /\ faults' = faults + 1
        <5>1. faults' \in faults..MaxFaults
          BY <3>1, <4>2, NatAssumption DEF TypeOK
        <5> QED
          BY <3>1, <3>2, <3>3, <3>4, <5>1
      <4> QED
        BY <3>2, <4>1, <4>2
  <2> QED
    BY <2>1, <2>2
<1>3. /\ kw' \in Keywords /\ kw'.name \in {"configure", "idle"}
      /\ kw'.name = "configure" => kw'.pos = e + 1 /\ ended' = ended
      /\ kw'.name = "idle" => ended' = "raised"
  BY <1>1, Moves DEF End
<1>4. TypeOK'
  <2>1. ifAddr \in [Eps -> Addrs] /\ saved \in [Eps -> Addrs] /\ NatAddr(e) \in Addrs
    BY Addresses DEF TypeOK
  <2> QED
    BY <1>1, <1>2, <1>3, <2>1, NatAssumption DEF TypeOK
<1>5. InTurns'
  <2> SUFFICES ASSUME proper, NEW d \in Eps
               PROVE  /\ saved'[d] = Orig(d) \/ (saved'[d] = None /\ ifAddr'[d] = Orig(d))
                      /\ kw'.name = "configure" /\ d >= kw'.pos => saved'[d] = None
    BY <1>1 DEF InTurns
  <2>1. /\ saved[d] = Orig(d) \/ (saved[d] = None /\ ifAddr[d] = Orig(d))
        /\ d >= e => saved[d] = None
    BY <1>1 DEF InTurns
  <2>2. CASE d = e
    <3>1. d >= e /\ ~(d >= e + 1)
      BY <2>2, Endpoints
    <3>2. ifAddr[d] = Orig(d)
      BY <2>1, <3>1, Addresses
    <3> QED
      BY <1>1, <1>3, <2>2, <3>1, <3>2 DEF TypeOK
  <2>3. CASE d # e
    <3>1. saved'[d] = saved[d] /\ ifAddr'[d] = ifAddr[d]
      BY <1>1, <2>3 DEF TypeOK
    <3>2. d >= e + 1 => d >= e
      BY Endpoints
    <3> QED
      BY <1>3, <2>1, <3>1, <3>2
  <2> QED
    BY <2>2, <2>3
<1>6. OneRuleMore'
  BY <1>1, <1>2, RulesFrame
<1>7. LastRoundCleans' /\ OwnFlows' /\ OwnProcs' /\ ConfiguredIsAnswered'
  BY <1>1, <1>3 DEF LastRoundCleans, OwnFlows, OwnProcs, ConfiguredIsAnswered
<1> QED
  BY <1>4, <1>5, <1>6, <1>7

\* All endpoints are configured.
LEMMA ConfiguredInv ==
  ASSUME NatInv, Configured
  PROVE  NatInv'
<1>1. /\ kw.name = "configure" /\ End("configured") /\ UNCHANGED <<Guests, Net, calls, faults>>
      /\ faults \in faults..MaxFaults
  BY NatAssumption DEF Configured, At, NatInv, TypeOK
<1> QED
  BY <1>1, Ending DEF Net

\* nat_restore_vms
LEMMA RestoreInv ==
  ASSUME NatInv, nat_restore_vms
  PROVE  NatInv'
<1> USE DEF NatInv
<1>1. /\ kw.name = "idle" /\ calls' = calls + 1 /\ calls \in Nat
      /\ UNCHANGED <<guest, allow, flows, ct, procs, rules, faults>>
      /\ faults \in faults..MaxFaults
  BY NatAssumption DEF nat_restore_vms, Net, TypeOK
<1>2. CASE allow = 0
  <2>1. End("raised") /\ UNCHANGED Guests
    BY <1>1, <1>2 DEF nat_restore_vms, Guests
  <2> QED
    BY <1>1, <2>1, Ending DEF Net
<1>3. CASE allow # 0
  <2>1. /\ End("restored") /\ ifAddr' = saved /\ saved' = [e \in Eps |-> None]
        /\ proper' = (proper /\ \A e \in Eps : saved[e] # None)
    BY <1>3 DEF nat_restore_vms
  <2>2. kw' \in Keywords /\ kw'.name = "idle" /\ ended' = "restored"
    BY <2>1, Moves DEF End
  <2>3. TypeOK'
    BY <1>1, <2>1, <2>2, Addresses DEF TypeOK
  <2>4. InTurns'
    BY <2>1, <2>2 DEF InTurns
  <2>5. OneRuleMore'
    BY <1>1, RulesFrame
  <2>6. LastRoundCleans' /\ OwnFlows' /\ ConfiguredIsAnswered'
    BY <1>1, <2>2 DEF LastRoundCleans, OwnFlows, ConfiguredIsAnswered
  <2>7. OwnProcs'
    <3>1. \A p \in procs : p.call \in Nat
      BY DEF TypeOK, Processes
    <3> QED
      BY <1>1, <2>2, <3>1 DEF OwnProcs
  <2> QED
    BY <2>3, <2>4, <2>5, <2>6, <2>7
<1> QED
  BY <1>2, <1>3

\* VMs that are started again.
LEMMA RestartInv ==
  ASSUME NatInv, RestartVms
  PROVE  NatInv'
<1> USE DEF NatInv
<1>1. /\ kw.name = "idle" /\ calls' = calls + 1 /\ kw' = Idle /\ ended' # "related"
      /\ procs' = {} /\ rules' = [e \in Eps |-> 0]
      /\ UNCHANGED <<ifAddr, saved, allow, flows, ct, proper, faults>>
  BY DEF RestartVms, End
<1>2. kw' \in Keywords /\ kw'.name = "idle"
  BY <1>1, Moves
<1>3. guest' \in [Eps -> GuestStates]
  <2>1. ifAddr \in [Eps -> Addrs] /\ 0 \in 0..NeighNum
    BY NatAssumption DEF TypeOK
  <2>2. ASSUME NEW e \in Eps
        PROVE  [addr |-> IF \E d \in 0..e : ifAddr[d] = None THEN Flushed ELSE ifAddr[e],
                neighs |-> 0] \in GuestStates
    <3>1. (IF \E d \in 0..e : ifAddr[d] = None THEN Flushed ELSE ifAddr[e]) \in Addrs
      BY <2>1, Addresses
    <3> QED
      BY <2>1, <3>1 DEF GuestStates
  <2> QED
    BY <2>2 DEF RestartVms
<1>4. TypeOK'
  BY <1>1, <1>2, <1>3 DEF TypeOK
<1>5. InTurns'
  BY <1>1, <1>2, TurnsFrame
<1>6. OneRuleMore'
  BY <1>1, <1>2 DEF OneRuleMore, TypeOK
<1>7. LastRoundCleans' /\ OwnFlows' /\ OwnProcs' /\ ConfiguredIsAnswered'
  BY <1>1, <1>2 DEF LastRoundCleans, OwnFlows, OwnProcs, ConfiguredIsAnswered
<1> QED
  BY <1>4, <1>5, <1>6, <1>7

-------------------------------------------------------------------------------
(* verify_snat and verify_dnat. *)

\* They begin, or refuse to.
LEMMA VerifyInv ==
  ASSUME NatInv,
         \/ \E args \in Calls : verify(args)
         \/ \E kind \in {"snat", "dnat"} : verify_related(kind)
  PROVE  NatInv'
<1>1. /\ UNCHANGED <<Guests, Net, faults>>
      /\ faults \in faults..MaxFaults /\ allow \in 0..2 /\ proper \in BOOLEAN
  BY NatAssumption DEF verify, verify_related, NatInv, TypeOK
<1>2. \/ kw.name = "idle" /\ calls' = calls + 1 /\ (End("raised") \/ End("refused"))
      \/ \E args \in Arguments : Begin("flush", args)
  <2>1. ASSUME NEW args \in Calls, verify(args)
        PROVE  \/ kw.name = "idle" /\ calls' = calls + 1 /\ (End("raised") \/ End("refused"))
               \/ \E a \in Arguments : Begin("flush", a)
    <3>1. args \in Arguments
      BY NatAssumption
    <3> QED
      BY <2>1, <3>1 DEF verify
  <2>2. ASSUME NEW kind \in {"snat", "dnat"}, verify_related(kind)
        PROVE  \/ kw.name = "idle" /\ calls' = calls + 1 /\ End("raised")
               \/ \E a \in Arguments : Begin("flush", a)
    <3>1. [NoArgs EXCEPT !.kind = kind, !.tool = "related"] \in Arguments
      BY NoArgsTypes
    <3> QED
      BY <2>2, <3>1, Zenon DEF verify_related
  <2> QED
    BY <2>1, <2>2
<1>3. ASSUME NEW args \in Arguments, Begin("flush", args) PROVE NatInv'
  BY <1>1, <1>3, Beginning DEF Guests
<1>4. ASSUME kw.name = "idle", calls' = calls + 1, NEW how \in {"raised", "refused"}, End(how)
      PROVE  NatInv'
  BY <1>1, <1>4, Ending DEF Net
<1> QED
  BY <1>2, <1>3, <1>4

\* flush_conntrack_on_all_suts
LEMMA FlushInv ==
  ASSUME NatInv, FlushConntrack
  PROVE  NatInv'
<1> USE DEF NatInv
<1>1. /\ kw.name = "flush" /\ ct' = {}
      /\ UNCHANGED <<ifAddr, saved, guest, allow, proper, flows, procs, rules, ended, calls, faults>>
      /\ kw' \in Keywords /\ kw'.name = "setup" /\ kw'.pos = 0 /\ kw'.alone = kw.alone
  BY Moves DEF FlushConntrack, At, Guests
<1>2. TypeOK'
  BY <1>1 DEF TypeOK
<1>3. InTurns' /\ OneRuleMore'
  <2>1. faults \in faults..MaxFaults
    BY NatAssumption DEF TypeOK
  <2> QED
    BY <1>1, <2>1, TurnsFrame, RulesFrame
<1>4. LastRoundCleans' /\ OwnFlows' /\ OwnProcs' /\ ConfiguredIsAnswered'
  BY <1>1 DEF LastRoundCleans, OwnFlows, OwnProcs, ConfiguredIsAnswered
<1> QED
  BY <1>2, <1>3, <1>4

\* The default pipeline.
LEMMA SetupPipelineInv ==
  ASSUME NatInv, SetupPipeline
  PROVE  NatInv'
<1> USE DEF NatInv
<1>1. /\ kw.name = "setup" /\ kw.pos = 0 /\ flows' = NoFlows
      /\ UNCHANGED <<ifAddr, saved, guest, allow, proper, ct, procs, rules, ended, calls, faults>>
      /\ kw' \in Keywords /\ kw'.name = "setup" /\ kw'.pos = 1 /\ kw'.alone = kw.alone
  BY Moves DEF SetupPipeline, At, Guests
<1>2. TypeOK'
  <2>1. flows' \in [any : Nat, vip : BOOLEAN, macs : SUBSET (Addrs \X Eps)]
    BY <1>1 DEF NoFlows
  <2> QED
    BY <1>1, <2>1 DEF TypeOK
<1>3. InTurns' /\ OneRuleMore'
  <2>1. faults \in faults..MaxFaults
    BY NatAssumption DEF TypeOK
  <2> QED
    BY <1>1, <2>1, TurnsFrame, RulesFrame
<1>4. LastRoundCleans' /\ OwnFlows' /\ OwnProcs' /\ ConfiguredIsAnswered'
  BY <1>1 DEF LastRoundCleans, OwnFlows, OwnProcs, ConfiguredIsAnswered
<1> QED
  BY <1>2, <1>3, <1>4

\* _nat_setup_flows
LEMMA SetupFlowsInv ==
  ASSUME NatInv, SetupFlows
  PROVE  NatInv'
<1> USE DEF NatInv
<1>1. /\ kw.name = "setup" /\ kw.pos = 1 /\ flows = NoFlows
      /\ UNCHANGED <<Guests, ct, procs, rules, calls, faults>>
      /\ faults \in faults..MaxFaults
  BY NatAssumption DEF SetupFlows, At, OwnFlows, TypeOK
<1>2. CASE \E e \in Eps : ifAddr[e] = None
  <2>1. End("raised") /\ flows' = flows
    BY <1>2 DEF SetupFlows
  <2> QED
    BY <1>1, <2>1, Ending
<1>3. CASE ~ \E e \in Eps : ifAddr[e] = None
  <2>1. /\ flows' = [any  |-> IF kw.args.kind = "snat" THEN IaRange(kw.args) ELSE flows.any,
                     vip  |-> flows.vip \/ kw.args.kind = "dnat",
                     macs |-> flows.macs \cup {<<ifAddr[e], e>> : e \in Eps}]
        /\ Goto(CASE kw.args.tool = "related" -> "related"
                  [] kw.args.tool \in Files   -> "copy"
                  [] OTHER                    -> "launch")
        /\ ended' = ended
    BY <1>3 DEF SetupFlows
  <2>2. PICK name \in {"related", "copy", "launch"} : Goto(name)
    BY <2>1
  <2>3. /\ kw' \in Keywords /\ kw'.name = name /\ kw'.pos = 0
        /\ kw'.args = kw.args /\ kw'.alone = kw.alone
    BY <2>2, Moves
  <2>4. /\ flows'.any = (IF kw.args.kind = "snat" THEN kw.args.ips ELSE 0)
        /\ flows'.vip = (kw.args.kind = "dnat")
        /\ flows'.macs = {<<ifAddr[e], e>> : e \in Eps}
    BY <1>1, <2>1 DEF NoFlows, IaRange
  <2>5. flows' \in [any : Nat, vip : BOOLEAN, macs : SUBSET (Addrs \X Eps)]
    <3>1. {<<ifAddr[e], e>> : e \in Eps} \in SUBSET (Addrs \X Eps)
      BY DEF TypeOK
    <3>2. (IF kw.args.kind = "snat" THEN IaRange(kw.args) ELSE flows.any) \in Nat
      BY <1>1, KwTypes DEF IaRange, NoFlows
    <3>3. (flows.vip \/ kw.args.kind = "dnat") \in BOOLEAN
      BY <1>1 DEF NoFlows
    <3>4. flows.macs \cup {<<ifAddr[e], e>> : e \in Eps} \in SUBSET (Addrs \X Eps)
      BY <1>1, <3>1 DEF NoFlows
    <3> QED
      BY <2>1, <3>2, <3>3, <3>4
  <2>6. UNCHANGED <<ifAddr, saved, guest, allow, proper>>
    BY <1>1 DEF Guests
  <2>7. TypeOK'
    BY <1>1, <2>1, <2>3, <2>5, <2>6 DEF TypeOK
  <2>8. InTurns' /\ OneRuleMore'
    BY <1>1, <2>3, <2>6, TurnsFrame, RulesFrame
  <2>9. LastRoundCleans'
    <3>1. Rounds' >= 4 /\ Rounds' \in Nat
      BY <2>3, SameArgs, InRounds
    <3>2. Round' = 0
      <4>1. 0 \div 5 = 0
        OBVIOUS
      <4> QED
        BY <2>3, <4>1 DEF RelatedSteps, Round
    <3>3. ASSUME NEW n \in Nat, n >= 4 PROVE 0 <= 5 * n /\ n # 0
      BY <3>3
    <3>4. 0 <= 5 * Rounds' /\ Rounds' # 0
      BY <3>1, <3>3, Zenon
    <3>5. ~(kw'.name = "related" /\ Round' = Rounds') /\ kw'.name # "idle"
      BY <2>3, <3>2, <3>4
    <3>6. kw'.pos <= RelatedSteps * Rounds'
      BY <2>3, <3>4, Zenon DEF RelatedSteps
    <3> QED
      BY <3>5, <3>6, Zenon DEF LastRoundCleans
  <2>10. OwnFlows'
    <3>1. \A e \in Eps : <<ifAddr'[e], e>> \in flows'.macs
      BY <2>4, <2>6
    <3> QED
      BY <2>3, <2>4, <3>1 DEF OwnFlows
  <2>11. OwnProcs'
    <3>1. kw'.pos <= Total(kw'.args)
      <4>1. 0 <= Total(kw.args)
        BY TotalType
      <4> QED
        BY <2>3, <4>1
    <3> QED
      BY <1>1, <2>3, <3>1 DEF OwnProcs
  <2>12. ConfiguredIsAnswered'
    BY <1>1 DEF ConfiguredIsAnswered
  <2> QED
    BY <2>7, <2>8, <2>9, <2>10, <2>11, <2>12
<1> QED
  BY <1>2, <1>3

\* Whether a packet of a process of this keyword is answered.
LEMMA LaunchedProc ==
  ASSUME NatInv, NEW p, Launched(p)
  PROVE  /\ p.n \in Nat /\ p.prog = kw.args.tool /\ p.at = Client /\ p.call = calls
         /\ p.dst = (IF kw.args.kind = "snat" THEN ifAddr[p.svr] ELSE Vip)
         /\ p.svr = (p.n \div (2 * kw.args.par)) + 1
<1>1. p.n \in Nat
  BY KwTypes DEF Launched, NatInv
<1> QED
  BY <1>1 DEF Launched, Proc, Dst

\* telnet or ping number kw.pos of verify_snat and verify_dnat.
LEMMA LaunchInv ==
  ASSUME NatInv, Launch
  PROVE  NatInv'
<1> USE DEF NatInv
<1>1. /\ kw.name = "launch" /\ kw.pos < Total(kw.args)
      /\ UNCHANGED <<Guests, flows, ct, rules, calls, faults>>
      /\ faults \in faults..MaxFaults
  BY NatAssumption DEF Launch, TypeOK
<1>2. CASE Server \notin Deps
  <2>1. End("raised") /\ procs' = procs
    BY <1>2 DEF Launch
  <2> QED
    BY <1>1, <2>1, Ending
<1>3. CASE Server \in Deps
  <2>0. PICK new : new = Proc(kw.args.tool, Client, Server, Dst(Server), kw.pos,
                              kw.args.kind = "snat")
    OBVIOUS
  <2>1. procs' = procs \cup {new} /\ ended' = ended /\ Step
    BY <1>3, <2>0 DEF Launch
  <2>2. /\ kw' \in Keywords /\ kw'.name = "launch" /\ kw'.pos = kw.pos + 1
        /\ kw'.args = kw.args /\ kw'.alone = kw.alone
    BY <1>1, <2>1, Moves
  <2>3. UNCHANGED <<ifAddr, saved, guest, allow, proper>>
    BY <1>1 DEF Guests
  <2>4. new \in Processes
    <3>1. Dst(Server) \in Addrs
      BY <1>3, Endpoints, Addresses DEF Dst, TypeOK
    <3>2. (kw.args.kind = "snat") \in BOOLEAN
      OBVIOUS
    <3> QED
      BY <1>3, <2>0, <3>1, <3>2, KwTypes, Endpoints, ProcTypes
  <2>5. TypeOK'
    BY <1>1, <2>1, <2>2, <2>3, <2>4 DEF TypeOK
  <2>6. InTurns' /\ OneRuleMore'
    BY <1>1, <2>2, <2>3, TurnsFrame, RulesFrame
  <2>7. LastRoundCleans' /\ ConfiguredIsAnswered'
    BY <1>1, <2>2 DEF LastRoundCleans, ConfiguredIsAnswered
  <2>8. OwnFlows'
    BY <1>1, <2>2, <2>3 DEF OwnFlows
  <2>9. ASSUME NEW p, Launched(p) PROVE Launched(p)'
    <3>1. p.n \in 0..(kw'.pos - 1)
      BY <2>2, <2>9, KwTypes DEF Launched
    <3> QED
      BY <1>1, <2>2, <2>3, <2>9, <3>1 DEF Launched, Proc, Dst
  <2>10. Launched(new)' /\ new.call = calls
    <3>1. new.n = kw.pos /\ kw.pos \in 0..(kw'.pos - 1)
      BY <2>0, <2>2, KwTypes DEF Proc
    <3> QED
      BY <1>1, <2>0, <2>2, <2>3, <3>1 DEF Launched, Proc, Dst, Server
  <2>11. OwnProcs'
    <3>1. calls \in Nat
      BY DEF TypeOK
    <3>2. \A p \in procs' : p.call <= calls
      BY <2>1, <2>10, <3>1 DEF OwnProcs
    <3>3. \A p \in procs' : p.call = calls => Launched(p)'
      BY <1>1, <2>1, <2>9, <2>10 DEF OwnProcs
    <3>4. kw.alone => \A p \in procs' : p.call = calls
      BY <1>1, <2>1, <2>10 DEF OwnProcs
    <3>5. kw.alone => \A c \in ct : c.p.call = calls /\ Launched(c.p)'
      BY <1>1, <2>9 DEF OwnProcs
    <3>6. kw'.pos <= Total(kw'.args)
      <4>1. kw.pos + 1 <= Total(kw.args)
        BY <1>1, KwTypes, TotalType
      <4> QED
        BY <2>2, <4>1
    <3> QED
      BY <1>1, <2>2, <3>2, <3>3, <3>4, <3>5, <3>6 DEF OwnProcs
  <2> QED
    BY <2>5, <2>6, <2>7, <2>8, <2>11
<1> QED
  BY <1>2, <1>3

\* _check_nat_result and the end of the clients; file copies.
LEMMA CheckInv ==
  ASSUME NatInv, CheckNatResult \/ KillClients \/ CopyFiles
  PROVE  NatInv'
<1> USE DEF NatInv
<1>1. /\ kw.name \in {"launch", "kill", "copy"}
      /\ UNCHANGED <<Guests, flows, ct, rules, calls, faults>> /\ procs' \subseteq procs
      /\ faults \in faults..MaxFaults
  BY NatAssumption DEF CheckNatResult, KillClients, CopyFiles, At, Net, TypeOK
<1>2. \/ \E how \in {"raised", "verified", "copied"} : End(how)
      \/ (Goto("kill") \/ (kw.name = "copy" /\ Step)) /\ ended' = ended
  <2>1. CASE CheckNatResult
    <3>1. End("raised") \/ (Goto("kill") /\ ended' = ended)
      BY <2>1, Zenon DEF CheckNatResult
    <3> QED
      BY <3>1, Zenon
  <2>2. CASE KillClients
    BY <2>2 DEF KillClients
  <2>3. CASE CopyFiles
    <3>1. kw.name = "copy" /\ (End("copied") \/ End("raised") \/ (Step /\ ended' = ended))
      BY <2>3 DEF CopyFiles
    <3> QED
      BY <3>1
  <2> QED
    BY <2>1, <2>2, <2>3
<1>3. ASSUME NEW how \in {"raised", "verified", "copied"}, End(how)
      PROVE  NatInv'
  BY <1>1, <1>3, Ending
<1>4. CASE (Goto("kill") \/ (kw.name = "copy" /\ Step)) /\ ended' = ended
  <2>1. kw' \in Keywords /\ kw'.name \in {"kill", "copy"}
    BY <1>4, Moves
  <2>2. UNCHANGED <<ifAddr, saved, guest, allow, proper>>
    BY <1>1 DEF Guests
  <2>3. TypeOK'
    BY <1>1, <2>1, <2>2 DEF TypeOK
  <2>4. InTurns' /\ OneRuleMore'
    BY <1>1, <2>1, <2>2, TurnsFrame, RulesFrame
  <2>5. LastRoundCleans' /\ OwnFlows' /\ OwnProcs' /\ ConfiguredIsAnswered'
    BY <1>1, <2>1 DEF LastRoundCleans, OwnFlows, OwnProcs, ConfiguredIsAnswered
  <2> QED
    BY <2>3, <2>4, <2>5
<1> QED
  BY <1>2, <1>3, <1>4

-------------------------------------------------------------------------------
(* Related tests. *)

\* A step of a round: what is left to show is about rules and processes.
LEMMA RoundInv ==
  ASSUME NatInv, kw.name = "related", Round < Rounds, Step,
         UNCHANGED <<Guests, flows, ct, ended, calls, faults>>,
         rules' \in [Eps -> Nat], procs' \subseteq Processes,
         \A p \in procs' : p \in procs \/ p.call = calls,
         OneRuleMore',
         RoundStep = 4 /\ Round = Rounds - 1 =>
           \A p \in procs' : p.prog \in {"nc", "tcpdump"} => p.at \in Deps
  PROVE  NatInv'
<1> USE DEF NatInv
<1>1. /\ kw' \in Keywords /\ kw'.name = "related" /\ kw'.pos = kw.pos + 1
      /\ kw'.args = kw.args /\ kw'.alone = kw.alone /\ Rounds' = Rounds
  BY Moves, SameArgs
<1>2. UNCHANGED <<ifAddr, saved, guest, allow, proper>>
  BY DEF Guests
<1>3. TypeOK'
  BY <1>1, <1>2 DEF TypeOK
<1>4. InTurns'
  BY <1>1, <1>2, TurnsFrame
<1>5. LastRoundCleans'
  <2>1. /\ Rounds \in Nat /\ Round \in Nat /\ RoundStep \in 0..4 /\ kw.pos = 5 * Round + RoundStep
    BY InRounds
  <2>2. kw'.pos <= 5 * Rounds
    BY <1>1, <2>1
  <2>3. Round' = Rounds => RoundStep = 4 /\ Round = Rounds - 1
    <3>1. Round' = (5 * Round + RoundStep + 1) \div 5
      BY <1>1, <2>1 DEF Round, RelatedSteps
    <3> QED
      BY <2>1, <3>1
  <2> QED
    BY <1>1, <2>2, <2>3 DEF LastRoundCleans, RelatedSteps
<1>6. OwnFlows' /\ ConfiguredIsAnswered'
  BY <1>1 DEF OwnFlows, ConfiguredIsAnswered
<1>7. OwnProcs'
  <2>1. calls \in Nat
    BY DEF TypeOK
  <2>2. \A p \in procs' : p.call <= calls
    BY <2>1 DEF OwnProcs
  <2> QED
    BY <1>1, <2>2 DEF OwnProcs
<1> QED
  BY <1>3, <1>4, <1>5, <1>6, <1>7

\* Rules, in a step of a round that leaves them alone.
LEMMA RoundRules ==
  ASSUME NatInv, kw.name = "related", RoundStep # 3, rules' = rules, faults' = faults
  PROVE  OneRuleMore' /\ rules' \in [Eps -> Nat]
<1>1. faults \in faults..MaxFaults /\ rules' \in [Eps -> Nat]
  BY NatAssumption DEF NatInv, TypeOK
<1> QED
  BY <1>1, RulesFrame

\* _nat_execute_related: nc and tcpdump are started.
LEMMA StartInv ==
  ASSUME NatInv, StartNc \/ StartTcpdump
  PROVE  NatInv'
<1> USE DEF NatInv
<1>1. /\ kw.name = "related" /\ Round < Rounds /\ RoundStep \in {0, 1} /\ Step
      /\ UNCHANGED <<Guests, flows, ct, rules, ended, calls, faults>>
  BY DEF StartNc, StartTcpdump, InRound
<1>2. Dep \in Deps /\ CaptureAt \in Eps
  BY <1>1, InRounds
<1>3. Dst(Dep) \in Addrs /\ None \in Addrs /\ Client \in Eps /\ Dep \in Eps
  BY <1>2, Endpoints, Addresses DEF Dst, TypeOK
<1>4. ASSUME NEW p, p \in {Proc("nc", Dep, Dep, None, 0, FALSE),
                           Proc("nc", Client, Dep, Dst(Dep), 0, FALSE),
                           Proc("tcpdump", CaptureAt, Dep, None, 0, FALSE)}
      PROVE  p \in Processes /\ p.call = calls
  <2>1. p \in Processes
    BY <1>2, <1>3, <1>4, ProcTypes
  <2> QED
    BY <1>4, <2>1 DEF Proc
<1>5. \A p \in procs' : p \in procs \/ (p \in Processes /\ p.call = calls)
  BY <1>4 DEF StartNc, StartTcpdump
<1>6. procs' \subseteq Processes
  BY <1>5 DEF TypeOK
<1> QED
  BY <1>1, <1>5, <1>6, RoundInv, RoundRules

\* A rule is added, and deleted again.
LEMMA RejectInv ==
  ASSUME NatInv, Reject \/ Accept
  PROVE  NatInv'
<1> USE DEF NatInv
<1>1. /\ kw.name = "related" /\ Round < Rounds /\ RoundStep \in {2, 3} /\ Step
      /\ UNCHANGED <<Guests, flows, ct, procs, ended, calls, faults>>
      /\ RoundStep = 2 => rules' = [rules EXCEPT ![RejectAt] = @ + 1]
      /\ RoundStep = 3 => rules' = [rules EXCEPT ![RejectAt] = IF @ = 0 THEN 0 ELSE @ - 1]
  BY DEF Reject, Accept, InRound
<1>2. /\ kw'.name = "related" /\ kw'.pos = kw.pos + 1 /\ kw'.args = kw.args
      /\ RelatedDeps' = RelatedDeps /\ Rounds' = Rounds
  BY <1>1, Moves, SameArgs
<1>3. RoundStep' = RoundStep + 1 /\ Round' = Round
  <2>1. /\ Round \in Nat /\ RoundStep \in 0..4 /\ kw.pos = 5 * Round + RoundStep
    BY InRounds
  <2>2. /\ RoundStep' = (5 * Round + RoundStep + 1) % 5
        /\ Round' = (5 * Round + RoundStep + 1) \div 5
    BY <1>2, <2>1 DEF Round, RoundStep, RelatedSteps
  <2> QED
    BY <1>1, <2>1, <2>2
<1>4. RejectAt' = RejectAt /\ RejectAt \in Eps
  BY <1>1, <1>2, <1>3, InRounds DEF RejectAt, FromClient, Dep
<1>5. rules \in [Eps -> Nat] /\ faults \in Nat
  BY DEF TypeOK
<1>6. rules' \in [Eps -> Nat]
  <2>1. rules[RejectAt] \in Nat
    BY <1>4, <1>5
  <2>2. rules[RejectAt] + 1 \in Nat /\ (IF rules[RejectAt] = 0 THEN 0 ELSE rules[RejectAt] - 1) \in Nat
    BY <2>1
  <2> QED
    BY <1>1, <1>4, <1>5, <2>2
<1>7. OneRuleMore'
  <2> SUFFICES ASSUME NEW e \in Eps
               PROVE  rules'[e] <= faults + (IF RoundStep + 1 = 3 /\ e = RejectAt THEN 1 ELSE 0)
    BY <1>1, <1>2, <1>3, <1>4 DEF OneRuleMore
  <2>1. rules[e] <= faults + (IF RoundStep = 3 /\ e = RejectAt THEN 1 ELSE 0)
    BY <1>1 DEF OneRuleMore
  <2>2. CASE RoundStep = 2
    BY <1>1, <1>4, <1>5, <2>1, <2>2
  <2>3. CASE RoundStep = 3
    BY <1>1, <1>4, <1>5, <2>1, <2>3
  <2> QED
    BY <1>1, <2>2, <2>3
<1>8. procs' \subseteq Processes
  BY <1>1 DEF TypeOK
<1> QED
  BY <1>1, <1>6, <1>7, <1>8, RoundInv

\* The end of a round; the last one captured at the client.
LEMMA KillRelatedInv ==
  ASSUME NatInv, KillRelated
  PROVE  NatInv'
<1> USE DEF NatInv
<1>1. /\ kw.name = "related" /\ Round < Rounds /\ RoundStep = 4 /\ Step
      /\ UNCHANGED <<Guests, flows, ct, rules, ended, calls, faults>>
      /\ procs' = {p \in procs : ~(\/ p.prog = "tcpdump" /\ p.at = CaptureAt
                                   \/ p.prog = "nc" /\ p.at \in {Client, Dep})}
  BY DEF KillRelated, InRound
<1>2. procs' \subseteq Processes /\ \A p \in procs' : p \in procs /\ p.at \in Eps
  BY <1>1 DEF TypeOK, Processes
<1>3. ASSUME Round = Rounds - 1, NEW p \in procs', p.prog \in {"nc", "tcpdump"}
      PROVE  p.at \in Deps
  <2>1. (Round \div 2) % 2 = 1
    BY <1>3, InRounds
  <2>2. CaptureAt = Client
    BY <2>1 DEF CaptureAt, FromClient
  <2>3. p.at # Client
    BY <1>1, <1>3, <2>2
  <2> QED
    BY <1>2, <2>3, Endpoints
<1> QED
  BY <1>1, <1>2, <1>3, RoundInv, RoundRules

\* The end of a related test.
LEMMA RelatedDoneInv ==
  ASSUME NatInv, RelatedDone
  PROVE  NatInv'
<1> USE DEF NatInv
<1>1. /\ kw.name = "related" /\ Round = Rounds /\ End("related")
      /\ UNCHANGED <<Guests, flows, ct, procs, rules, calls, faults>>
      /\ faults \in faults..MaxFaults
  BY NatAssumption DEF RelatedDone, Net, TypeOK
<1>2. RoundStep # 3
  BY <1>1, InRounds DEF LastRoundCleans, RelatedSteps
<1> QED
  BY <1>1, <1>2, Ending

-------------------------------------------------------------------------------
(* Guests and the connection tracker. *)

\* A connection that this keyword opens between configured guests is answered.
LEMMA ReadyIsAnswered ==
  ASSUME NatInv, NEW p \in procs, kw.name = "launch", p.call = calls, Ready(kw.args, p.svr)
  PROVE  /\ \A x \in 0..(flows.any - 1) : Answered(p.dst, p.svr, x)
         /\ flows.vip => Answered(NatAddr(1), 1, -1)
<1> USE DEF NatInv
<1>1. Launched(p)
  BY DEF OwnProcs
<1>2. /\ p.dst = (IF kw.args.kind = "snat" THEN ifAddr[p.svr] ELSE Vip)
      /\ p.svr = (p.n \div (2 * kw.args.par)) + 1 /\ p.svr \in Deps
  <2>1. p.svr \in Deps
    BY DEF TypeOK, Processes
  <2> QED
    BY <1>1, <2>1, LaunchedProc
<1>3. /\ flows.any = (IF kw.args.kind = "snat" THEN kw.args.ips ELSE 0)
      /\ flows.vip <=> kw.args.kind = "dnat"
      /\ \A e \in Eps : <<ifAddr[e], e>> \in flows.macs
  BY DEF OwnFlows
<1>4. \A e \in {Client, p.svr} : /\ e \in Eps /\ guest[e].addr = NatAddr(e) /\ ifAddr[e] = NatAddr(e)
                                 /\ rules[e] = 0 /\ guest[e].neighs \in 0..NeighNum
  <2>1. \A e \in Eps : guest[e].neighs \in 0..NeighNum
    BY DEF TypeOK, GuestStates
  <2> QED
    BY <1>2, <2>1, Endpoints DEF Ready
<1>5. <<guest[Client].addr, Client>> \in flows.macs /\ rules[Client] = 0
  BY <1>3, <1>4
<1>6. ASSUME NEW x \in 0..(flows.any - 1) PROVE Answered(p.dst, p.svr, x)
  <2>1. kw.args.kind = "snat" /\ x < kw.args.ips
    BY <1>3, <1>6, KwTypes
  <2>2. x < guest[p.svr].neighs
    BY <2>1, KwTypes, NatAssumption DEF Ready
  <2>3. p.dst = guest[p.svr].addr /\ <<p.dst, p.svr>> \in flows.macs /\ rules[p.svr] = 0
    BY <1>2, <1>3, <1>4, <2>1
  <2> QED
    BY <1>5, <2>2, <2>3 DEF Answered
<1>7. ASSUME flows.vip PROVE Answered(NatAddr(1), 1, -1)
  <2>1. kw.args.kind = "dnat" /\ kw.args.par = 1 /\ kw.args.svrs <= 1
    BY <1>3, <1>7, KwTypes
  <2>2. p.n \in Nat /\ p.n < 2
    <3>1. p.n \in 0..(kw.pos - 1) /\ kw.pos <= Total(kw.args)
      BY <1>1 DEF Launched, OwnProcs
    <3>2. Total(kw.args) <= 2 /\ Total(kw.args) \in Nat
      BY <2>1, KwTypes DEF Total
    <3> QED
      BY <3>1, <3>2, KwTypes
  <2>3. p.svr = 1
    BY <1>2, <2>1, <2>2
  <2>4. /\ <<NatAddr(1), 1>> \in flows.macs /\ guest[1].addr = NatAddr(1) /\ rules[1] = 0
        /\ -1 < guest[1].neighs
    BY <1>3, <1>4, <2>3
  <2> QED
    BY <1>5, <2>4 DEF Answered
<1> QED
  BY <1>6, <1>7

\* A connection is tracked.
LEMMA TrackInv ==
  ASSUME NatInv, NEW p \in procs, Track(p)
  PROVE  NatInv'
<1> USE DEF NatInv
<1>1. UNCHANGED <<ifAddr, saved, guest, allow, proper, flows, procs, rules, kw, ended, calls, faults>>
  BY DEF Track, Guests
<1>2. PICK new : ct' = ct \cup {new} /\ new = [p |-> p, missed |-> FALSE]
  <2>1. ASSUME NEW answered \in BOOLEAN,
               kw.name = "launch" /\ p.call = calls /\ Ready(kw.args, p.svr) => answered
        PROVE  Entry(p, answered) = [p |-> p, missed |-> FALSE]
    BY <2>1 DEF Entry
  <2>2. ASSUME NEW a, NEW e, NEW x PROVE Answered(a, e, x) \in BOOLEAN
    BY DEF Answered
  <2>3. ASSUME NEW x \in 0..(flows.any - 1)
        PROVE  Entry(p, Answered(p.dst, p.svr, x)) = [p |-> p, missed |-> FALSE]
    BY <2>1, <2>2, ReadyIsAnswered
  <2>4. ASSUME flows.vip PROVE Entry(p, Answered(NatAddr(1), 1, -1)) = [p |-> p, missed |-> FALSE]
    BY <2>1, <2>2, <2>4, ReadyIsAnswered
  <2>5. ct' = ct \cup {[p |-> p, missed |-> FALSE]}
    BY <2>3, <2>4 DEF Track
  <2> QED
    BY <2>5
<1>3. new \in [p : Processes, missed : BOOLEAN] /\ new.p = p /\ new.missed = FALSE
  BY <1>2 DEF TypeOK
<1>4. TypeOK'
  BY <1>1, <1>2, <1>3 DEF TypeOK
<1>5. InTurns'
  BY <1>1 DEF InTurns
<1>6. faults \in faults..MaxFaults
  BY NatAssumption DEF TypeOK
<1>7. OneRuleMore'
  BY <1>1 DEF OneRuleMore, RoundStep, RejectAt, FromClient, Round, Dep, RelatedDeps
<1>8. LastRoundCleans'
  BY <1>1 DEF LastRoundCleans, Rounds, Round, RelatedDeps
<1>9. OwnFlows'
  BY <1>1 DEF OwnFlows
<1>10. OwnProcs'
  <2>1. ASSUME NEW q, Launched(q) PROVE Launched(q)'
    BY <1>1, <2>1 DEF Launched, Proc, Dst
  <2>2. kw.alone => /\ kw.name \in {"flush", "setup"} => procs = {}
                    /\ kw.name = "launch" => p.call = calls /\ Launched(p)
    BY DEF OwnProcs
  <2>3. kw.alone /\ kw.name = "launch" => \A c \in ct' : c.p.call = calls /\ Launched(c.p)'
    BY <1>2, <1>3, <2>1, <2>2 DEF OwnProcs
  <2>4. kw.name = "launch" => \A q \in procs : q.call = calls => Launched(q)'
    BY <2>1 DEF OwnProcs
  <2> QED
    BY <1>1, <2>2, <2>3, <2>4 DEF OwnProcs
<1>11. ConfiguredIsAnswered'
  BY <1>2, <1>3 DEF ConfiguredIsAnswered
<1> QED
  BY <1>4, <1>5, <1>7, <1>8, <1>9, <1>10, <1>11

\* Programs that end by themselves, and connections that expire.
LEMMA QuitInv ==
  ASSUME NatInv, (\E p \in procs : Quit(p)) \/ (\E c \in ct : Expire(c))
  PROVE  NatInv'
<1> USE DEF NatInv
<1>1. /\ UNCHANGED <<ifAddr, saved, guest, allow, proper, flows, rules, kw, ended, calls>>
      /\ procs' \subseteq procs /\ ct' \subseteq ct /\ faults' \in faults..MaxFaults
  BY NatAssumption DEF Quit, Expire, Guests, TypeOK
<1>2. TypeOK'
  BY <1>1, NatAssumption DEF TypeOK
<1>3. InTurns'
  BY <1>1 DEF InTurns
<1>4. OneRuleMore'
  BY <1>1, RulesFrame
<1>5. LastRoundCleans'
  BY <1>1 DEF LastRoundCleans, Rounds, Round, RelatedDeps
<1>6. OwnFlows'
  BY <1>1 DEF OwnFlows
<1>7. OwnProcs'
  <2>1. ASSUME NEW q, Launched(q) PROVE Launched(q)'
    BY <1>1, <2>1 DEF Launched, Proc, Dst
  <2>2. kw.name = "launch" => \A q \in procs' : q.call = calls => Launched(q)'
    BY <1>1, <2>1 DEF OwnProcs
  <2>3. kw.alone /\ kw.name = "launch" => \A c \in ct' : c.p.call = calls /\ Launched(c.p)'
    BY <1>1, <2>1 DEF OwnProcs
  <2> QED
    BY <1>1, <2>2, <2>3 DEF OwnProcs
<1>8. ConfiguredIsAnswered'
  BY <1>1 DEF ConfiguredIsAnswered
<1> QED
  BY <1>2, <1>3, <1>4, <1>5, <1>6, <1>7, <1>8

-------------------------------------------------------------------------------
(* The theorems. *)

\* NatInv holds initially.
LEMMA InitInv == Init => NatInv
<1> SUFFICES ASSUME Init PROVE NatInv
  OBVIOUS
<1>1. kw = Idle /\ kw \in Keywords /\ kw.name = "idle"
  BY NoArgsTypes DEF Init, Idle
<1>2. guest \in [Eps -> GuestStates]
  BY NatAssumption, Addresses DEF Init, GuestStates
<1>3. flows \in [any : Nat, vip : BOOLEAN, macs : SUBSET (Addrs \X Eps)]
  BY DEF Init, NoFlows
<1>4. TypeOK
  BY <1>1, <1>2, <1>3, NatAssumption, Addresses DEF Init, TypeOK
<1>5. InTurns
  BY <1>1 DEF Init, InTurns
<1>6. OneRuleMore
  BY <1>1 DEF Init, OneRuleMore
<1>7. LastRoundCleans /\ OwnFlows /\ OwnProcs /\ ConfiguredIsAnswered
  BY <1>1 DEF Init, LastRoundCleans, OwnFlows, OwnProcs, ConfiguredIsAnswered
<1> QED
  BY <1>4, <1>5, <1>6, <1>7 DEF NatInv

\* The invariant: how addresses are configured and restored in turns, what a round of a
\* related test has added, and whose flows, processes and connections there are (nat.py).
THEOREM Inductive == Spec => []NatInv
<1>1. NatInv /\ [Next]_vars => NatInv'
  <2> SUFFICES ASSUME NatInv, [Next]_vars PROVE NatInv'
    OBVIOUS
  <2>1. CASE Next
    <3>1. CASE Keyword
      BY <3>1, ConfigureEndpointInv, FlushInv, SetupPipelineInv, SetupFlowsInv, LaunchInv,
         CheckInv, StartInv, RejectInv, KillRelatedInv, RelatedDoneInv, ConfiguredInv DEF Keyword
    <3> QED
      BY <2>1, <3>1, ConfigureVmsInv, VerifyInv, RestoreInv, RestartInv, RaiseInv, TrackInv,
         QuitInv DEF Next
  <2>2. CASE UNCHANGED vars
    <3> USE <2>2 DEF vars, NatInv
    <3>1. TypeOK' /\ InTurns' /\ OwnFlows' /\ ConfiguredIsAnswered'
      BY DEF TypeOK, InTurns, OwnFlows, ConfiguredIsAnswered
    <3>2. OneRuleMore'
      BY DEF OneRuleMore, RoundStep, RejectAt, FromClient, Round, Dep, RelatedDeps
    <3>3. LastRoundCleans'
      BY DEF LastRoundCleans, Rounds, Round, RelatedDeps
    <3>4. OwnProcs'
      BY DEF OwnProcs, Launched, Proc, Dst
    <3> QED
      BY <3>1, <3>2, <3>3, <3>4
  <2> QED
    BY <2>1, <2>2
<1> QED
  BY InitInv, <1>1, PTL DEF Spec

\* Types.
THEOREM Typed == Spec => []TypeOK
<1>1. NatInv => TypeOK
  BY DEF NatInv
<1> QED
  BY Inductive, <1>1, PTL

\* No VIF's own address is lost while configuring and restoring take turns
\* (_nat_configure_vms, nat_restore_vms).
THEOREM NoAddressLost == Spec => []AddressesKept
<1>1. NatInv => AddressesKept
  <2> SUFFICES ASSUME NatInv, proper, NEW e \in Eps
               PROVE  /\ Orig(e) \in {ifAddr[e], saved[e]}
                      /\ kw.name = "idle" /\ saved = [x \in Eps |-> None] => ifAddr[e] = Orig(e)
    BY DEF AddressesKept
  <2>1. saved[e] = Orig(e) \/ (saved[e] = None /\ ifAddr[e] = Orig(e))
    BY DEF NatInv, InTurns
  <2> QED
    BY <2>1, Addresses
<1> QED
  BY Inductive, <1>1, PTL

\* Every connection that a keyword opens between configured guests is answered
\* (NATSpec.generate_nat_action, _configure_vm, _nat_setup_flows).
THEOREM ConfiguredAnswers == Spec => []ConfiguredIsAnswered
<1>1. NatInv => ConfiguredIsAnswered
  BY DEF NatInv
<1> QED
  BY Inductive, <1>1, PTL

\* Related tests leave nothing in the client, and a rule only for a failure
\* (_nat_execute_related).
THEOREM RelatedLeavesNothing == Spec => []RelatedCleansUp
<1>1. NatInv => RelatedCleansUp
  <2> SUFFICES ASSUME NatInv PROVE RelatedCleansUp
    OBVIOUS
  <2>1. faults \in Nat /\ rules \in [Eps -> Nat]
    BY DEF NatInv, TypeOK
  <2>2. kw.name = "idle" => \A e \in Eps : rules[e] <= faults
    BY <2>1 DEF NatInv, OneRuleMore
  <2> QED
    BY <2>2 DEF NatInv, LastRoundCleans, RelatedCleansUp
<1> QED
  BY Inductive, <1>1, PTL

\* A set that maps one to one to the numbers below its cardinality covers them all.
LEMMA CoversAll ==
  ASSUME NEW S, NEW total \in Nat, Cardinality(S) = total,
         NEW f \in [S -> 0..(total - 1)], \A x, y \in S : f[x] = f[y] => x = y
  PROVE  \A i \in 0..(total - 1) : \E x \in S : f[x] = i
<1>1. f \in Injection(S, 0..(total - 1))
  BY Fun_IsInj
<1>2. IsFiniteSet(0..(total - 1)) /\ Cardinality(0..(total - 1)) = total
  <2>1. 0 \in Int /\ total - 1 \in Int
    OBVIOUS
  <2>2. /\ IsFiniteSet(0..(total - 1))
        /\ Cardinality(0..(total - 1)) = IF 0 > total - 1 THEN 0 ELSE (total - 1) - 0 + 1
    BY <2>1, FS_Interval
  <2> QED
    BY <2>2
<1>3. f \in Surjection(S, 0..(total - 1))
  BY <1>1, <1>2, FS_Injection
<1>4. \A t \in 0..(total - 1) : \E s \in S : f[s] = t
  BY <1>3 DEF Surjection
<1> QED
  BY <1>4

\* The numbers of the connections of a keyword, when as many are tracked as it opened.
LEMMA AllTracked ==
  ASSUME NatInv, CheckNatResult, kw'.name = "kill", kw.alone
  PROVE  {c.p.n : c \in {c \in ct : c.p.call = calls}} = 0..(Total(kw.args) - 1)
<1> USE DEF NatInv
<1>1. /\ kw.name = "launch" /\ kw.pos = Total(kw.args) /\ Cardinality(Live) = Total(kw.args)
  <2>1. kw.name = "launch" /\ kw.pos = Total(kw.args)
    BY DEF CheckNatResult, At
  <2>2. Cardinality(Live) # Total(kw.args) => kw' = Idle
    BY Zenon DEF CheckNatResult, End
  <2>3. kw' = Idle => kw'.name = "idle"
    BY Moves
  <2> QED
    BY <2>1, <2>2, <2>3
<1>2. Total(kw.args) \in Nat
  BY TotalType
<1>3. \A c \in ct : c.p.call = calls /\ Launched(c.p) /\ c = [p |-> c.p, missed |-> FALSE]
  BY <1>1 DEF OwnProcs, ConfiguredIsAnswered, TypeOK
<1>4. \A c \in ct : c.p.n \in 0..(Total(kw.args) - 1)
  BY <1>1, <1>3 DEF Launched
<1>5. ASSUME NEW c \in ct, NEW d \in ct, c.p.n = d.p.n PROVE c = d
  <2>1. c.p = d.p
    BY <1>3, <1>5 DEF Launched
  <2> QED
    BY <1>3, <2>1
<1>6. Live \subseteq ct
  BY DEF Live
<1>7. PICK f : f = [c \in Live |-> c.p.n]
  OBVIOUS
<1>8. /\ f \in [Live -> 0..(Total(kw.args) - 1)]
      /\ \A x, y \in Live : f[x] = f[y] => x = y
  BY <1>4, <1>5, <1>6, <1>7
<1>9. \A i \in 0..(Total(kw.args) - 1) : \E c \in Live : f[c] = i
  BY <1>1, <1>2, <1>8, CoversAll
<1>10. \A i \in 0..(Total(kw.args) - 1) : \E c \in ct : c.p.call = calls /\ c.p.n = i
  BY <1>3, <1>6, <1>7, <1>9
<1> QED
  BY <1>4, <1>10

\* Only _check_nat_result goes on from the launch to the end of the clients.
LEMMA OnlyCheck ==
  ASSUME NatInv, Next, kw.name = "launch", kw'.name = "kill"
  PROVE  CheckNatResult
<1>1. kw' # kw /\ kw' # Idle /\ ~Step /\ TypeOK
  BY Moves DEF NatInv
<1>3. ASSUME NEW kind \in {"snat", "dnat"} PROVE ~configure_vms(kind) /\ ~verify_related(kind)
  BY DEF configure_vms, verify_related, Begin
<1>4. ASSUME NEW args \in Calls PROVE ~verify(args)
  BY DEF verify, Begin
<1>5. ~nat_restore_vms /\ ~RestartVms /\ ~Raise
  BY <1>1 DEF nat_restore_vms, RestartVms, Raise, End
<1>6. /\ \A p \in procs : ~Track(p) /\ ~Quit(p)
      /\ \A c \in ct : ~Expire(c)
  BY <1>1 DEF Track, Quit, Expire
<1>7. /\ \A e \in Eps : ~ConfigureEndpoint(e) /\ ~ConfigureRaises(e)
      /\ ~Configured /\ ~FlushConntrack /\ ~SetupPipeline /\ ~SetupFlows
      /\ ~KillClients /\ ~CopyFiles
  BY DEF ConfigureEndpoint, ConfigureRaises, Configured, FlushConntrack, SetupPipeline, SetupFlows,
         KillClients, CopyFiles, At
<1>8. ~Launch
  BY <1>1 DEF Launch, End
<1>9. /\ ~StartNc /\ ~StartTcpdump /\ ~Reject /\ ~Accept /\ ~KillRelated /\ ~RelatedDone
  BY DEF StartNc, StartTcpdump, Reject, Accept, KillRelated, RelatedDone, InRound
<1> QED
  BY <1>3, <1>4, <1>5, <1>6, <1>7, <1>8, <1>9 DEF Next, Keyword

\* The number of tracked connections is right only when each of those that the keyword
\* opened is tracked, no process of an earlier keyword being about (_check_nat_result).
THEOREM HonestCount == Spec => CountIsHonest
<1>1. NatInv /\ [Next]_vars =>
        [kw.name = "launch" /\ kw'.name = "kill" /\ kw.alone =>
           {c.p.n : c \in {c \in ct : c.p.call = calls}} = 0..(Total(kw.args) - 1)]_vars
  BY AllTracked, OnlyCheck
<1> QED
  BY Inductive, <1>1, PTL DEF Spec, CountIsHonest

===============================================================================
