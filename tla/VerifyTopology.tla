------------------------------ MODULE VerifyTopology ------------------------------
(*****************************************************************************)
(* The verify topology of pal.py: which endpoint is to reach which, and      *)
(* which not.  verify_topology_get builds it from the SUTs' VMs; a test then *)
(* hands it through allow_originate, select_pair, allow_to_deny and          *)
(* deny_to_allow in any order before it drives traffic.                      *)
(*                                                                           *)
(* "eps" is the endpoints in the order of the loops over suts, get_vms() and *)
(* vm.vifs.  An entry is its source and, per locality, the list of its       *)
(* destinations.  The criteria are the default ones, which is how every test *)
(* calls verify_topology_get.                                                *)
(*****************************************************************************)
EXTENDS Naturals, SequencesExt

CONSTANT Layouts  \* the sequences of endpoints to start from

Locs == {"NUMA", "XNUMA", "XHOST"}

\* The endpoints are different ones: no VIF is met twice in the loops.
ASSUME LayoutAssumption == \A l \in Layouts : l \in Seq(Range(l)) /\ IsInjective(l)

VARIABLES
  eps,   \* the endpoints: [host, guest, vif, node, subnet, vni]
  vt,    \* ${verify_topology} of the test
  at,    \* the endpoint that the loops of verify_topology_get are at
  pc     \* "new", "lookup", the last operation, or "raised"

vtVars == <<eps, vt, at, pc>>

NewVt == [allow |-> <<>>, deny |-> <<>>]

NewEntry(sep) == [sep |-> sep, deps |-> [l \in Locs |-> <<>>]]

VtInit ==
  /\ eps \in Layouts
  /\ vt = NewVt
  /\ at = 1
  /\ pc = "new"

-------------------------------------------------------------------------------
\* suts[0] is host 1; the source is the first VIF of its first VM.
HasSource == eps # <<>> /\ eps[1].host = 1

\* vm.numa_id, which VirtualMachine.__init__ sets to 0 for every VM.
numa_id(e) == 0

Locality(sep, e) ==
  CASE sep.host # e.host             -> "XHOST"
    [] sep.host = e.host /\ numa_id(sep) # numa_id(e) -> "XNUMA"
    [] OTHER                         -> "NUMA"

\* _get_vte, then the append to one of the entry's lists.
AddTo(list, sep, e) ==
  LET entries == IF \E i \in DOMAIN list : list[i].sep = sep THEN list
                 ELSE Append(list, NewEntry(sep))
      i == CHOOSE k \in DOMAIN entries : entries[k].sep = sep
  IN  [entries EXCEPT ![i].deps[Locality(sep, e)] = Append(@, e)]

\* verify_topology_get: a source, and an empty topology to fill.
verify_topology_get ==
  /\ pc = "new" /\ HasSource
  /\ pc' = "lookup"
  /\ UNCHANGED <<eps, vt, at>>

\* The endpoints that are not skipped.
IsDestination(e) == e # eps[1] /\ e.subnet = eps[1].subnet

\* Mutant: the destinations are not told apart by VNI.
AddDestinationAllow ==
  /\ pc = "lookup" /\ at <= Len(eps)
  /\ vt' = IF IsDestination(eps[at]) THEN [vt EXCEPT !.allow = AddTo(@, eps[1], eps[at])] ELSE vt
  /\ at' = at + 1
  /\ UNCHANGED <<eps, pc>>

\* One turn of the innermost loop.
AddDestination ==
  /\ pc = "lookup" /\ at <= Len(eps)
  /\ LET e == eps[at]
     IN  vt' = IF ~IsDestination(e) THEN vt
               ELSE IF e.vni = eps[1].vni THEN [vt EXCEPT !.allow = AddTo(@, eps[1], e)]
               ELSE [vt EXCEPT !.deny = AddTo(@, eps[1], e)]
  /\ at' = at + 1
  /\ UNCHANGED <<eps, pc>>

\* The loops end, and verify_topology_get returns.
EndLookup ==
  /\ pc = "lookup" /\ at > Len(eps)
  /\ pc' = "get"
  /\ UNCHANGED <<eps, vt, at>>

Made == pc \notin {"new", "lookup", "raised"}

\* The deny entries of allow_originate, one for each destination, reversed.
Reversed(vte, l) ==
  [i \in DOMAIN vte.deps[l] |->
     [sep |-> vte.deps[l][i], deps |-> [NewEntry(vte.sep).deps EXCEPT ![l] = <<vte.sep>>]]]

verify_topology_allow_originate ==
  /\ Made
  /\ vt.allow # <<>>
  /\ LET vte == vt.allow[1]
     IN  vt' = [allow |-> <<vte>>,
                deny  |-> Reversed(vte, "NUMA") \o Reversed(vte, "XNUMA") \o Reversed(vte, "XHOST")]
  /\ pc' = "originate"
  /\ UNCHANGED <<eps, at>>

verify_topology_select_pair(loc) ==
  /\ Made
  /\ vt.allow # <<>> /\ vt.allow[1].deps[loc] # <<>>
  /\ LET vte == vt.allow[1]
     IN  vt' = [allow |-> <<[NewEntry(vte.sep) EXCEPT !.deps[loc] = <<vte.deps[loc][1]>>]>>,
                deny  |-> <<>>]
  /\ pc' = loc
  /\ UNCHANGED <<eps, at>>

\* Mutant: the entries are copied to the deny list, not moved.
change_allow_to_deny_copy ==
  /\ Made
  /\ vt.allow # <<>>
  /\ vt' = [vt EXCEPT !.deny = vt.allow]
  /\ pc' = "deny"
  /\ UNCHANGED <<eps, at>>

verify_topology_change_allow_to_deny ==
  /\ Made
  /\ vt.allow # <<>>
  /\ vt' = [allow |-> <<>>, deny |-> vt.allow]
  /\ pc' = "deny"
  /\ UNCHANGED <<eps, at>>

verify_topology_change_deny_to_allow ==
  /\ Made
  /\ vt.deny # <<>>
  /\ vt' = [allow |-> vt.deny, deny |-> <<>>]
  /\ pc' = "allow"
  /\ UNCHANGED <<eps, at>>

\* The RuntimeErrors: no source, no entry to work on, or no such pair.
RaiseRuntimeError ==
  /\ \/ pc = "new" /\ ~HasSource
     \/ Made /\ (vt.allow = <<>> \/ vt.deny = <<>>)
     \/ Made /\ vt.allow # <<>> /\ \E l \in Locs : vt.allow[1].deps[l] = <<>>
  /\ pc' = "raised"
  /\ UNCHANGED <<eps, vt, at>>

\* The test is over.
Over == pc = "raised" /\ UNCHANGED vtVars

VtNext ==
  \/ verify_topology_get \/ AddDestination \/ EndLookup
  \/ verify_topology_allow_originate
  \/ \E l \in Locs : verify_topology_select_pair(l)
  \/ verify_topology_change_allow_to_deny \/ verify_topology_change_deny_to_allow
  \/ RaiseRuntimeError \/ Over

VtSpec == VtInit /\ [][VtNext]_vtVars

-------------------------------------------------------------------------------
(* What is read from a verify topology. *)

\* The first of a list, if it has one.
First(list) == IF list = <<>> THEN <<>> ELSE <<list[1]>>

\* Mutant: only the first locality that has any.
get_deps_first(vte) ==
  First(First(vte.deps["NUMA"]) \o First(vte.deps["XNUMA"]) \o First(vte.deps["XHOST"]))

\* get_deps: at most one destination per locality; execute_*_verification go by it.
get_deps(vte) ==
  First(vte.deps["NUMA"]) \o First(vte.deps["XNUMA"]) \o First(vte.deps["XHOST"])

get_full_deps(vte) == vte.deps["NUMA"] \o vte.deps["XNUMA"] \o vte.deps["XHOST"]

Pairs(list) ==
  UNION {{<<list[i].sep, d>> : d \in Range(get_full_deps(list[i]))} : i \in DOMAIN list}

-------------------------------------------------------------------------------
(* Properties. *)

\* The entries over the endpoints of the layout.
Entries == [sep : Range(eps), deps : [Locs -> Seq(Range(eps))]]

\* Type correctness.
VtTypeOK ==
  /\ eps \in Layouts
  /\ vt \in [allow : Seq(Entries), deny : Seq(Entries)]
  /\ at \in 1..(Len(eps) + 1)
  /\ pc \in {"new", "lookup", "get", "originate", "deny", "allow", "raised"} \cup Locs

\* verify_topology_get puts every other endpoint of the source's subnet in exactly
\* one place: allowed or denied by its VNI, once, under one entry
\* (pal.py:271-309).
Classified ==
  pc = "get" =>
    LET others == {e \in Range(eps) : e # eps[1] /\ e.subnet = eps[1].subnet}
    IN  /\ Pairs(vt.allow) = {<<eps[1], e>> : e \in {o \in others : o.vni = eps[1].vni}}
        /\ Pairs(vt.deny) = {<<eps[1], e>> : e \in {o \in others : o.vni # eps[1].vni}}
        /\ Len(vt.allow) <= 1 /\ Len(vt.deny) <= 1
        /\ \A e \in Range(vt.allow) \cup Range(vt.deny) : IsInjective(get_full_deps(e))

\* After any sequence of operations no traffic is expected both to pass and to be
\* dropped (pal.py:313-408).
NoContradiction == Pairs(vt.allow) \cap Pairs(vt.deny) = {}

\* What a verification drives covers each locality an entry has a destination in
\* (pal.py:194-205, 415-425).
EachLocalityDriven ==
  \A e \in Range(vt.allow) \cup Range(vt.deny) : \A l \in Locs :
    e.deps[l] # <<>> => Range(get_deps(e)) \cap Range(e.deps[l]) # {}

-------------------------------------------------------------------------------
(* The inductive invariant. *)

\* No endpoint is a destination of its own entry.
NoLoop ==
  \A e \in Range(vt.allow) \cup Range(vt.deny) : \A l \in Locs : e.sep \notin Range(e.deps[l])

\* A list that verify_topology_get has filled with "found": one entry at most, that of the
\* source, with each of them once, in the list of its locality.
FilledWith(list, found) ==
  /\ Len(list) <= 1
  /\ list = <<>> => found = {}
  /\ \A i \in DOMAIN list :
       /\ list[i].sep = eps[1]
       /\ \A l \in Locs : /\ Range(list[i].deps[l]) = {e \in found : Locality(eps[1], e) = l}
                          /\ IsInjective(list[i].deps[l])

\* The destinations that the loops have met.
Found == {e \in {eps[k] : k \in 1..(at - 1)} : IsDestination(e)}

\* How far verify_topology_get has come.
LookupProgress ==
  /\ pc = "new" => vt = NewVt /\ at = 1
  /\ pc \in {"lookup", "get"} =>
       /\ FilledWith(vt.allow, {e \in Found : e.vni = eps[1].vni})
       /\ FilledWith(vt.deny, {e \in Found : e.vni # eps[1].vni})
  /\ pc = "get" => at = Len(eps) + 1

TopologyInv == VtTypeOK /\ NoLoop /\ LookupProgress /\ NoContradiction

===============================================================================
