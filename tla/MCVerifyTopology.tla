---------------------------- MODULE MCVerifyTopology ----------------------------
(* The instances of VerifyTopology that TLC checks: up to three VMs with two VIFs  *)
(* each, on two hosts of two NUMA nodes.                                           *)
EXTENDS VerifyTopology

Places == {<<h, n>> : h \in 1..2, n \in 0..1}

Before(p, q) == p[1] < q[1] \/ (p[1] = q[1] /\ p[2] <= q[2])

\* Where the VMs are, in the order of the loops.
Placements == {p \in BoundedSeq(Places, 3) :
                 \A i, j \in DOMAIN p : i < j => Before(p[i], p[j])}

\* Two VIFs to a VM, VIF k in subnet k; f gives the VNIs.
Endpoints(p, f) ==
  [i \in 1..(2 * Len(p)) |->
     LET g == (i + 1) \div 2
         k == 2 - (i % 2)
     IN  [host |-> p[g][1], guest |-> g, vif |-> k, node |-> p[g][2], subnet |-> k, vni |-> f[i]]]

\* VNIs that the overlay keywords are to assign: by VIF, by VM, or at will.
AnyVnis == UNION {{Endpoints(p, f) : f \in [1..(2 * Len(p)) -> {0, 1}]} : p \in Placements}

===============================================================================
