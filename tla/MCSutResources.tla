----------------------------- MODULE MCSutResources -----------------------------
(* The instances of SutResources that TLC checks: up to two NUMA nodes, hugepages *)
(* of 1 GB counted in units of 512 MB, up to two uplinks. *)
EXTENDS SutResources, SequencesExt

\* One page is just the switch's share; four are the switch's, two VMs and a spare.
AllPages == {Failed, Garbled, -1} \cup 1..4

GoodPages == 1..4

UpToTwoUplinks == BoundedSeq({-1, 0, 1, Garbled}, 2)

===============================================================================
