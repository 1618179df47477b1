------------------------------ MODULE SutResources ------------------------------
(*****************************************************************************)
(* SUT.__init__ (topology.py): how a host's CPUs and hugepage memory are     *)
(* discovered and divided between the virtual switch and the VMs, NUMA node  *)
(* by NUMA node, with the ways in which it exits or dies on the way.         *)
(*                                                                           *)
(* self.numas is the sequence of node ids "listed"; the fields of a Numa     *)
(* object are functions of its id.  avail_cpus is filled in ascending order  *)
(* and only popped from the front, so it is the set it holds.                *)
(*****************************************************************************)
EXTENDS Integers, Sequences, FiniteSets

CONSTANTS
  NCpu,            \* lines of lscpu -p: CPUs 0 .. NCpu-1
  MaxNumaId,       \* bound: the largest NUMA node id
  PageCounts,      \* values free_hugepages may have
  UplinkLists,     \* sequences of what numa_node reads for each uplink
  HugepageSize,    \* KB in the code; any unit here
  OVSDPDK_MEM_PER_SOCKET, vm_mem_size, vm_cpu_num,
  pnic_numa_cpu_num, norm_numa_cpu_num,
  MAX_VM_PER_NUMA

Cpus == 0..(NCpu - 1)
NumaIds == 0..MaxNumaId
Failed == -2   \* cat returned an error
Garbled == -3  \* the read returned something that is not a number
None == -1

ASSUME SutAssumption ==
  /\ NCpu \in Nat \ {0}
  /\ MaxNumaId \in Nat
  /\ PageCounts \subseteq Int
  /\ UplinkLists \subseteq Seq(NumaIds \cup {-1, Garbled})
  /\ HugepageSize \in Nat \ {0}
  /\ OVSDPDK_MEM_PER_SOCKET \in Nat /\ vm_mem_size \in Nat
  /\ vm_cpu_num \in Nat \ {0}
  /\ pnic_numa_cpu_num \in Nat /\ norm_numa_cpu_num \in Nat
  /\ MAX_VM_PER_NUMA \in Nat

VARIABLES
  cpuinfo,       \* host: the NUMA node of each CPU
  free_hugepages,\* host: the read for each NUMA node
  uplinks,       \* host: the numa_node read for each uplink
  dp_type,       \* "ovs-dpdk" or "ovs-native"
  pc, idx,       \* the loop of __init__ and its position
  listed,        \* self.numas, as ids
  avail_cpus, avail_mem,
  pnic_numa_id,
  socket_mem,    \* memory given to the switch on each node
  cpu_mask,      \* CPUs given to the switch
  vms            \* numa.vms: the CPUs of each VM of the node, in order

hostVars == <<cpuinfo, free_hugepages, uplinks, dp_type>>
vars == <<cpuinfo, free_hugepages, uplinks, dp_type, pc, idx, listed, avail_cpus, avail_mem,
          pnic_numa_id, socket_mem, cpu_mask, vms>>

Larger(a, b) == IF a >= b THEN a ELSE b

vm_mem == Larger(vm_mem_size, HugepageSize)
SocketShare == Larger(OVSDPDK_MEM_PER_SOCKET, HugepageSize)

\* "Last line contains the largest numa node id".
n_numa == cpuinfo[NCpu - 1] + 1

\* The k lowest members of S: k times pop(0).
Lowest(k, S) == {c \in S : Cardinality({d \in S : d < c}) < k}

Init ==
  /\ cpuinfo \in [Cpus -> NumaIds]
  /\ free_hugepages \in [NumaIds -> PageCounts]
  /\ uplinks \in UplinkLists
  /\ dp_type \in {"ovs-dpdk", "ovs-native"}
  /\ pc = "hugepages" /\ idx = 0
  /\ listed = <<>>
  /\ avail_cpus = [n \in NumaIds |-> {}]
  /\ avail_mem = [n \in NumaIds |-> 0]
  /\ pnic_numa_id = None
  /\ socket_mem = [n \in NumaIds |-> 0]
  /\ cpu_mask = {}
  /\ vms = [n \in NumaIds |-> <<>>]

-------------------------------------------------------------------------------
Stop(how) ==
  /\ pc' = how
  /\ UNCHANGED <<hostVars, idx, listed, avail_cpus, avail_mem, pnic_numa_id, socket_mem,
                 cpu_mask, vms>>

\* Leave the loop at "here" for the one at "there".
Proceed(here, there) ==
  /\ pc = here
  /\ pc' = there
  /\ UNCHANGED <<hostVars, listed, avail_cpus, avail_mem, pnic_numa_id, socket_mem, cpu_mask, vms>>

\* The loop over range(n_numa): a node whose read fails is skipped.
SkipNuma ==
  /\ pc = "hugepages" /\ idx < n_numa
  /\ free_hugepages[idx] = Failed
  /\ idx' = idx + 1
  /\ UNCHANGED <<hostVars, pc, listed, avail_cpus, avail_mem, pnic_numa_id, socket_mem, cpu_mask,
                 vms>>

ListNuma ==
  /\ pc = "hugepages" /\ idx < n_numa
  /\ free_hugepages[idx] \notin {Failed, Garbled}
  /\ listed' = Append(listed, idx)
  /\ avail_mem' = [avail_mem EXCEPT ![idx] = HugepageSize * Larger(free_hugepages[idx], 0)]
  /\ idx' = idx + 1
  /\ UNCHANGED <<hostVars, pc, avail_cpus, pnic_numa_id, socket_mem, cpu_mask, vms>>

GarbledHugepages ==
  /\ pc = "hugepages" /\ idx < n_numa
  /\ free_hugepages[idx] = Garbled
  /\ Stop("exited")

NumasListed ==
  /\ idx = n_numa
  /\ Proceed("hugepages", "cpus")
  /\ UNCHANGED idx

\* self.numas[cpu[3]] is an index into the list of the nodes that were not skipped.
Indexable == \A c \in Cpus : cpuinfo[c] < Len(listed)

CpusOf(k) == {c \in Cpus : cpuinfo[c] = k - 1}

\* Every CPU goes to its node, and core 0 is taken out of the first.
AssignCpus ==
  /\ pc = "cpus"
  /\ Indexable /\ 0 \in CpusOf(1)
  /\ avail_cpus' = [n \in NumaIds |->
                      {c \in Cpus \ {0} : listed[cpuinfo[c] + 1] = n}]
  /\ pc' = "uplinks" /\ idx' = 1
  /\ UNCHANGED <<hostVars, listed, avail_mem, pnic_numa_id, socket_mem, cpu_mask, vms>>

\* IndexError on a CPU of a node past the list, ValueError if core 0 is elsewhere.
AssignCpusFails ==
  /\ pc = "cpus"
  /\ ~Indexable \/ 0 \notin CpusOf(1)
  /\ Stop("crashed")

UplinkNuma(i) == IF uplinks[i] < 0 THEN 0 ELSE uplinks[i]

\* "if not self.pnic_numa_id": neither None nor node 0 counts as set.
PlaceUplink ==
  /\ pc = "uplinks" /\ idx <= Len(uplinks)
  /\ uplinks[idx] # Garbled
  /\ pnic_numa_id \in {None, 0}
  /\ pnic_numa_id' = UplinkNuma(idx)
  /\ idx' = idx + 1
  /\ UNCHANGED <<hostVars, pc, listed, avail_cpus, avail_mem, socket_mem, cpu_mask, vms>>

CheckUplink ==
  /\ pc = "uplinks" /\ idx <= Len(uplinks)
  /\ uplinks[idx] # Garbled
  /\ pnic_numa_id \notin {None, 0}
  /\ UplinkNuma(idx) = pnic_numa_id
  /\ idx' = idx + 1
  /\ UNCHANGED <<hostVars, pc, listed, avail_cpus, avail_mem, pnic_numa_id, socket_mem, cpu_mask,
                 vms>>

RejectUplink ==
  /\ pc = "uplinks" /\ idx <= Len(uplinks)
  /\ \/ uplinks[idx] = Garbled
     \/ pnic_numa_id \notin {None, 0} /\ UplinkNuma(idx) # pnic_numa_id
  /\ Stop("exited")

UplinksPlaced ==
  /\ idx > Len(uplinks)
  /\ Proceed("uplinks", IF dp_type = "ovs-dpdk" THEN "socket_mem" ELSE "start")
  /\ idx' = 1

AtNuma(here, n) == pc = here /\ idx <= Len(listed) /\ n = listed[idx]

\* Mutant: a node that has too little memory for the switch keeps it for VMs.
GiveSocketMemOrSkip(n) ==
  /\ AtNuma("socket_mem", n)
  /\ IF avail_mem[n] <= SocketShare
       THEN UNCHANGED <<avail_mem, socket_mem>>
       ELSE /\ avail_mem' = [avail_mem EXCEPT ![n] = @ - SocketShare]
            /\ socket_mem' = [socket_mem EXCEPT ![n] = SocketShare]
  /\ idx' = idx + 1
  /\ UNCHANGED <<hostVars, pc, listed, avail_cpus, pnic_numa_id, cpu_mask, vms>>

\* The switch's share of the node's memory, or no use of the node at all.
GiveSocketMem(n) ==
  /\ AtNuma("socket_mem", n)
  /\ IF avail_mem[n] <= SocketShare
       THEN /\ avail_mem' = [avail_mem EXCEPT ![n] = 0]
            /\ UNCHANGED socket_mem
       ELSE /\ avail_mem' = [avail_mem EXCEPT ![n] = @ - SocketShare]
            /\ socket_mem' = [socket_mem EXCEPT ![n] = SocketShare]
  /\ idx' = idx + 1
  /\ UNCHANGED <<hostVars, pc, listed, avail_cpus, pnic_numa_id, cpu_mask, vms>>

SocketMemGiven ==
  /\ idx > Len(listed)
  /\ Proceed("socket_mem", "pmd")
  /\ idx' = 1

PmdCpuNum(n) == IF n = pnic_numa_id THEN pnic_numa_cpu_num ELSE norm_numa_cpu_num

\* Mutant: the CPUs of the mask are not taken out of avail_cpus.
GivePmdCpusShared(n) ==
  /\ AtNuma("pmd", n)
  /\ avail_mem[n] # 0 => Cardinality(avail_cpus[n]) >= PmdCpuNum(n)
  /\ LET given == IF avail_mem[n] = 0 THEN {} ELSE Lowest(PmdCpuNum(n), avail_cpus[n])
     IN  cpu_mask' = cpu_mask \cup given
  /\ idx' = idx + 1
  /\ UNCHANGED <<hostVars, pc, listed, avail_cpus, avail_mem, pnic_numa_id, socket_mem, vms>>

\* The switch's polling CPUs, on each node that has memory left.
GivePmdCpus(n) ==
  /\ AtNuma("pmd", n)
  /\ avail_mem[n] # 0 => Cardinality(avail_cpus[n]) >= PmdCpuNum(n)
  /\ LET given == IF avail_mem[n] = 0 THEN {} ELSE Lowest(PmdCpuNum(n), avail_cpus[n])
     IN  /\ cpu_mask' = cpu_mask \cup given
         /\ avail_cpus' = [avail_cpus EXCEPT ![n] = @ \ given]
  /\ idx' = idx + 1
  /\ UNCHANGED <<hostVars, pc, listed, avail_mem, pnic_numa_id, socket_mem, vms>>

TooFewPmdCpus(n) ==
  /\ AtNuma("pmd", n)
  /\ avail_mem[n] # 0
  /\ Cardinality(avail_cpus[n]) < PmdCpuNum(n)
  /\ Stop("exited")

PmdCpusGiven ==
  /\ idx > Len(listed)
  /\ Proceed("pmd", "start")
  /\ UNCHANGED idx

\* stop_vswitch, start_vswitch (vswitch.py:506-553 for ovs-dpdk, 645-709 for
\* ovs-native): every command succeeds, or the first that fails raises RuntimeError.
StartVswitch == Proceed("start", "vms") /\ idx' = 1

StartVswitchFails == pc = "start" /\ Stop("crashed")

\* Mutant: a VM must leave memory over.
VmFitsStrictly(n) ==
  /\ avail_mem[n] # 0
  /\ Len(vms[n]) < MAX_VM_PER_NUMA
  /\ avail_mem[n] > vm_mem
  /\ Cardinality(avail_cpus[n]) >= vm_cpu_num

VmFits(n) ==
  /\ avail_mem[n] # 0
  /\ Len(vms[n]) < MAX_VM_PER_NUMA
  /\ avail_mem[n] >= vm_mem
  /\ Cardinality(avail_cpus[n]) >= vm_cpu_num

\* Mutant: the node is charged half.
CreateVmUncharged(n) ==
  /\ AtNuma("vms", n)
  /\ VmFits(n)
  /\ avail_mem' = [avail_mem EXCEPT ![n] = @ - vm_mem_size \div 2]
  /\ LET given == Lowest(vm_cpu_num, avail_cpus[n])
     IN  /\ avail_cpus' = [avail_cpus EXCEPT ![n] = @ \ given]
         /\ vms' = [vms EXCEPT ![n] = Append(@, given)]
  /\ UNCHANGED <<hostVars, pc, idx, listed, pnic_numa_id, socket_mem, cpu_mask>>

CreateVm(n) ==
  /\ AtNuma("vms", n)
  /\ VmFits(n)
  /\ avail_mem' = [avail_mem EXCEPT ![n] = @ - vm_mem]
  /\ LET given == Lowest(vm_cpu_num, avail_cpus[n])
     IN  /\ avail_cpus' = [avail_cpus EXCEPT ![n] = @ \ given]
         /\ vms' = [vms EXCEPT ![n] = Append(@, given)]
  /\ UNCHANGED <<hostVars, pc, idx, listed, pnic_numa_id, socket_mem, cpu_mask>>

\* VirtualMachine.__init__ copies the disk image and raises if the copy fails; the
\* half-built SUT is dropped with its accounts.
CreateVmFails(n) == AtNuma("vms", n) /\ VmFits(n) /\ Stop("crashed")

NextNuma(n) ==
  /\ AtNuma("vms", n)
  /\ ~VmFits(n)
  /\ idx' = idx + 1
  /\ UNCHANGED <<hostVars, pc, listed, avail_cpus, avail_mem, pnic_numa_id, socket_mem, cpu_mask,
                 vms>>

VmsCreated ==
  /\ idx > Len(listed)
  /\ Proceed("vms", "done")
  /\ UNCHANGED idx

Final == {"done", "exited", "crashed"}

Finished == pc \in Final /\ UNCHANGED vars

Step ==
  \/ SkipNuma \/ ListNuma \/ GarbledHugepages \/ NumasListed
  \/ AssignCpus \/ AssignCpusFails
  \/ PlaceUplink \/ CheckUplink \/ RejectUplink \/ UplinksPlaced
  \/ \E n \in NumaIds :
       \/ GiveSocketMem(n) \/ GivePmdCpus(n) \/ TooFewPmdCpus(n)
       \/ CreateVm(n) \/ CreateVmFails(n) \/ NextNuma(n)
  \/ SocketMemGiven \/ PmdCpusGiven
  \/ StartVswitch \/ StartVswitchFails
  \/ VmsCreated

Next == Step \/ Finished

Spec == Init /\ [][Next]_vars

-------------------------------------------------------------------------------
(* Properties. *)

\* Type correctness.
TypeOK ==
  /\ cpuinfo \in [Cpus -> NumaIds]
  /\ free_hugepages \in [NumaIds -> Int]
  /\ uplinks \in Seq(NumaIds \cup {-1, Garbled})
  /\ dp_type \in {"ovs-dpdk", "ovs-native"}
  /\ pc \in {"hugepages", "cpus", "uplinks", "socket_mem", "pmd", "start", "vms"} \cup Final
  /\ idx \in Nat
  /\ listed \in Seq(NumaIds)
  /\ avail_cpus \in [NumaIds -> SUBSET Cpus]
  /\ avail_mem \in [NumaIds -> Nat]
  /\ pnic_numa_id \in NumaIds \cup {None}
  /\ socket_mem \in [NumaIds -> Nat]
  /\ cpu_mask \in SUBSET Cpus
  /\ vms \in [NumaIds -> Seq(SUBSET Cpus)]

\* The VMs, as pairs of a node and a position.
Vms == {v \in NumaIds \X (1..MAX_VM_PER_NUMA) : v[2] <= Len(vms[v[1]])}

CpusOfVm(v) == vms[v[1]][v[2]]

\* No CPU is given twice, to two VMs or to a VM and the switch, nor given and
\* still available, and core 0 is never given (topology.py:124-127, 193-218, 268-270).
CpusExclusive ==
  /\ \A v \in Vms : CpusOfVm(v) \cap cpu_mask = {} /\ 0 \notin CpusOfVm(v)
  /\ \A v, w \in Vms : v # w => CpusOfVm(v) \cap CpusOfVm(w) = {}
  /\ \A n \in NumaIds : /\ avail_cpus[n] \cap cpu_mask = {}
                        /\ \A v \in Vms : avail_cpus[n] \cap CpusOfVm(v) = {}
  /\ 0 \notin cpu_mask

Hugepages(n) == HugepageSize * Larger(free_hugepages[n], 0)

\* The memory given away on a node never exceeds its free hugepages, and what is
\* left is exactly the rest or, on a node the switch skips, nothing
\* (topology.py:178-190, 267).
MemoryBudget ==
  \A n \in NumaIds :
    LET given == socket_mem[n] + vm_mem * Len(vms[n])
    IN  given > 0 => given + avail_mem[n] = Hugepages(n)

\* With ovs-dpdk every node that holds a VM gives the switch memory and its full
\* number of polling CPUs: the two "not numa.avail_mem" tests agree
\* (topology.py:199, 257).
PmdServesVms ==
  pc = "done" /\ dp_type = "ovs-dpdk" =>
    \A v \in Vms : /\ socket_mem[v[1]] = SocketShare
                   /\ Cardinality({c \in cpu_mask : cpuinfo[c] = v[1]}) = PmdCpuNum(v[1])

Smaller(a, b) == IF a <= b THEN a ELSE b

\* How many VMs a node can hold, from the host's facts alone.
Capacity(n) ==
  LET dpdk == dp_type = "ovs-dpdk"
      mem  == Hugepages(n) - (IF dpdk THEN SocketShare ELSE 0)
      cpus == Cardinality({c \in Cpus \ {0} : cpuinfo[c] = n})
                - (IF dpdk THEN PmdCpuNum(n) ELSE 0)
  IN  IF mem <= 0 THEN 0
      ELSE Smaller(MAX_VM_PER_NUMA, Smaller(mem \div vm_mem, cpus \div vm_cpu_num))

\* When __init__ succeeds, each node has as many VMs as it can hold, up to the
\* limit per node (topology.py:256-308; docs/advanced_guide.rst:37).
VmsFillNodes ==
  pc = "done" => \A n \in NumaIds : Len(vms[n]) = IF n < n_numa THEN Capacity(n) ELSE 0

-------------------------------------------------------------------------------
(* The inductive invariant of __init__: where each loop stands, and the account  *)
(* of every node at that point.                                                  *)

Discovering == {"hugepages", "cpus"}
Allocating == {"uplinks", "socket_mem", "pmd", "start", "vms", "done"}

Listed(n) == \E k \in 1..Len(listed) : listed[k] = n

\* The loop over range(n_numa) appends ids in order; it lists as many as it has
\* visited only if it has skipped none, and then position and id agree.
ListedInOrder ==
  /\ pc \in Discovering =>
       /\ idx <= n_numa
       /\ Len(listed) <= idx
       /\ \A k \in 1..Len(listed) : listed[k] < idx
       /\ Len(listed) = idx => \A k \in 1..Len(listed) : listed[k] = k - 1
       /\ \A n \in NumaIds : avail_mem[n] = IF Listed(n) THEN Hugepages(n) ELSE 0
  /\ pc = "cpus" => idx = n_numa
  /\ pc \in Allocating =>
       /\ Len(listed) = n_numa
       /\ \A k \in 1..Len(listed) : listed[k] = k - 1
  /\ pc \in Allocating \ {"start", "done"} => idx >= 1

\* Nothing is given away before its loop.
NotYetGiven ==
  /\ pc \in Discovering => /\ cpu_mask = {}
                           /\ \A n \in NumaIds : socket_mem[n] = 0 /\ avail_cpus[n] = {}
  /\ pc \in Discovering \cup {"uplinks", "socket_mem", "pmd", "start"} =>
       \A n \in NumaIds : vms[n] = <<>>

\* Only ovs-dpdk is given memory and polling CPUs.
DpdkOnly == pc \in {"socket_mem", "pmd"} => dp_type = "ovs-dpdk"

OwnCpus(n) == {c \in Cpus \ {0} : cpuinfo[c] = n}

\* Only a node's own CPUs are available on it, and its VMs are at most the limit.
WithinNode ==
  \A n \in NumaIds : avail_cpus[n] \subseteq OwnCpus(n) /\ Len(vms[n]) <= MAX_VM_PER_NUMA

\* A loop over the nodes, from "here", has dealt with node n.
Past(here, n) == pc = here /\ n + 1 < idx

SocketSettled(n) ==
  dp_type = "ovs-dpdk" /\ (Past("socket_mem", n) \/ pc \in {"pmd", "start", "vms", "done"})

PmdSettled(n) == dp_type = "ovs-dpdk" /\ (Past("pmd", n) \/ pc \in {"start", "vms", "done"})

VmsSettled(n) == Past("vms", n) \/ pc = "done"

\* The node has memory for the switch and at least a page for VMs.
Usable(n) == Hugepages(n) > SocketShare

\* What the switch has of a node, and what it leaves to the VMs.
SwitchMem(n) == IF SocketSettled(n) /\ Usable(n) THEN SocketShare ELSE 0
SwitchCpus(n) == IF PmdSettled(n) /\ Usable(n) THEN PmdCpuNum(n) ELSE 0
VmMem(n) == IF SocketSettled(n) THEN (IF Usable(n) THEN Hugepages(n) - SocketShare ELSE 0)
                                ELSE Hugepages(n)

\* The account of memory and CPUs of each node that __init__ found.
Account(n) ==
  /\ socket_mem[n] = SwitchMem(n)
  /\ avail_mem[n] + vm_mem * Len(vms[n]) = VmMem(n)
  /\ Cardinality({c \in cpu_mask : cpuinfo[c] = n}) = SwitchCpus(n)
  /\ Cardinality(avail_cpus[n]) + vm_cpu_num * Len(vms[n]) + SwitchCpus(n)
       = Cardinality(OwnCpus(n))
  /\ VmsSettled(n) => ~VmFits(n)

Accounts ==
  pc \in Allocating =>
    \A n \in NumaIds : IF n < n_numa THEN Account(n)
                       ELSE avail_mem[n] = 0 /\ socket_mem[n] = 0 /\ vms[n] = <<>>

SutInv ==
  /\ TypeOK /\ ListedInOrder /\ NotYetGiven /\ DpdkOnly /\ WithinNode
  /\ CpusExclusive /\ MemoryBudget /\ Accounts

\* VirtualMachine.numa_id is set to 0 and never changed: numactl binds the memory
\* of every VM to node 0 (vm.py:84, 373).
MemoryNode(v) == 0

\* docs/advanced_guide.rst:39: "A VM's memory and vcpu are always colocated on a
\* single NUMA node."
Colocated == pc = "done" => \A v \in Vms : \A c \in CpusOfVm(v) : cpuinfo[c] = MemoryNode(v)

\* topology.py:147: "uplink interfaces CANNOT be on different numa nodes".
UplinksTogether ==
  pc = "done" => \A i, j \in 1..Len(uplinks) : UplinkNuma(i) = UplinkNuma(j)

===============================================================================
