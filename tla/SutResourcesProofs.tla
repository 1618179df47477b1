--------------------------- MODULE SutResourcesProofs ---------------------------
(*****************************************************************************)
(* The properties of SutResources, proved for every host: any number of CPUs *)
(* and NUMA nodes, any hugepage counts and uplinks, any sizes of the switch's *)
(* share and of a VM.                                                        *)
(*****************************************************************************)
EXTENDS SutResources, FiniteSetTheorems, FunctionTheorems, TLAPS

-------------------------------------------------------------------------------
(* The operators. *)

\* pop(0), k times, of a list of at least k CPUs takes k of them: the rank of a CPU
\* in the list is a bijection with the positions of the list.
LEMMA LowestTakes ==
  ASSUME NEW S \in SUBSET Nat, IsFiniteSet(S), NEW k \in Nat, k <= Cardinality(S)
  PROVE  /\ Lowest(k, S) \subseteq S
         /\ IsFiniteSet(Lowest(k, S)) /\ Cardinality(Lowest(k, S)) = k
         /\ IsFiniteSet(S \ Lowest(k, S)) /\ Cardinality(S \ Lowest(k, S)) = Cardinality(S) - k
<1> DEFINE Below(c) == {d \in S : d < c}
           T == 0..(Cardinality(S) - 1)
           r == [c \in S |-> Cardinality(Below(c))]
           L == Lowest(k, S)
<1> HIDE DEF T, L
<1>0. Cardinality(S) \in Nat
  BY FS_CardinalityType
<1>1. ASSUME NEW c \in S
      PROVE  IsFiniteSet(Below(c)) /\ Cardinality(Below(c)) \in T
  <2>1. /\ Below(c) \in SUBSET (S \ {c})
        /\ IsFiniteSet(S \ {c}) /\ Cardinality(S \ {c}) = Cardinality(S) - 1
    BY FS_RemoveElement
  <2>2. IsFiniteSet(Below(c)) /\ Cardinality(Below(c)) <= Cardinality(S) - 1
    BY <2>1, FS_Subset
  <2>3. Cardinality(Below(c)) \in Nat
    BY <2>2, FS_CardinalityType
  <2> QED
    BY <1>0, <2>2, <2>3 DEF T
<1>2. ASSUME NEW b \in S, NEW c \in S, b < c
      PROVE  Cardinality(Below(b)) < Cardinality(Below(c))
  <2>0. b \in Nat /\ c \in Nat /\ \A d \in S : d \in Nat
    OBVIOUS
  <2>1. b \notin Below(b) /\ Below(b) \cup {b} \in SUBSET Below(c)
    <3>1. ~(b < b)
      BY <2>0
    <3>2. \A d \in S : d < b => d < c
      BY <1>2, <2>0
    <3> QED
      BY <1>2, <3>1, <3>2
  <2>2. Cardinality(Below(b) \cup {b}) = Cardinality(Below(b)) + 1
    BY <1>1, <2>1, FS_AddElement
  <2>3. Cardinality(Below(b) \cup {b}) <= Cardinality(Below(c))
    BY <1>1, <2>1, FS_Subset
  <2>4. Cardinality(Below(b)) \in Nat /\ Cardinality(Below(c)) \in Nat
    BY <1>1, FS_CardinalityType
  <2> QED
    BY <2>2, <2>3, <2>4
<1>3. r \in [S -> T] /\ \A c \in S : r[c] = Cardinality(Below(c))
  BY <1>1
<1>4. \A b, c \in S : r[b] = r[c] => b = c
  <2> SUFFICES ASSUME NEW b \in S, NEW c \in S, r[b] = r[c], b # c
               PROVE  FALSE
    OBVIOUS
  <2>1. b \in Nat /\ c \in Nat
    OBVIOUS
  <2>2. r[b] \in Nat /\ r[c] \in Nat
    BY <1>1, <1>3, FS_CardinalityType
  <2>3. CASE b < c
    <3>1. r[b] < r[c]
      BY <1>2, <1>3, <2>3
    <3> QED
      BY <3>1, <2>2
  <2>4. CASE c < b
    <3>1. r[c] < r[b]
      BY <1>2, <1>3, <2>4
    <3> QED
      BY <3>1, <2>2
  <2> QED
    BY <2>1, <2>3, <2>4
<1> HIDE DEF r
<1>5. r \in Injection(S, T)
  BY <1>3, <1>4 DEF Injection, IsInjective
<1>6. IsFiniteSet(T) /\ Cardinality(T) = Cardinality(S)
  <2>1. PICK m \in Int : m = Cardinality(S) - 1
    BY <1>0
  <2>2. IsFiniteSet(0..m) /\ Cardinality(0..m) = IF 0 > m THEN 0 ELSE m - 0 + 1
    BY FS_Interval
  <2>3. T = 0..m
    BY <2>1 DEF T
  <2> QED
    BY <1>0, <2>1, <2>2, <2>3
<1>7. r \in Surjection(S, T)
  BY <1>5, <1>6, FS_Injection
<1>8. \A t \in T : \E c \in S : r[c] = t
  BY <1>7 DEF Surjection
<1>9. L = {c \in S : r[c] < k}
  BY <1>3 DEF L, Lowest
<1>10. IsFiniteSet(L) /\ L \in SUBSET S
  BY <1>9, FS_Subset
<1>11. 0..(k - 1) \subseteq T
  BY <1>0 DEF T
<1>12. ExistsBijection(0..(k - 1), L)
  <2> DEFINE q == [c \in L |-> r[c]]
  <2>1. q \in [L -> 0..(k - 1)]
    <3>1. ASSUME NEW c \in L PROVE r[c] \in 0..(k - 1)
      <4>1. c \in S /\ r[c] < k
        BY <1>9
      <4>2. r[c] \in T
        BY <4>1, <1>3
      <4> QED
        BY <1>0, <4>1, <4>2 DEF T
    <3> QED
      BY <3>1
  <2>2. q \in Injection(L, 0..(k - 1))
    BY <2>1, <1>4, <1>10 DEF Injection, IsInjective
  <2>3. \A t \in 0..(k - 1) : \E c \in L : q[c] = t
    <3> SUFFICES ASSUME NEW t \in 0..(k - 1) PROVE \E c \in L : q[c] = t
      OBVIOUS
    <3>1. PICK c \in S : r[c] = t
      BY <1>8, <1>11
    <3>2. c \in L
      BY <3>1, <1>9
    <3> QED
      BY <3>1, <3>2
  <2>4. q \in Surjection(L, 0..(k - 1))
    BY <2>1, <2>3 DEF Surjection
  <2>5. ExistsBijection(L, 0..(k - 1))
    BY <2>2, <2>4 DEF Bijection, ExistsBijection
  <2> QED
    BY <2>5, Fun_ExistsBijSymmetric
<1>13. IsFiniteSet(0..(k - 1)) /\ Cardinality(0..(k - 1)) = k
  <2>1. PICK m \in Int : m = k - 1
    OBVIOUS
  <2>2. IsFiniteSet(0..m) /\ Cardinality(0..m) = IF 0 > m THEN 0 ELSE m - 0 + 1
    BY FS_Interval
  <2> QED
    BY <2>1, <2>2
<1>14. Cardinality(L) = k
  BY <1>12, <1>13, FS_Bijection
<1>15. S \cap L = L
  BY <1>10
<1>16. IsFiniteSet(S \ L) /\ Cardinality(S \ L) = Cardinality(S) - Cardinality(L)
  BY <1>15, FS_Difference
<1> QED
  BY <1>10, <1>14, <1>16 DEF L

\* A quotient is known by its remainder.
LEMMA Quotient ==
  ASSUME NEW a \in Nat, NEW b \in Nat \ {0}, NEW q \in Nat, b * q <= a, a < b * q + b
  PROVE  a \div b = q
  OBVIOUS

\* As many times as b goes into a, at least.
LEMMA QuotientAtLeast ==
  ASSUME NEW a \in Nat, NEW b \in Nat \ {0}, NEW q \in Nat, b * q <= a
  PROVE  a \div b \in Nat /\ q <= a \div b
  OBVIOUS

\* The sizes the accounts are kept in.
LEMMA Sizes ==
  /\ vm_mem \in Nat \ {0} /\ SocketShare \in Nat \ {0}
  /\ TypeOK => \A n \in NumaIds : Hugepages(n) \in Nat
  /\ TypeOK => n_numa \in Nat /\ n_numa <= MaxNumaId + 1
<1>1. vm_mem \in Nat \ {0} /\ SocketShare \in Nat \ {0}
  BY SutAssumption DEF vm_mem, SocketShare, Larger
<1>2. ASSUME TypeOK, NEW n \in NumaIds PROVE Hugepages(n) \in Nat
  <2>1. PICK h \in Nat : h = Larger(free_hugepages[n], 0)
    BY <1>2 DEF TypeOK, Larger
  <2>2. HugepageSize * h \in Nat
    BY SutAssumption
  <2> QED
    BY <2>1, <2>2 DEF Hugepages
<1>3. ASSUME TypeOK PROVE n_numa \in Nat /\ n_numa <= MaxNumaId + 1
  <2>1. NCpu - 1 \in Cpus
    BY SutAssumption DEF Cpus
  <2>2. cpuinfo[NCpu - 1] \in NumaIds
    BY <1>3, <2>1 DEF TypeOK
  <2> QED
    BY <2>2, SutAssumption DEF n_numa, NumaIds
<1> QED
  BY <1>1, <1>2, <1>3

\* Sets of CPUs are finite.
LEMMA FiniteCpus ==
  ASSUME NEW S \in SUBSET Cpus
  PROVE  S \in SUBSET Nat /\ IsFiniteSet(S) /\ Cardinality(S) \in Nat
<1>1. PICK m \in Int : m = NCpu - 1
  BY SutAssumption
<1>2. IsFiniteSet(0..m)
  BY FS_Interval
<1>3. IsFiniteSet(Cpus) /\ Cpus \subseteq Nat
  BY <1>1, <1>2 DEF Cpus
<1> QED
  BY <1>3, FS_Subset, FS_CardinalityType

-------------------------------------------------------------------------------
(* The initial states. *)

\* Before __init__ runs, nothing is found and nothing given.
LEMMA Starts == Init => SutInv
<1> SUFFICES ASSUME Init PROVE SutInv
  OBVIOUS
<1>1. TypeOK
  <2>1. free_hugepages \in [NumaIds -> Int] /\ uplinks \in Seq(NumaIds \cup {-1, Garbled})
    BY SutAssumption DEF Init
  <2>2. vms \in [NumaIds -> Seq(SUBSET Cpus)] /\ listed \in Seq(NumaIds)
    BY DEF Init
  <2>3. avail_mem \in [NumaIds -> Nat] /\ socket_mem \in [NumaIds -> Nat] /\ idx \in Nat
    BY DEF Init
  <2>4. avail_cpus \in [NumaIds -> SUBSET Cpus] /\ cpu_mask \in SUBSET Cpus
    BY DEF Init
  <2> QED
    BY <2>1, <2>2, <2>3, <2>4 DEF Init, TypeOK
<1>2. ListedInOrder
  BY <1>1, Sizes DEF Init, ListedInOrder, Discovering, Allocating, Listed
<1>3. NotYetGiven /\ DpdkOnly
  BY DEF Init, NotYetGiven, DpdkOnly
<1>4. Vms = {}
  BY SutAssumption DEF Init, Vms
<1>5. WithinNode
  BY SutAssumption DEF Init, WithinNode
<1>6. CpusExclusive
  BY <1>4 DEF Init, CpusExclusive
<1>7. MemoryBudget
  <2>1. vm_mem * 0 = 0
    BY Sizes
  <2> QED
    BY <2>1 DEF Init, MemoryBudget
<1>8. Accounts
  BY DEF Init, Accounts, Allocating
<1> QED
  BY <1>1, <1>2, <1>3, <1>5, <1>6, <1>7, <1>8 DEF SutInv

-------------------------------------------------------------------------------
(* The steps that give nothing away. *)

\* A step that leaves the host, the available CPUs, the mask and the VMs alone.
LEMMA CpusKept ==
  ASSUME SutInv, UNCHANGED <<cpuinfo, avail_cpus, cpu_mask, vms>>
  PROVE  WithinNode' /\ CpusExclusive'
  BY DEF SutInv, WithinNode, OwnCpus, CpusExclusive, Vms, CpusOfVm

\* Steps that give no memory away.
LEMMA MemoryKept ==
  ASSUME SutInv, UNCHANGED <<free_hugepages, avail_mem, socket_mem, vms>>
  PROVE  MemoryBudget'
  BY DEF SutInv, MemoryBudget, Hugepages

\* exit() or an exception.
LEMMA Stops ==
  ASSUME SutInv, NEW how \in {"exited", "crashed"}, Stop(how)
  PROVE  SutInv'
<1>1. TypeOK'
  BY DEF SutInv, TypeOK, Stop, hostVars, Final
<1>2. WithinNode' /\ CpusExclusive' /\ MemoryBudget'
  BY CpusKept, MemoryKept DEF Stop, hostVars
<1>3. ListedInOrder' /\ NotYetGiven' /\ DpdkOnly' /\ Accounts'
  BY DEF Stop, ListedInOrder, NotYetGiven, DpdkOnly, Accounts, Discovering, Allocating
<1> QED
  BY <1>1, <1>2, <1>3 DEF SutInv

-------------------------------------------------------------------------------
(* Discovery: the loop over range(n_numa), and the CPUs. *)

\* The nodes that are listed are numbers.
LEMMA ListedNumbers ==
  ASSUME SutInv
  PROVE  \A k \in 1..Len(listed) : listed[k] \in Nat
<1>1. listed \in Seq(NumaIds)
  BY DEF SutInv, TypeOK
<1>2. NumaIds \subseteq Nat
  BY DEF NumaIds
<1> HIDE DEF NumaIds
<1>3. \A k \in 1..Len(listed) : listed[k] \in NumaIds
  BY <1>1
<1> QED
  BY <1>2, <1>3

\* A node whose hugepages cannot be read is passed over.
LEMMA SkipsNuma ==
  ASSUME SutInv, SkipNuma
  PROVE  SutInv'
<1>1. TypeOK'
  BY SMTT(30) DEF SutInv, TypeOK, SkipNuma, hostVars
<1>2. WithinNode' /\ CpusExclusive' /\ MemoryBudget'
  BY CpusKept, MemoryKept DEF SkipNuma, hostVars
<1>3. NotYetGiven' /\ DpdkOnly' /\ Accounts'
  BY DEF SutInv, SkipNuma, NotYetGiven, DpdkOnly, Accounts, Discovering, Allocating
<1>4. ListedInOrder'
  <2>1. n_numa' = n_numa /\ n_numa \in Nat /\ Len(listed) \in Nat /\ idx \in Nat
    BY Sizes DEF SutInv, TypeOK, SkipNuma, hostVars, n_numa
  <2>2. \A n \in NumaIds : Hugepages(n)' = Hugepages(n) /\ Listed(n)' = Listed(n)
    BY DEF SkipNuma, hostVars, Hugepages, Listed
  <2>3. \A k \in 1..Len(listed) : listed[k] \in Nat
    BY ListedNumbers
  <2> QED
    BY <2>1, <2>2, <2>3 DEF SutInv, SkipNuma, ListedInOrder, Discovering, Allocating
<1> QED
  BY <1>1, <1>2, <1>3, <1>4 DEF SutInv

\* A node is appended to the list with its memory.
LEMMA ListsNuma ==
  ASSUME SutInv, ListNuma
  PROVE  SutInv'
<1>0. /\ n_numa' = n_numa /\ n_numa \in Nat /\ n_numa <= MaxNumaId + 1
      /\ Len(listed) \in Nat /\ idx \in Nat /\ idx \in NumaIds
  <2>1. n_numa \in Nat /\ n_numa <= MaxNumaId + 1 /\ Len(listed) \in Nat /\ idx \in Nat
    BY Sizes DEF SutInv, TypeOK
  <2>2. idx \in NumaIds
    BY <2>1, SutAssumption DEF ListNuma, NumaIds
  <2> QED
    BY <2>1, <2>2 DEF ListNuma, n_numa, hostVars
<1>1. TypeOK'
  <2>1. HugepageSize * Larger(free_hugepages[idx], 0) \in Nat
    BY <1>0, Sizes DEF SutInv, Hugepages
  <2>2. avail_mem' \in [NumaIds -> Nat]
    BY <2>1 DEF SutInv, TypeOK, ListNuma
  <2>3. listed' \in Seq(NumaIds) /\ idx' \in Nat
    BY <1>0 DEF SutInv, TypeOK, ListNuma
  <2> QED
    BY <2>2, <2>3 DEF SutInv, TypeOK, ListNuma, hostVars
<1>2. WithinNode' /\ CpusExclusive'
  BY CpusKept DEF ListNuma, hostVars
<1>3. NotYetGiven' /\ DpdkOnly' /\ Accounts'
  BY DEF SutInv, ListNuma, NotYetGiven, DpdkOnly, Accounts, Discovering, Allocating
<1>4. MemoryBudget'
  <2>1. vm_mem * 0 = 0 /\ vm_mem' = vm_mem
    BY Sizes
  <2>2. \A n \in NumaIds : socket_mem'[n] = 0 /\ vms'[n] = <<>>
    BY <1>3 DEF NotYetGiven, ListNuma, Discovering
  <2> QED
    BY <2>1, <2>2 DEF MemoryBudget
<1>5. ListedInOrder'
  <2>1. pc = "hugepages" /\ pc' = "hugepages" /\ idx' = idx + 1 /\ idx < n_numa
    BY DEF ListNuma
  <2>2. /\ Len(listed') = Len(listed) + 1 /\ listed'[Len(listed) + 1] = idx
        /\ \A k \in 1..Len(listed) : listed'[k] = listed[k]
    BY <1>0 DEF SutInv, TypeOK, ListNuma
  <2>3. \A k \in 1..Len(listed) : listed[k] < idx /\ listed[k] \in Nat
    <3>1. \A k \in 1..Len(listed) : listed[k] < idx
      BY <2>1 DEF SutInv, ListedInOrder, Discovering
    <3>2. \A k \in 1..Len(listed) : listed[k] \in Nat
      BY ListedNumbers
    <3> QED
      BY <3>1, <3>2
  <2>4. /\ Len(listed) <= idx
        /\ Len(listed) = idx => \A k \in 1..Len(listed) : listed[k] = k - 1
    BY <2>1 DEF SutInv, ListedInOrder, Discovering
  <2>5. ASSUME NEW n \in NumaIds
        PROVE  avail_mem'[n] = IF Listed(n)' THEN Hugepages(n)' ELSE 0
    <3>1. Hugepages(n)' = Hugepages(n)
      BY DEF ListNuma, hostVars, Hugepages
    <3>2. avail_mem[n] = IF Listed(n) THEN Hugepages(n) ELSE 0
      BY <2>1 DEF SutInv, ListedInOrder, Discovering
    <3>3. CASE n = idx
      <4>1. Listed(n)'
        BY <3>3, <2>2, <1>0 DEF Listed
      <4>2. avail_mem'[n] = Hugepages(n)
        BY <3>3 DEF SutInv, TypeOK, ListNuma, Hugepages
      <4> QED
        BY <4>1, <4>2, <3>1
    <3>4. CASE n # idx
      <4>1. Listed(n)' <=> Listed(n)
        BY <3>4, <2>2, <1>0 DEF Listed
      <4>2. avail_mem'[n] = avail_mem[n]
        BY <3>4 DEF SutInv, TypeOK, ListNuma
      <4> QED
        BY <4>1, <4>2, <3>1, <3>2
    <3> QED
      BY <3>3, <3>4
  <2>6. idx' <= n_numa' /\ Len(listed') <= idx'
    BY <1>0, <2>1, <2>2, <2>4
  <2>7. \A k \in 1..Len(listed') : listed'[k] < idx'
    BY <1>0, <2>1, <2>2, <2>3
  <2>8. Len(listed') = idx' => \A k \in 1..Len(listed') : listed'[k] = k - 1
    BY <1>0, <2>1, <2>2, <2>4
  <2> QED
    BY <2>1, <2>5, <2>6, <2>7, <2>8 DEF ListedInOrder, Discovering, Allocating
<1> QED
  BY <1>1, <1>2, <1>3, <1>4, <1>5 DEF SutInv

\* The loop over the nodes is over.
LEMMA NumasAreListed ==
  ASSUME SutInv, NumasListed
  PROVE  SutInv'
<1>1. TypeOK'
  BY DEF SutInv, TypeOK, NumasListed, Proceed, hostVars
<1>2. WithinNode' /\ CpusExclusive' /\ MemoryBudget'
  BY CpusKept, MemoryKept DEF NumasListed, Proceed, hostVars
<1>3. NotYetGiven' /\ DpdkOnly' /\ Accounts'
  BY DEF SutInv, NumasListed, Proceed, NotYetGiven, DpdkOnly, Accounts, Discovering, Allocating
<1>4. ListedInOrder'
  <2>1. n_numa' = n_numa /\ \A n \in NumaIds : Hugepages(n)' = Hugepages(n) /\ Listed(n)' = Listed(n)
    BY DEF NumasListed, Proceed, hostVars, Hugepages, Listed, n_numa
  <2> QED
    BY <2>1 DEF SutInv, NumasListed, Proceed, ListedInOrder, Discovering, Allocating
<1> QED
  BY <1>1, <1>2, <1>3, <1>4 DEF SutInv

\* Every CPU finds its node in the list only if no node was skipped.
LEMMA AssignsCpus ==
  ASSUME SutInv, AssignCpus
  PROVE  SutInv'
<1>0. /\ pc = "cpus" /\ pc' = "uplinks" /\ idx = n_numa /\ idx' = 1
      /\ n_numa' = n_numa /\ n_numa \in Nat
  BY Sizes DEF SutInv, AssignCpus, ListedInOrder, hostVars, n_numa
<1>1. Len(listed) = n_numa /\ \A k \in 1..Len(listed) : listed[k] = k - 1
  <2>1. NCpu - 1 \in Cpus
    BY SutAssumption DEF Cpus
  <2>2. cpuinfo[NCpu - 1] \in Nat /\ cpuinfo[NCpu - 1] < Len(listed)
    BY <2>1 DEF AssignCpus, Indexable, SutInv, TypeOK, NumaIds
  <2>3. Len(listed) <= n_numa /\ Len(listed) \in Nat
    BY <1>0 DEF SutInv, TypeOK, ListedInOrder, Discovering
  <2>4. Len(listed) = n_numa
    BY <1>0, <2>2, <2>3 DEF n_numa
  <2> QED
    BY <1>0, <2>4 DEF SutInv, ListedInOrder, Discovering
<1>2. \A n \in NumaIds : avail_cpus'[n] = OwnCpus(n)
  <2> SUFFICES ASSUME NEW n \in NumaIds PROVE avail_cpus'[n] = OwnCpus(n)
    OBVIOUS
  <2>1. avail_cpus'[n] = {c \in Cpus \ {0} : listed[cpuinfo[c] + 1] = n}
    BY DEF AssignCpus
  <2>2. ASSUME NEW c \in Cpus PROVE listed[cpuinfo[c] + 1] = cpuinfo[c]
    <3>1. cpuinfo[c] \in Nat /\ cpuinfo[c] < Len(listed) /\ Len(listed) \in Nat
      BY DEF AssignCpus, Indexable, SutInv, TypeOK, NumaIds
    <3> QED
      BY <3>1, <1>1
  <2> QED
    BY <2>1, <2>2 DEF OwnCpus
<1>3. TypeOK'
  BY <1>0 DEF SutInv, TypeOK, AssignCpus, hostVars
<1>4. /\ cpu_mask = {}
      /\ \A n \in NumaIds : socket_mem[n] = 0 /\ vms[n] = <<>>
  BY <1>0 DEF SutInv, NotYetGiven, Discovering
<1>5. UNCHANGED <<cpuinfo, free_hugepages, uplinks, dp_type, listed, avail_mem, pnic_numa_id,
                  socket_mem, cpu_mask, vms>>
  BY DEF AssignCpus, hostVars
<1>6. WithinNode' /\ CpusExclusive'
  <2>1. \A n \in NumaIds : OwnCpus(n)' = OwnCpus(n) /\ Len(vms'[n]) = 0
    BY <1>4, <1>5 DEF OwnCpus
  <2>2. Vms' = {}
    BY <2>1 DEF Vms
  <2> QED
    BY <1>2, <1>4, <1>5, <2>1, <2>2, SutAssumption DEF WithinNode, CpusExclusive
<1>7. MemoryBudget'
  BY <1>5, MemoryKept
<1>8. NotYetGiven' /\ DpdkOnly'
  BY <1>0, <1>4, <1>5 DEF NotYetGiven, DpdkOnly, Discovering
<1>9. ListedInOrder'
  BY <1>0, <1>1, <1>5 DEF ListedInOrder, Discovering, Allocating
<1>10. Accounts'
  <2> SUFFICES ASSUME NEW n \in NumaIds
               PROVE  IF n < n_numa' THEN Account(n)'
                      ELSE avail_mem'[n] = 0 /\ socket_mem'[n] = 0 /\ vms'[n] = <<>>
    BY DEF Accounts
  <2>0. n \in Nat
    BY DEF NumaIds
  <2>1. Listed(n) <=> n < n_numa
    <3>1. PICK k : k = Len(listed) /\ k = n_numa /\ k \in Nat
      BY <1>0, <1>1 DEF SutInv, TypeOK
    <3>2. (\E i \in 1..k : listed[i] = n) <=> n < k
      <4>1. \A i \in 1..k : listed[i] = i - 1
        BY <1>1, <3>1
      <4>2. n < k => n + 1 \in 1..k
        BY <2>0, <3>1
      <4> QED
        BY <2>0, <3>1, <4>1, <4>2
    <3> QED
      BY <3>1, <3>2 DEF Listed
  <2>2. avail_mem[n] = IF Listed(n) THEN Hugepages(n) ELSE 0
    BY <1>0 DEF SutInv, ListedInOrder, Discovering
  <2>3. CASE n < n_numa
    <3>1. ~SocketSettled(n)' /\ ~PmdSettled(n)' /\ ~VmsSettled(n)'
      BY <1>0 DEF SocketSettled, PmdSettled, VmsSettled, Past
    <3>2. SwitchMem(n)' = 0 /\ SwitchCpus(n)' = 0 /\ VmMem(n)' = Hugepages(n)
      BY <3>1, <1>5 DEF SwitchMem, SwitchCpus, VmMem, Hugepages
    <3>3. Len(vms'[n]) = 0 /\ socket_mem'[n] = 0 /\ avail_mem'[n] = Hugepages(n)
      BY <1>4, <1>5, <2>1, <2>2, <2>3
    <3>4. Hugepages(n) \in Nat /\ vm_mem * 0 = 0 /\ vm_cpu_num * 0 = 0
      BY Sizes, SutAssumption DEF SutInv
    <3>5. avail_mem'[n] + vm_mem' * Len(vms'[n]) = VmMem(n)'
      BY <3>2, <3>3, <3>4
    <3>6. {c \in cpu_mask' : cpuinfo'[c] = n} = {}
      BY <1>4, <1>5
    <3>7. Cardinality({c \in cpu_mask' : cpuinfo'[c] = n}) = SwitchCpus(n)'
      BY <3>6, <3>2, FS_EmptySet
    <3>8. OwnCpus(n)' = OwnCpus(n) /\ OwnCpus(n) \in SUBSET Cpus
      BY <1>5 DEF OwnCpus
    <3>9. Cardinality(OwnCpus(n)) \in Nat
      BY <3>8, FiniteCpus
    <3>10. Cardinality(avail_cpus'[n]) + vm_cpu_num * Len(vms'[n]) + SwitchCpus(n)'
             = Cardinality(OwnCpus(n)')
      BY <1>2, <3>2, <3>3, <3>4, <3>8, <3>9
    <3> QED
      BY <1>0, <2>3, <3>1, <3>2, <3>3, <3>5, <3>7, <3>10 DEF Account
  <2>4. CASE ~(n < n_numa)
    BY <1>0, <1>4, <1>5, <2>1, <2>2, <2>4
  <2> QED
    BY <2>3, <2>4
<1> QED
  BY <1>3, <1>6, <1>7, <1>8, <1>9, <1>10 DEF SutInv

-------------------------------------------------------------------------------
(* Allocation. *)

\* The account of a node depends on its own part of the state and on how far each
\* loop has come with it.
LEMMA AccountKept ==
  ASSUME SutInv, NEW n \in NumaIds, Account(n),
         UNCHANGED <<cpuinfo, free_hugepages, socket_mem[n], avail_mem[n], avail_cpus[n], vms[n]>>,
         {c \in cpu_mask' : cpuinfo'[c] = n} = {c \in cpu_mask : cpuinfo[c] = n},
         SocketSettled(n)' <=> SocketSettled(n),
         PmdSettled(n)' <=> PmdSettled(n),
         PmdSettled(n) => UNCHANGED pnic_numa_id,
         VmsSettled(n)' => VmsSettled(n) \/ ~VmFits(n)
  PROVE  Account(n)'
<1>1. Hugepages(n)' = Hugepages(n) /\ OwnCpus(n)' = OwnCpus(n)
  BY DEF Hugepages, OwnCpus
<1>2. SwitchMem(n)' = SwitchMem(n) /\ VmMem(n)' = VmMem(n)
  BY <1>1 DEF SwitchMem, VmMem, Usable
<1>3. SwitchCpus(n)' = SwitchCpus(n)
  <2>1. CASE PmdSettled(n)
    BY <1>1, <2>1 DEF SwitchCpus, Usable, PmdCpuNum
  <2>2. CASE ~PmdSettled(n)
    BY <2>2 DEF SwitchCpus
  <2> QED
    BY <2>1, <2>2
<1>4. VmFits(n)' <=> VmFits(n)
  BY DEF VmFits
<1> QED
  BY <1>1, <1>2, <1>3, <1>4 DEF Account

\* A step of one of the loops that gives nothing away.
LEMMA Moves ==
  ASSUME SutInv, pc \in Allocating, pc' \in Allocating, idx' \in Nat,
         pnic_numa_id' \in NumaIds \cup {None},
         UNCHANGED <<hostVars, listed, avail_cpus, avail_mem, socket_mem, cpu_mask, vms>>,
         pc' \in {"uplinks", "socket_mem", "pmd", "start"}
           => pc \in {"uplinks", "socket_mem", "pmd", "start"},
         pc' \in {"socket_mem", "pmd"} => dp_type = "ovs-dpdk",
         pc' \notin {"start", "done"} => idx' >= 1,
         pnic_numa_id' = pnic_numa_id \/ pc = "uplinks",
         ASSUME NEW n \in NumaIds, n < n_numa
         PROVE  /\ SocketSettled(n)' <=> SocketSettled(n)
                /\ PmdSettled(n)' <=> PmdSettled(n)
                /\ VmsSettled(n)' => VmsSettled(n) \/ ~VmFits(n)
  PROVE  SutInv'
<1>1. TypeOK'
  <2>1. pc' \in {"hugepages", "cpus", "uplinks", "socket_mem", "pmd", "start", "vms"} \cup Final
    BY DEF Allocating, Final
  <2> QED
    BY <2>1 DEF SutInv, TypeOK, hostVars
<1>2. WithinNode' /\ CpusExclusive' /\ MemoryBudget'
  BY CpusKept, MemoryKept DEF hostVars
<1>3. n_numa' = n_numa
  BY DEF hostVars, n_numa
<1>4. ListedInOrder'
  BY <1>3 DEF SutInv, ListedInOrder, Discovering, Allocating
<1>5. NotYetGiven' /\ DpdkOnly'
  BY DEF SutInv, NotYetGiven, DpdkOnly, Discovering, Allocating, hostVars
<1>6. Accounts'
  <2> SUFFICES ASSUME NEW n \in NumaIds
               PROVE  IF n < n_numa' THEN Account(n)'
                      ELSE avail_mem'[n] = 0 /\ socket_mem'[n] = 0 /\ vms'[n] = <<>>
    BY DEF Accounts
  <2>1. CASE n < n_numa
    <3>1. Account(n)
      BY <2>1 DEF SutInv, Accounts
    <3>2. PmdSettled(n) => pnic_numa_id' = pnic_numa_id
      BY DEF PmdSettled, Past
    <3>3. UNCHANGED <<cpuinfo, free_hugepages, socket_mem[n], avail_mem[n], avail_cpus[n], vms[n]>>
      BY DEF hostVars
    <3>4. {c \in cpu_mask' : cpuinfo'[c] = n} = {c \in cpu_mask : cpuinfo[c] = n}
      BY DEF hostVars
    <3>5. Account(n)'
      BY <2>1, <3>1, <3>2, <3>3, <3>4, AccountKept
    <3> QED
      BY <1>3, <2>1, <3>5
  <2>2. CASE ~(n < n_numa)
    BY <1>3, <2>2 DEF SutInv, Accounts
  <2> QED
    BY <2>1, <2>2
<1> QED
  BY <1>1, <1>2, <1>4, <1>5, <1>6 DEF SutInv

\* The uplinks.
LEMMA Uplinks ==
  ASSUME SutInv, PlaceUplink \/ CheckUplink \/ UplinksPlaced
  PROVE  SutInv'
<1>0. pc = "uplinks" /\ idx \in Nat /\ idx >= 1
  BY DEF PlaceUplink, CheckUplink, UplinksPlaced, Proceed, SutInv, TypeOK, ListedInOrder, Allocating
<1>1. CASE PlaceUplink \/ CheckUplink
  <2>1. uplinks[idx] \in NumaIds \cup {-1, Garbled} /\ uplinks[idx] # Garbled
    BY <1>0, <1>1 DEF PlaceUplink, CheckUplink, SutInv, TypeOK
  <2>2. UplinkNuma(idx) \in NumaIds
    BY <2>1, SutAssumption DEF UplinkNuma, NumaIds, Garbled
  <2>3. pnic_numa_id' \in NumaIds \cup {None} /\ idx' \in Nat /\ idx' >= 1 /\ pc' = "uplinks"
    BY <1>0, <1>1, <2>2 DEF PlaceUplink, CheckUplink, SutInv, TypeOK
  <2>4. UNCHANGED <<hostVars, listed, avail_cpus, avail_mem, socket_mem, cpu_mask, vms>>
    BY <1>1 DEF PlaceUplink, CheckUplink
  <2>5. ASSUME NEW n \in NumaIds, n < n_numa
        PROVE  /\ ~SocketSettled(n)' /\ ~SocketSettled(n)
               /\ ~PmdSettled(n)' /\ ~PmdSettled(n) /\ ~VmsSettled(n)'
    BY <1>0, <2>3 DEF SocketSettled, PmdSettled, VmsSettled, Past
  <2> QED
    BY <1>0, <2>3, <2>4, <2>5, Moves DEF Allocating
<1>2. CASE UplinksPlaced
  <2>1. pc' = (IF dp_type = "ovs-dpdk" THEN "socket_mem" ELSE "start") /\ idx' = 1
    BY <1>2 DEF UplinksPlaced, Proceed
  <2>2. UNCHANGED <<hostVars, listed, avail_cpus, avail_mem, pnic_numa_id, socket_mem, cpu_mask, vms>>
    BY <1>2 DEF UplinksPlaced, Proceed
  <2>3. pnic_numa_id' \in NumaIds \cup {None}
    BY <2>2 DEF SutInv, TypeOK
  <2>4. ASSUME NEW n \in NumaIds, n < n_numa
        PROVE  /\ ~SocketSettled(n)' /\ ~SocketSettled(n)
               /\ ~PmdSettled(n)' /\ ~PmdSettled(n) /\ ~VmsSettled(n)'
    <3>1. n \in Nat /\ ~(n + 1 < idx')
      BY <2>1 DEF NumaIds
    <3> QED
      BY <1>0, <2>1, <2>2, <3>1 DEF SocketSettled, PmdSettled, VmsSettled, Past, hostVars
  <2>5. /\ pc' \in Allocating /\ idx' \in Nat /\ idx' >= 1
        /\ pc' \in {"socket_mem", "pmd"} => dp_type = "ovs-dpdk"
    BY <1>0, <2>1 DEF Allocating
  <2> QED
    BY <1>0, <2>2, <2>3, <2>4, <2>5, Moves DEF Allocating
<1> QED
  BY <1>1, <1>2

\* The ends of the loops over the nodes, and start_vswitch.
LEMMA LoopsEnd ==
  ASSUME SutInv, SocketMemGiven \/ PmdCpusGiven \/ StartVswitch \/ VmsCreated
  PROVE  SutInv'
<1> DEFINE fix == <<hostVars, listed, avail_cpus, avail_mem, pnic_numa_id, socket_mem, cpu_mask, vms>>
<1>0. fix' = fix /\ idx \in Nat /\ idx' \in Nat /\ pnic_numa_id' \in NumaIds \cup {None}
  BY DEF SocketMemGiven, PmdCpusGiven, StartVswitch, VmsCreated, Proceed, SutInv, TypeOK
<1>1. /\ UNCHANGED <<hostVars, listed, avail_cpus, avail_mem, socket_mem, cpu_mask, vms>>
      /\ dp_type' = dp_type
  BY <1>0 DEF hostVars
<1>2. n_numa \in Nat /\ (pc \in Allocating => Len(listed) = n_numa)
  BY Sizes DEF SutInv, ListedInOrder
<1>3. \A n \in NumaIds : n \in Nat
  BY DEF NumaIds
<1>4. CASE SocketMemGiven
  <2>1. pc = "socket_mem" /\ pc' = "pmd" /\ idx > Len(listed) /\ idx' = 1
    BY <1>4 DEF SocketMemGiven, Proceed
  <2>2. ASSUME NEW n \in NumaIds, n < n_numa
        PROVE  n + 1 < idx /\ ~(n + 1 < idx')
    BY <1>0, <1>2, <1>3, <2>1, <2>2 DEF Allocating
  <2>3. ASSUME NEW n \in NumaIds, n < n_numa
        PROVE  /\ SocketSettled(n)' <=> SocketSettled(n)
               /\ ~PmdSettled(n)' /\ ~PmdSettled(n) /\ ~VmsSettled(n)'
    BY <1>1, <2>1, <2>2, <2>3 DEF SocketSettled, PmdSettled, VmsSettled, Past
  <2>4. idx' >= 1 /\ dp_type = "ovs-dpdk"
    BY <2>1 DEF SutInv, DpdkOnly
  <2> QED
    BY <1>0, <1>1, <2>1, <2>3, <2>4, Moves DEF Allocating
<1>5. CASE PmdCpusGiven
  <2>1. pc = "pmd" /\ pc' = "start" /\ idx > Len(listed) /\ idx' = idx
    BY <1>5 DEF PmdCpusGiven, Proceed
  <2>2. ASSUME NEW n \in NumaIds, n < n_numa
        PROVE  n + 1 < idx
    BY <1>0, <1>2, <1>3, <2>1, <2>2 DEF Allocating
  <2>3. ASSUME NEW n \in NumaIds, n < n_numa
        PROVE  /\ SocketSettled(n)' <=> SocketSettled(n)
               /\ PmdSettled(n)' <=> PmdSettled(n)
               /\ ~VmsSettled(n)'
    BY <1>1, <2>1, <2>2, <2>3 DEF SocketSettled, PmdSettled, VmsSettled, Past
  <2> QED
    BY <1>0, <1>1, <2>1, <2>3, Moves DEF Allocating
<1>6. CASE StartVswitch
  <2>1. pc = "start" /\ pc' = "vms" /\ idx' = 1
    BY <1>6 DEF StartVswitch, Proceed
  <2>2. ASSUME NEW n \in NumaIds, n < n_numa
        PROVE  ~(n + 1 < idx')
    BY <1>3, <2>1, <2>2
  <2>3. ASSUME NEW n \in NumaIds, n < n_numa
        PROVE  /\ SocketSettled(n)' <=> SocketSettled(n)
               /\ PmdSettled(n)' <=> PmdSettled(n)
               /\ ~VmsSettled(n)'
    BY <1>1, <2>1, <2>2, <2>3 DEF SocketSettled, PmdSettled, VmsSettled, Past
  <2>4. idx' >= 1
    BY <2>1
  <2> QED
    BY <1>0, <1>1, <2>1, <2>3, <2>4, Moves DEF Allocating
<1>7. CASE VmsCreated
  <2>1. pc = "vms" /\ pc' = "done" /\ idx > Len(listed) /\ idx' = idx
    BY <1>7 DEF VmsCreated, Proceed
  <2>2. ASSUME NEW n \in NumaIds, n < n_numa
        PROVE  n + 1 < idx
    BY <1>0, <1>2, <1>3, <2>1, <2>2 DEF Allocating
  <2>3. ASSUME NEW n \in NumaIds, n < n_numa
        PROVE  /\ SocketSettled(n)' <=> SocketSettled(n)
               /\ PmdSettled(n)' <=> PmdSettled(n)
               /\ VmsSettled(n)
    BY <1>1, <2>1, <2>2, <2>3 DEF SocketSettled, PmdSettled, VmsSettled, Past
  <2> QED
    BY <1>0, <1>1, <2>1, <2>3, Moves DEF Allocating
<1> QED
  BY <1>4, <1>5, <1>6, <1>7

\* The node at the position of a loop is the one the position stands for.
LEMMA NodeAt ==
  ASSUME SutInv, NEW n \in NumaIds, NEW here \in {"socket_mem", "pmd", "vms"}, AtNuma(here, n)
  PROVE  /\ pc = here /\ idx = n + 1 /\ n < n_numa /\ Account(n)
         /\ n \in Nat /\ idx \in Nat /\ n_numa \in Nat
<1>1. pc = here /\ pc \in Allocating \ {"start", "done"} /\ idx <= Len(listed) /\ n = listed[idx]
  BY DEF AtNuma, Allocating
<1>2. n \in Nat /\ idx \in Nat /\ n_numa \in Nat /\ Len(listed) \in Nat
  BY Sizes, SMTT(30) DEF SutInv, TypeOK, NumaIds
<1>3. idx >= 1 /\ Len(listed) = n_numa /\ \A k \in 1..Len(listed) : listed[k] = k - 1
  BY <1>1 DEF SutInv, ListedInOrder
<1>4. idx = n + 1 /\ n < n_numa
  BY <1>1, <1>2, <1>3
<1> QED
  BY <1>1, <1>2, <1>4 DEF SutInv, Accounts

\* A node that holds no further VM is left.
LEMMA GoesToNextNuma ==
  ASSUME SutInv, NEW m \in NumaIds, NextNuma(m)
  PROVE  SutInv'
<1>1. pc = "vms" /\ idx = m + 1 /\ m \in Nat
  BY NodeAt DEF NextNuma
<1>2. pc' = "vms" /\ idx' = idx + 1 /\ ~VmFits(m)
  BY <1>1 DEF NextNuma
<1>3. UNCHANGED <<hostVars, listed, avail_cpus, avail_mem, pnic_numa_id, socket_mem, cpu_mask, vms>>
  BY DEF NextNuma
<1>4. pnic_numa_id' \in NumaIds \cup {None} /\ idx' \in Nat /\ idx' >= 1
  BY <1>1, <1>2, <1>3 DEF SutInv, TypeOK
<1>5. ASSUME NEW n \in NumaIds, n < n_numa
      PROVE  /\ SocketSettled(n)' <=> SocketSettled(n)
             /\ PmdSettled(n)' <=> PmdSettled(n)
             /\ VmsSettled(n)' => VmsSettled(n) \/ ~VmFits(n)
  <2>1. n \in Nat
    BY DEF NumaIds
  <2>2. n + 1 < idx' => n + 1 < idx \/ n = m
    BY <1>1, <1>2, <2>1
  <2> QED
    BY <1>1, <1>2, <1>3, <2>2 DEF SocketSettled, PmdSettled, VmsSettled, Past, hostVars
<1> QED
  BY <1>1, <1>2, <1>3, <1>4, <1>5, Moves DEF Allocating

\* The budget of memory follows from the accounts.
LEMMA Budget == TypeOK /\ Accounts /\ pc \in Allocating => MemoryBudget
<1> SUFFICES ASSUME TypeOK, Accounts, pc \in Allocating, NEW n \in NumaIds
             PROVE  socket_mem[n] + vm_mem * Len(vms[n]) > 0
                      => socket_mem[n] + vm_mem * Len(vms[n]) + avail_mem[n] = Hugepages(n)
  BY DEF MemoryBudget
<1>1. PICK w \in Nat : w = vm_mem * Len(vms[n])
  <2>1. vm_mem \in Nat /\ Len(vms[n]) \in Nat
    BY Sizes DEF TypeOK
  <2>2. vm_mem * Len(vms[n]) \in Nat
    BY <2>1
  <2> QED
    BY <2>2
<1>2. avail_mem[n] \in Nat /\ Hugepages(n) \in Nat /\ SocketShare \in Nat
  BY Sizes DEF TypeOK
<1>3. CASE n < n_numa
  <2>1. socket_mem[n] = SwitchMem(n) /\ avail_mem[n] + w = VmMem(n)
    BY <1>1, <1>3 DEF Accounts, Account
  <2>2. PICK a \in Nat, h \in Nat, z \in Nat :
          a = avail_mem[n] /\ h = Hugepages(n) /\ z = SocketShare
    BY <1>2
  <2>3. CASE SocketSettled(n) /\ h > z
    <3>1. socket_mem[n] = z /\ a + w = h - z
      BY <2>1, <2>2, <2>3 DEF SwitchMem, VmMem, Usable
    <3>2. z + w + a = h
      BY <3>1
    <3> QED
      BY <1>1, <2>2, <3>1, <3>2
  <2>4. CASE SocketSettled(n) /\ ~(h > z)
    <3>1. socket_mem[n] = 0 /\ a + w = 0
      BY <2>1, <2>2, <2>4 DEF SwitchMem, VmMem, Usable
    <3>2. ~(0 + w > 0)
      BY <3>1
    <3> QED
      BY <1>1, <3>1, <3>2
  <2>5. CASE ~SocketSettled(n)
    <3>1. socket_mem[n] = 0 /\ a + w = h
      BY <2>1, <2>2, <2>5 DEF SwitchMem, VmMem
    <3>2. 0 + w + a = h
      BY <3>1
    <3> QED
      BY <1>1, <2>2, <3>1, <3>2
  <2> QED
    BY <2>3, <2>4, <2>5
<1>4. CASE ~(n < n_numa)
  <2>1. socket_mem[n] = 0 /\ Len(vms[n]) = 0
    BY <1>4 DEF Accounts
  <2>2. vm_mem * 0 = 0
    BY Sizes
  <2> QED
    BY <2>1, <2>2
<1> QED
  BY <1>3, <1>4

\* At the position of a loop, the other nodes are settled as they were.
LEMMA OthersSettled ==
  ASSUME SutInv, NEW n \in NumaIds, NEW m \in NumaIds, m # n,
         idx = n + 1, idx' \in {idx, idx + 1}, UNCHANGED <<pc, dp_type>>
  PROVE  /\ SocketSettled(m)' <=> SocketSettled(m)
         /\ PmdSettled(m)' <=> PmdSettled(m)
         /\ VmsSettled(m)' <=> VmsSettled(m)
<1>1. m \in Nat /\ n \in Nat
  BY DEF NumaIds
<1>2. m + 1 < idx' <=> m + 1 < idx
  BY <1>1
<1> QED
  BY <1>2 DEF SocketSettled, PmdSettled, VmsSettled, Past

\* The switch gets its share of a node's memory, or the node is left out.
LEMMA GivesSocketMem ==
  ASSUME SutInv, NEW n \in NumaIds, GiveSocketMem(n)
  PROVE  SutInv'
<1>1. /\ pc = "socket_mem" /\ idx = n + 1 /\ n < n_numa /\ Account(n)
      /\ n \in Nat /\ idx \in Nat /\ n_numa \in Nat
  BY NodeAt DEF GiveSocketMem
<1>2. pc' = "socket_mem" /\ idx' = idx + 1
  BY <1>1 DEF GiveSocketMem
<1>3. UNCHANGED <<cpuinfo, free_hugepages, uplinks, dp_type, listed, avail_cpus, pnic_numa_id,
                  cpu_mask, vms>>
  BY DEF GiveSocketMem, hostVars
<1>4. /\ SocketShare \in Nat \ {0} /\ avail_mem[n] \in Nat /\ Hugepages(n) \in Nat
      /\ Hugepages(n)' = Hugepages(n) /\ n_numa' = n_numa
  BY <1>3, Sizes DEF SutInv, TypeOK, Hugepages, n_numa
<1>5. TypeOK'
  <2>0. avail_mem \in [NumaIds -> Nat] /\ socket_mem \in [NumaIds -> Nat]
    BY DEF SutInv, TypeOK
  <2>1. avail_mem' \in [NumaIds -> Nat] /\ socket_mem' \in [NumaIds -> Nat]
    <3>1. CASE avail_mem[n] <= SocketShare
      BY <2>0, <3>1 DEF GiveSocketMem
    <3>2. CASE ~(avail_mem[n] <= SocketShare)
      <4>1. avail_mem[n] - SocketShare \in Nat /\ SocketShare \in Nat
        BY <1>4, <3>2
      <4> QED
        BY <2>0, <3>2, <4>1 DEF GiveSocketMem
    <3> QED
      BY <3>1, <3>2
  <2>2. idx' \in Nat
    BY <1>1, <1>2
  <2> QED
    BY <1>1, <1>2, <1>3, <2>1, <2>2 DEF SutInv, TypeOK
<1>6. WithinNode' /\ CpusExclusive'
  BY <1>3, CpusKept
<1>7. ListedInOrder' /\ NotYetGiven' /\ DpdkOnly'
  <2>1. idx' >= 1
    BY <1>1, <1>2
  <2>2. ListedInOrder'
    BY <1>1, <1>2, <1>3, <1>4, <2>1 DEF SutInv, ListedInOrder, Discovering, Allocating
  <2> QED
    BY <1>1, <1>2, <1>3, <2>2 DEF SutInv, NotYetGiven, DpdkOnly, Discovering
<1>8. Account(n)'
  <2>1. dp_type = "ovs-dpdk" /\ vms[n] = <<>>
    BY <1>1 DEF SutInv, DpdkOnly, NotYetGiven
  <2>2. /\ ~SocketSettled(n) /\ SocketSettled(n)'
        /\ ~PmdSettled(n) /\ ~PmdSettled(n)' /\ ~VmsSettled(n)'
    <3>1. ~(n + 1 < idx) /\ n + 1 < idx'
      BY <1>1, <1>2
    <3> QED
      BY <1>1, <1>2, <1>3, <2>1, <3>1 DEF SocketSettled, PmdSettled, VmsSettled, Past
  <2>3. vm_mem * Len(vms[n]) = 0
    BY <2>1, Sizes
  <2>4. socket_mem[n] = 0 /\ avail_mem[n] = Hugepages(n)
    BY <1>1, <1>4, <2>2, <2>3 DEF Account, SwitchMem, VmMem
  <2>5. socket_mem'[n] = SwitchMem(n)' /\ avail_mem'[n] = VmMem(n)'
    BY <1>4, <2>2, <2>4 DEF GiveSocketMem, SutInv, TypeOK, SwitchMem, VmMem, Usable
  <2>6. avail_mem'[n] + vm_mem * Len(vms'[n]) = VmMem(n)'
    BY <1>3, <1>5, <2>3, <2>5 DEF TypeOK
  <2>7. SwitchCpus(n)' = SwitchCpus(n) /\ OwnCpus(n)' = OwnCpus(n)
    BY <1>3, <2>2 DEF SwitchCpus, OwnCpus
  <2> QED
    BY <1>1, <1>3, <2>2, <2>5, <2>6, <2>7 DEF Account
<1>9. ASSUME NEW m \in NumaIds
      PROVE  IF m < n_numa' THEN Account(m)'
             ELSE avail_mem'[m] = 0 /\ socket_mem'[m] = 0 /\ vms'[m] = <<>>
  <2>1. CASE m = n
    BY <1>1, <1>4, <1>8, <2>1
  <2>2. CASE m # n
    <3>1. avail_mem'[m] = avail_mem[m] /\ socket_mem'[m] = socket_mem[m]
      BY <2>2 DEF GiveSocketMem, SutInv, TypeOK
    <3>2. CASE m < n_numa
      <4>1. Account(m)
        BY <1>1, <3>2 DEF SutInv, Accounts, Allocating
      <4>2. UNCHANGED <<cpuinfo, free_hugepages, socket_mem[m], avail_mem[m], avail_cpus[m], vms[m]>>
        BY <1>3, <3>1
      <4>3. {c \in cpu_mask' : cpuinfo'[c] = m} = {c \in cpu_mask : cpuinfo[c] = m}
        BY <1>3
      <4>4. Account(m)'
        BY <1>1, <1>2, <1>3, <2>2, <4>1, <4>2, <4>3, AccountKept, OthersSettled
      <4> QED
        BY <1>4, <3>2, <4>4
    <3>3. CASE ~(m < n_numa)
      BY <1>1, <1>3, <1>4, <3>1, <3>3 DEF SutInv, Accounts, Allocating
    <3> QED
      BY <3>2, <3>3
  <2> QED
    BY <2>1, <2>2
<1>10. Accounts'
  BY <1>9 DEF Accounts
<1>11. MemoryBudget'
  <2>1. (pc \in Allocating)'
    BY <1>2 DEF Allocating
  <2> QED
    BY <1>5, <1>10, <2>1, Budget, PTL
<1> QED
  BY <1>5, <1>6, <1>7, <1>10, <1>11 DEF SutInv

\* CPUs moved from those available on a node to the mask or to a VM: what holds of
\* the nodes' available CPUs afterwards.
LEMMA CpusMoved ==
  ASSUME SutInv, NEW n \in NumaIds, NEW given \in SUBSET avail_cpus[n],
         avail_cpus' = [avail_cpus EXCEPT ![n] = @ \ given], UNCHANGED cpuinfo
  PROVE  /\ avail_cpus' \in [NumaIds -> SUBSET Cpus]
         /\ given \in SUBSET Cpus /\ 0 \notin given
         /\ \A c \in given : cpuinfo[c] = n
         /\ \A m \in NumaIds : /\ avail_cpus'[m] \subseteq avail_cpus[m]
                               /\ avail_cpus'[m] \cap given = {}
                               /\ avail_cpus'[m] \subseteq OwnCpus(m)'
<1>1. avail_cpus \in [NumaIds -> SUBSET Cpus]
  BY DEF SutInv, TypeOK
<1>2. \A m \in NumaIds : avail_cpus'[m] = IF m = n THEN avail_cpus[n] \ given ELSE avail_cpus[m]
  BY <1>1
<1>3. \A m \in NumaIds : avail_cpus[m] \subseteq OwnCpus(m) /\ OwnCpus(m)' = OwnCpus(m)
  BY DEF SutInv, WithinNode, OwnCpus
<1>4. avail_cpus' \in [NumaIds -> SUBSET Cpus]
  BY <1>1
<1>5. given \in SUBSET Cpus /\ 0 \notin given /\ \A c \in given : cpuinfo[c] = n
  BY <1>1, <1>3 DEF OwnCpus
<1>6. ASSUME NEW m \in NumaIds
      PROVE  avail_cpus'[m] \subseteq avail_cpus[m] /\ avail_cpus'[m] \cap given = {}
  <2>1. CASE m = n
    BY <1>2, <2>1
  <2>2. CASE m # n
    <3>1. \A c \in avail_cpus[m] : cpuinfo[c] = m
      BY <1>3 DEF OwnCpus
    <3> QED
      BY <1>2, <1>5, <2>2, <3>1
  <2> QED
    BY <2>1, <2>2
<1> QED
  BY <1>3, <1>4, <1>5, <1>6

\* The switch gets polling CPUs of a node.
LEMMA GivesPmdCpus ==
  ASSUME SutInv, NEW n \in NumaIds, GivePmdCpus(n)
  PROVE  SutInv'
<1>1. /\ pc = "pmd" /\ idx = n + 1 /\ n < n_numa /\ Account(n)
      /\ n \in Nat /\ idx \in Nat /\ n_numa \in Nat
  BY NodeAt DEF GivePmdCpus
<1>2. pc' = "pmd" /\ idx' = idx + 1
  BY <1>1 DEF GivePmdCpus
<1>3. UNCHANGED <<cpuinfo, free_hugepages, uplinks, dp_type, listed, avail_mem, pnic_numa_id,
                  socket_mem, vms>>
  BY DEF GivePmdCpus, hostVars
<1>4. PICK given :
        /\ given = IF avail_mem[n] = 0 THEN {} ELSE Lowest(PmdCpuNum(n), avail_cpus[n])
        /\ cpu_mask' = cpu_mask \cup given
        /\ avail_cpus' = [avail_cpus EXCEPT ![n] = @ \ given]
  BY DEF GivePmdCpus
<1>5. given \in SUBSET avail_cpus[n]
  BY <1>4 DEF Lowest
<1>6. /\ avail_cpus' \in [NumaIds -> SUBSET Cpus]
      /\ given \in SUBSET Cpus /\ 0 \notin given
      /\ \A c \in given : cpuinfo[c] = n
      /\ \A m \in NumaIds : /\ avail_cpus'[m] \subseteq avail_cpus[m]
                            /\ avail_cpus'[m] \cap given = {}
                            /\ avail_cpus'[m] \subseteq OwnCpus(m)'
  <2>1. cpuinfo' = cpuinfo
    BY <1>3
  <2>2. avail_cpus' = [avail_cpus EXCEPT ![n] = @ \ given]
    BY <1>4
  <2> QED
    BY <1>5, <2>1, <2>2, CpusMoved, Zenon
<1>7. TypeOK'
  <2>1. idx' \in Nat
    BY <1>1, <1>2
  <2>2. cpu_mask' \in SUBSET Cpus
    BY <1>4, <1>6 DEF SutInv, TypeOK
  <2> QED
    BY <1>1, <1>2, <1>3, <1>6, <2>1, <2>2 DEF SutInv, TypeOK
<1>8. MemoryBudget' /\ WithinNode'
  BY <1>3, <1>6, MemoryKept DEF SutInv, WithinNode
<1>9. CpusExclusive'
  <2>1. \A m \in NumaIds : vms'[m] = <<>>
    BY <1>1, <1>3 DEF SutInv, NotYetGiven
  <2>2. Vms' = {}
    BY <2>1 DEF Vms
  <2>3. 0 \notin cpu_mask' /\ \A m \in NumaIds : avail_cpus[m] \cap cpu_mask = {}
    BY <1>4, <1>6 DEF SutInv, CpusExclusive
  <2>4. \A m \in NumaIds : avail_cpus'[m] \cap cpu_mask' = {}
    BY <1>4, <1>6, <2>3
  <2> QED
    BY <2>2, <2>3, <2>4 DEF CpusExclusive
<1>10. ListedInOrder' /\ NotYetGiven' /\ DpdkOnly'
  <2>1. idx' >= 1 /\ n_numa' = n_numa
    BY <1>1, <1>2, <1>3 DEF n_numa
  <2>2. ListedInOrder'
    BY <1>1, <1>2, <1>3, <2>1 DEF SutInv, ListedInOrder, Discovering, Allocating
  <2> QED
    BY <1>1, <1>2, <1>3, <2>2 DEF SutInv, NotYetGiven, DpdkOnly, Discovering
<1>11. Account(n)'
  <2>1. dp_type = "ovs-dpdk" /\ vms[n] = <<>>
    BY <1>1 DEF SutInv, DpdkOnly, NotYetGiven
  <2>2. /\ SocketSettled(n) /\ SocketSettled(n)' /\ ~PmdSettled(n) /\ PmdSettled(n)'
        /\ ~VmsSettled(n)'
    <3>1. ~(n + 1 < idx) /\ n + 1 < idx'
      BY <1>1, <1>2
    <3> QED
      BY <1>1, <1>2, <1>3, <2>1, <3>1 DEF SocketSettled, PmdSettled, VmsSettled, Past
  <2>3. Hugepages(n)' = Hugepages(n) /\ (Usable(n)' <=> Usable(n))
    BY <1>3 DEF Hugepages, Usable
  <2>4. SwitchMem(n)' = SwitchMem(n) /\ VmMem(n)' = VmMem(n) /\ OwnCpus(n)' = OwnCpus(n)
    BY <1>3, <2>2, <2>3 DEF SwitchMem, VmMem, OwnCpus
  <2>5. avail_mem[n] # 0 <=> Usable(n)
    <3>1. vm_mem * Len(vms[n]) = 0 /\ avail_mem[n] \in Nat
      BY <2>1, Sizes DEF SutInv, TypeOK
    <3>2. avail_mem[n] = VmMem(n)
      BY <1>1, <3>1 DEF Account
    <3>3. Hugepages(n) \in Nat /\ SocketShare \in Nat
      BY Sizes DEF SutInv
    <3> QED
      BY <2>2, <3>2, <3>3 DEF VmMem, Usable
  <2>6. SwitchCpus(n) = 0 /\ SwitchCpus(n)' = IF Usable(n) THEN PmdCpuNum(n) ELSE 0
    BY <1>3, <2>2, <2>3 DEF SwitchCpus, PmdCpuNum
  <2>7. /\ avail_cpus[n] \in SUBSET Nat /\ IsFiniteSet(avail_cpus[n])
        /\ Cardinality(avail_cpus[n]) \in Nat
    <3>1. avail_cpus[n] \in SUBSET Cpus
      BY DEF SutInv, TypeOK
    <3> QED
      BY <3>1, FiniteCpus
  <2>8. PmdCpuNum(n) \in Nat
    BY SutAssumption DEF PmdCpuNum
  <2>9. /\ Cardinality(given) = SwitchCpus(n)'
        /\ Cardinality(avail_cpus[n] \ given) = Cardinality(avail_cpus[n]) - SwitchCpus(n)'
    <3>1. CASE Usable(n)
      <4>1. PmdCpuNum(n) <= Cardinality(avail_cpus[n])
        BY <2>5, <2>7, <2>8, <3>1 DEF GivePmdCpus
      <4>2. given = Lowest(PmdCpuNum(n), avail_cpus[n])
        BY <1>4, <2>5, <3>1
      <4> QED
        BY <2>6, <2>7, <2>8, <3>1, <4>1, <4>2, LowestTakes
    <3>2. CASE ~Usable(n)
      <4>1. given = {} /\ avail_cpus[n] \ given = avail_cpus[n]
        BY <1>4, <2>5, <3>2
      <4> QED
        BY <2>6, <2>7, <3>2, <4>1, FS_EmptySet
    <3> QED
      BY <3>1, <3>2
  <2>10. {c \in cpu_mask' : cpuinfo'[c] = n} = given
    <3>1. Cardinality({c \in cpu_mask : cpuinfo[c] = n}) = 0
      BY <1>1, <2>6 DEF Account
    <3>2. {c \in cpu_mask : cpuinfo[c] = n} \in SUBSET Cpus
      BY DEF SutInv, TypeOK
    <3>3. {c \in cpu_mask : cpuinfo[c] = n} = {}
      BY <3>1, <3>2, FiniteCpus, FS_EmptySet
    <3> QED
      BY <1>3, <1>4, <1>6, <3>3
  <2>11. avail_cpus'[n] = avail_cpus[n] \ given
    BY <1>4 DEF SutInv, TypeOK
  <2>12. vm_cpu_num * Len(vms[n]) = 0
    BY <2>1, SutAssumption
  <2>13. Cardinality(avail_cpus[n]) = Cardinality(OwnCpus(n))
    BY <1>1, <2>6, <2>7, <2>12 DEF Account
  <2>14. SwitchCpus(n)' \in Nat
    BY <2>6, <2>8
  <2>15. Cardinality(avail_cpus'[n]) + vm_cpu_num * Len(vms'[n]) + SwitchCpus(n)'
           = Cardinality(OwnCpus(n)')
    BY <1>3, <2>4, <2>7, <2>9, <2>11, <2>12, <2>13, <2>14
  <2>16. Cardinality({c \in cpu_mask' : cpuinfo'[c] = n}) = SwitchCpus(n)'
    BY <2>9, <2>10
  <2> QED
    BY <1>1, <1>3, <2>2, <2>4, <2>15, <2>16 DEF Account
<1>12. ASSUME NEW m \in NumaIds
       PROVE  IF m < n_numa' THEN Account(m)'
              ELSE avail_mem'[m] = 0 /\ socket_mem'[m] = 0 /\ vms'[m] = <<>>
  <2>0. n_numa' = n_numa
    BY <1>3 DEF n_numa
  <2>1. CASE m = n
    BY <1>1, <1>11, <2>0, <2>1
  <2>2. CASE m # n
    <3>1. avail_cpus'[m] = avail_cpus[m]
      BY <1>4, <2>2 DEF SutInv, TypeOK
    <3>2. CASE m < n_numa
      <4>1. Account(m)
        BY <1>1, <3>2 DEF SutInv, Accounts, Allocating
      <4>2. UNCHANGED <<cpuinfo, free_hugepages, socket_mem[m], avail_mem[m], avail_cpus[m], vms[m]>>
        BY <1>3, <3>1
      <4>3. {c \in cpu_mask' : cpuinfo'[c] = m} = {c \in cpu_mask : cpuinfo[c] = m}
        BY <1>3, <1>4, <1>6, <2>2
      <4>4. Account(m)'
        BY <1>1, <1>2, <1>3, <2>2, <4>1, <4>2, <4>3, AccountKept, OthersSettled
      <4> QED
        BY <2>0, <3>2, <4>4
    <3>3. CASE ~(m < n_numa)
      BY <1>1, <1>3, <2>0, <3>3 DEF SutInv, Accounts, Allocating
    <3> QED
      BY <3>2, <3>3
  <2> QED
    BY <2>1, <2>2
<1>13. Accounts'
  BY <1>12 DEF Accounts
<1> QED
  BY <1>7, <1>8, <1>9, <1>10, <1>13 DEF SutInv

\* A VM gets the lowest CPUs and a share of the memory of its node.
LEMMA CreatesVm ==
  ASSUME SutInv, NEW n \in NumaIds, CreateVm(n)
  PROVE  SutInv'
<1>1. /\ pc = "vms" /\ idx = n + 1 /\ n < n_numa /\ Account(n)
      /\ n \in Nat /\ idx \in Nat /\ n_numa \in Nat
  BY NodeAt DEF CreateVm
<1>2. UNCHANGED <<cpuinfo, free_hugepages, uplinks, dp_type, pc, idx, listed, pnic_numa_id,
                  socket_mem, cpu_mask>>
  BY DEF CreateVm, hostVars
<1>3. PICK given :
        /\ given = Lowest(vm_cpu_num, avail_cpus[n])
        /\ avail_cpus' = [avail_cpus EXCEPT ![n] = @ \ given]
        /\ vms' = [vms EXCEPT ![n] = Append(@, given)]
  BY DEF CreateVm
<1>4. given \in SUBSET avail_cpus[n]
  BY <1>3 DEF Lowest
<1>5. /\ avail_cpus' \in [NumaIds -> SUBSET Cpus]
      /\ given \in SUBSET Cpus /\ 0 \notin given
      /\ \A c \in given : cpuinfo[c] = n
      /\ \A m \in NumaIds : /\ avail_cpus'[m] \subseteq avail_cpus[m]
                            /\ avail_cpus'[m] \cap given = {}
                            /\ avail_cpus'[m] \subseteq OwnCpus(m)'
  <2>1. cpuinfo' = cpuinfo
    BY <1>2
  <2>2. avail_cpus' = [avail_cpus EXCEPT ![n] = @ \ given]
    BY <1>3
  <2> QED
    BY <1>4, <2>1, <2>2, CpusMoved, Zenon
<1>6. /\ vms[n] \in Seq(SUBSET Cpus) /\ Len(vms[n]) \in Nat
      /\ vms'[n] = Append(vms[n], given) /\ Len(vms'[n]) = Len(vms[n]) + 1
      /\ \A m \in NumaIds : m # n => vms'[m] = vms[m]
  <2>1. vms \in [NumaIds -> Seq(SUBSET Cpus)]
    BY DEF SutInv, TypeOK
  <2>2. vms[n] \in Seq(SUBSET Cpus) /\ vms'[n] = Append(vms[n], given)
    BY <1>3, <2>1
  <2>3. \A m \in NumaIds : m # n => vms'[m] = vms[m]
    BY <1>3, <2>1
  <2> QED
    BY <1>5, <2>2, <2>3
<1>7. /\ avail_mem'[n] = avail_mem[n] - vm_mem /\ avail_mem' \in [NumaIds -> Nat]
      /\ \A m \in NumaIds : m # n => avail_mem'[m] = avail_mem[m]
  <2>1. avail_mem \in [NumaIds -> Nat] /\ avail_mem' = [avail_mem EXCEPT ![n] = @ - vm_mem]
    BY DEF SutInv, TypeOK, CreateVm
  <2>2. avail_mem[n] - vm_mem \in Nat
    BY <2>1, Sizes DEF CreateVm, VmFits
  <2> QED
    BY <2>1, <2>2
<1>8. TypeOK'
  <2>1. vms' \in [NumaIds -> Seq(SUBSET Cpus)]
    <3>1. Append(vms[n], given) \in Seq(SUBSET Cpus)
      BY <1>5, <1>6
    <3>2. vms \in [NumaIds -> Seq(SUBSET Cpus)]
      BY DEF SutInv, TypeOK
    <3>3. vms' = [vms EXCEPT ![n] = Append(vms[n], given)]
      BY <1>3
    <3> QED
      BY <3>1, <3>2, <3>3
  <2> QED
    BY <1>2, <1>5, <1>7, <2>1 DEF SutInv, TypeOK
<1>9. WithinNode'
  <2>1. Len(vms[n]) < MAX_VM_PER_NUMA
    BY DEF CreateVm, VmFits
  <2>2. Len(vms'[n]) <= MAX_VM_PER_NUMA
    BY <1>6, <2>1, SutAssumption
  <2> QED
    BY <1>5, <1>6, <2>2 DEF SutInv, WithinNode
<1>10. CpusExclusive'
  <2> DEFINE new == <<n, Len(vms[n]) + 1>>
  <2>1. ASSUME NEW v \in Vms'
        PROVE  \/ v \in Vms /\ CpusOfVm(v)' = CpusOfVm(v)
               \/ v = new /\ CpusOfVm(v)' = given
    <3>1. /\ v = <<v[1], v[2]>> /\ v[1] \in NumaIds /\ v[2] \in 1..MAX_VM_PER_NUMA
          /\ v[2] <= Len(vms'[v[1]])
      BY DEF Vms
    <3>2. v[2] \in Nat /\ v[2] >= 1
      BY <3>1, SutAssumption
    <3>3. CASE v[1] # n
      BY <1>6, <3>1, <3>3 DEF Vms, CpusOfVm
    <3>4. CASE v[1] = n /\ v[2] = Len(vms[n]) + 1
      BY <1>6, <3>1, <3>4 DEF CpusOfVm
    <3>5. CASE v[1] = n /\ v[2] # Len(vms[n]) + 1
      <4>1. v[2] <= Len(vms[n])
        BY <1>6, <3>1, <3>2, <3>5
      <4>2. vms'[n][v[2]] = vms[n][v[2]]
        BY <1>6, <3>2, <4>1
      <4> QED
        BY <3>1, <3>5, <4>1, <4>2 DEF Vms, CpusOfVm
    <3> QED
      BY <3>3, <3>4, <3>5
  <2>2. /\ \A v \in Vms : CpusOfVm(v) \cap cpu_mask = {} /\ 0 \notin CpusOfVm(v)
        /\ \A v, w \in Vms : v # w => CpusOfVm(v) \cap CpusOfVm(w) = {}
        /\ \A m \in NumaIds : /\ avail_cpus[m] \cap cpu_mask = {}
                              /\ \A v \in Vms : avail_cpus[m] \cap CpusOfVm(v) = {}
        /\ 0 \notin cpu_mask
    BY DEF SutInv, CpusExclusive
  <2>3. given \cap cpu_mask = {} /\ \A v \in Vms : given \cap CpusOfVm(v) = {}
    BY <1>4, <2>2
  <2> HIDE DEF new
  <2>4. \A v \in Vms' : CpusOfVm(v)' \cap cpu_mask' = {} /\ 0 \notin CpusOfVm(v)'
    BY <1>2, <1>5, <2>1, <2>2, <2>3
  <2>5. ASSUME NEW v \in Vms', NEW w \in Vms', v # w
        PROVE  CpusOfVm(v)' \cap CpusOfVm(w)' = {}
    BY <2>1, <2>2, <2>3, <2>5
  <2>6. ASSUME NEW m \in NumaIds
        PROVE  /\ avail_cpus'[m] \cap cpu_mask' = {}
               /\ \A v \in Vms' : avail_cpus'[m] \cap CpusOfVm(v)' = {}
    BY <1>2, <1>5, <2>1, <2>2, <2>3
  <2> QED
    BY <1>2, <2>2, <2>4, <2>5, <2>6 DEF CpusExclusive
<1>11. n_numa' = n_numa
  BY <1>2 DEF n_numa
<1>12. ListedInOrder' /\ NotYetGiven' /\ DpdkOnly'
  BY <1>1, <1>2, <1>11 DEF SutInv, ListedInOrder, NotYetGiven, DpdkOnly, Discovering, Allocating
<1>13. Account(n)'
  <2>1. /\ SocketSettled(n)' <=> SocketSettled(n)
        /\ PmdSettled(n)' <=> PmdSettled(n)
        /\ ~VmsSettled(n)'
    <3>1. ~(n + 1 < idx')
      BY <1>1, <1>2
    <3> QED
      BY <1>1, <1>2, <3>1 DEF SocketSettled, PmdSettled, VmsSettled, Past
  <2>2. Hugepages(n)' = Hugepages(n) /\ OwnCpus(n)' = OwnCpus(n)
    BY <1>2 DEF Hugepages, OwnCpus
  <2>3. SwitchMem(n)' = SwitchMem(n) /\ VmMem(n)' = VmMem(n) /\ SwitchCpus(n)' = SwitchCpus(n)
    BY <1>2, <2>1, <2>2 DEF SwitchMem, VmMem, SwitchCpus, Usable, PmdCpuNum
  <2>4. PICK k \in Nat : k = Len(vms[n])
    BY <1>6
  <2>5. vm_mem \in Nat /\ vm_cpu_num \in Nat
    BY Sizes, SutAssumption
  <2>6. vm_mem * (k + 1) = vm_mem * k + vm_mem /\ vm_mem * k \in Nat
    BY <2>5
  <2>7. vm_cpu_num * (k + 1) = vm_cpu_num * k + vm_cpu_num /\ vm_cpu_num * k \in Nat
    BY <2>5
  <2>8. avail_mem'[n] + vm_mem * (k + 1) = VmMem(n)
    <3>1. avail_mem[n] + vm_mem * k = VmMem(n) /\ avail_mem[n] \in Nat
      BY <1>1, <2>4 DEF Account, SutInv, TypeOK
    <3> QED
      BY <1>7, <2>5, <2>6, <3>1
  <2>9. /\ avail_cpus[n] \in SUBSET Nat /\ IsFiniteSet(avail_cpus[n])
        /\ Cardinality(avail_cpus[n]) \in Nat
    <3>1. avail_cpus[n] \in SUBSET Cpus
      BY DEF SutInv, TypeOK
    <3> QED
      BY <3>1, FiniteCpus
  <2>10. Cardinality(avail_cpus[n] \ given) = Cardinality(avail_cpus[n]) - vm_cpu_num
    <3>1. vm_cpu_num <= Cardinality(avail_cpus[n])
      BY <2>5, <2>9 DEF CreateVm, VmFits
    <3> QED
      BY <1>3, <2>5, <2>9, <3>1, LowestTakes
  <2>11. avail_cpus'[n] = avail_cpus[n] \ given
    BY <1>3 DEF SutInv, TypeOK
  <2>12. SwitchCpus(n) \in Nat
    BY SutAssumption DEF SwitchCpus, PmdCpuNum
  <2>13. Cardinality(avail_cpus'[n]) + vm_cpu_num * (k + 1) + SwitchCpus(n)
           = Cardinality(OwnCpus(n))
    <3>1. Cardinality(avail_cpus[n]) + vm_cpu_num * k + SwitchCpus(n) = Cardinality(OwnCpus(n))
      BY <1>1, <2>4 DEF Account
    <3> QED
      BY <2>5, <2>7, <2>9, <2>10, <2>11, <2>12, <3>1
  <2>14. Len(vms'[n]) = k + 1
    BY <1>6, <2>4
  <2> QED
    BY <1>1, <1>2, <2>1, <2>2, <2>3, <2>8, <2>13, <2>14 DEF Account
<1>14. ASSUME NEW m \in NumaIds
       PROVE  IF m < n_numa' THEN Account(m)'
              ELSE avail_mem'[m] = 0 /\ socket_mem'[m] = 0 /\ vms'[m] = <<>>
  <2>1. CASE m = n
    BY <1>1, <1>11, <1>13, <2>1
  <2>2. CASE m # n
    <3>1. avail_cpus'[m] = avail_cpus[m]
      BY <1>3, <2>2 DEF SutInv, TypeOK
    <3>2. CASE m < n_numa
      <4>1. Account(m)
        BY <1>1, <3>2 DEF SutInv, Accounts, Allocating
      <4>2. UNCHANGED <<cpuinfo, free_hugepages, socket_mem[m], avail_mem[m], avail_cpus[m], vms[m]>>
        BY <1>2, <1>6, <1>7, <2>2, <3>1
      <4>3. {c \in cpu_mask' : cpuinfo'[c] = m} = {c \in cpu_mask : cpuinfo[c] = m}
        BY <1>2
      <4>4. Account(m)'
        BY <1>1, <1>2, <2>2, <4>1, <4>2, <4>3, AccountKept, OthersSettled
      <4> QED
        BY <1>11, <3>2, <4>4
    <3>3. CASE ~(m < n_numa)
      BY <1>1, <1>2, <1>6, <1>7, <1>11, <2>2, <3>3 DEF SutInv, Accounts, Allocating
    <3> QED
      BY <3>2, <3>3
  <2> QED
    BY <2>1, <2>2
<1>15. Accounts'
  BY <1>14 DEF Accounts
<1>16. MemoryBudget'
  <2>1. (pc \in Allocating)'
    BY <1>1, <1>2 DEF Allocating
  <2> QED
    BY <1>8, <1>15, <2>1, Budget, PTL
<1> QED
  BY <1>8, <1>9, <1>10, <1>12, <1>15, <1>16 DEF SutInv

-------------------------------------------------------------------------------
(* The theorems. *)

\* Every step of __init__ keeps the invariant.
LEMMA Preserved == SutInv /\ [Next]_vars => SutInv'
<1> SUFFICES ASSUME SutInv, [Next]_vars PROVE SutInv'
  OBVIOUS
<1>1. CASE SkipNuma \/ ListNuma \/ NumasListed \/ AssignCpus
  BY <1>1, SkipsNuma, ListsNuma, NumasAreListed, AssignsCpus
<1>2. CASE GarbledHugepages \/ AssignCpusFails \/ RejectUplink \/ StartVswitchFails
  BY <1>2, Stops DEF GarbledHugepages, AssignCpusFails, RejectUplink, StartVswitchFails
<1>3. CASE PlaceUplink \/ CheckUplink \/ UplinksPlaced
  BY <1>3, Uplinks
<1>4. CASE SocketMemGiven \/ PmdCpusGiven \/ StartVswitch \/ VmsCreated
  BY <1>4, LoopsEnd
<1>5. ASSUME NEW n \in NumaIds,
             GiveSocketMem(n) \/ GivePmdCpus(n) \/ CreateVm(n) \/ NextNuma(n)
      PROVE  SutInv'
  BY <1>5, GivesSocketMem, GivesPmdCpus, CreatesVm, GoesToNextNuma
<1>6. ASSUME NEW n \in NumaIds, TooFewPmdCpus(n) \/ CreateVmFails(n)
      PROVE  SutInv'
  BY <1>6, Stops DEF TooFewPmdCpus, CreateVmFails
<1>7. CASE Finished \/ UNCHANGED vars
  <2>1. UNCHANGED vars
    BY <1>7 DEF Finished
  <2>2. TypeOK' /\ WithinNode' /\ CpusExclusive' /\ MemoryBudget'
    BY <2>1, CpusKept, MemoryKept DEF vars, SutInv, TypeOK
  <2>3. ListedInOrder' /\ NotYetGiven' /\ DpdkOnly'
    BY <2>1 DEF vars, SutInv, ListedInOrder, NotYetGiven, DpdkOnly, n_numa, Hugepages, Listed
  <2>4. Accounts'
    <3>1. n_numa' = n_numa
      BY <2>1 DEF vars, n_numa
    <3>2. ASSUME NEW n \in NumaIds PROVE Account(n)' <=> Account(n)
      <4>1. /\ SocketSettled(n)' <=> SocketSettled(n)
            /\ PmdSettled(n)' <=> PmdSettled(n)
            /\ VmsSettled(n)' <=> VmsSettled(n)
        BY <2>1 DEF vars, SocketSettled, PmdSettled, VmsSettled, Past
      <4>2. Hugepages(n)' = Hugepages(n) /\ OwnCpus(n)' = OwnCpus(n) /\ PmdCpuNum(n)' = PmdCpuNum(n)
        BY <2>1 DEF vars, Hugepages, OwnCpus, PmdCpuNum
      <4>3. VmFits(n)' <=> VmFits(n)
        BY <2>1 DEF vars, VmFits
      <4>4. SwitchMem(n)' = SwitchMem(n) /\ SwitchCpus(n)' = SwitchCpus(n) /\ VmMem(n)' = VmMem(n)
        BY <4>1, <4>2 DEF SwitchMem, SwitchCpus, VmMem, Usable
      <4> QED
        BY <2>1, <4>1, <4>2, <4>3, <4>4 DEF vars, Account
    <3> QED
      BY <2>1, <3>1, <3>2 DEF vars, SutInv, Accounts
  <2> QED
    BY <2>2, <2>3, <2>4 DEF SutInv
<1> QED
  BY <1>1, <1>2, <1>3, <1>4, <1>5, <1>6, <1>7 DEF Next, Step

\* The inductive invariant: each node's CPUs and memory are accounted for at every
\* point of SUT.__init__.
THEOREM Inductive == Spec => []SutInv
  BY Starts, Preserved, PTL DEF Spec

\* Type correctness: no account is ever overdrawn.
THEOREM Typed == Spec => []TypeOK
<1>1. SutInv => TypeOK
  BY DEF SutInv
<1> QED
  BY <1>1, Inductive, PTL

\* No CPU is given twice, and core 0 never, on any host.
THEOREM NoCpuGivenTwice == Spec => []CpusExclusive
<1>1. SutInv => CpusExclusive
  BY DEF SutInv
<1> QED
  BY <1>1, Inductive, PTL

\* On any host the memory given away and the memory left are a node's free hugepages.
THEOREM MemoryAddsUp == Spec => []MemoryBudget
<1>1. SutInv => MemoryBudget
  BY DEF SutInv
<1> QED
  BY <1>1, Inductive, PTL

\* A node whose VMs exist gave the switch its memory and its polling CPUs.
THEOREM SwitchOnEveryVmNode == Spec => []PmdServesVms
<1>1. SutInv => PmdServesVms
  <2> SUFFICES ASSUME SutInv, pc = "done", dp_type = "ovs-dpdk", NEW v \in Vms
               PROVE  /\ socket_mem[v[1]] = SocketShare
                      /\ Cardinality({c \in cpu_mask : cpuinfo[c] = v[1]}) = PmdCpuNum(v[1])
    BY DEF PmdServesVms
  <2>1. PICK n \in NumaIds : n = v[1] /\ Len(vms[n]) \in Nat /\ Len(vms[n]) >= 1
    <3>1. /\ v[1] \in NumaIds /\ v[2] \in 1..MAX_VM_PER_NUMA /\ v[2] <= Len(vms[v[1]])
          /\ Len(vms[v[1]]) \in Nat
      BY DEF Vms, SutInv, TypeOK
    <3>2. v[2] \in Nat /\ v[2] >= 1
      BY <3>1, SutAssumption
    <3> QED
      BY <3>1, <3>2
  <2>2. Account(n)
    <3>1. vms[n] # <<>>
      BY <2>1
    <3> QED
      BY <3>1 DEF SutInv, Accounts, Allocating
  <2>3. SocketSettled(n) /\ PmdSettled(n)
    BY DEF SocketSettled, PmdSettled
  <2>4. Usable(n)
    <3>1. SUFFICES ASSUME ~Usable(n) PROVE FALSE
      OBVIOUS
    <3>2. avail_mem[n] + vm_mem * Len(vms[n]) = 0 /\ avail_mem[n] \in Nat
      BY <2>2, <2>3, <3>1 DEF Account, VmMem, SutInv, TypeOK
    <3>3. vm_mem * Len(vms[n]) \in Nat \ {0}
      BY <2>1, Sizes
    <3> QED
      BY <3>2, <3>3
  <2> QED
    BY <2>1, <2>2, <2>3, <2>4 DEF Account, SwitchMem, SwitchCpus
<1> QED
  BY <1>1, Inductive, PTL

\* When __init__ succeeds, each node holds as many VMs as its memory and its CPUs
\* allow, up to the limit.
THEOREM NodesAreFilled == Spec => []VmsFillNodes
<1>1. SutInv => VmsFillNodes
  <2> SUFFICES ASSUME SutInv, pc = "done", NEW n \in NumaIds
               PROVE  Len(vms[n]) = IF n < n_numa THEN Capacity(n) ELSE 0
    BY DEF VmsFillNodes
  <2>1. CASE ~(n < n_numa)
    <3>1. vms[n] = <<>>
      BY <2>1 DEF SutInv, Accounts, Allocating
    <3> QED
      BY <2>1, <3>1
  <2>2. CASE n < n_numa
    <3> DEFINE dpdk == dp_type = "ovs-dpdk"
               mem == Hugepages(n) - (IF dpdk THEN SocketShare ELSE 0)
               cpus == Cardinality(OwnCpus(n)) - (IF dpdk THEN PmdCpuNum(n) ELSE 0)
    <3>1. Capacity(n) = IF mem <= 0 THEN 0
                        ELSE Smaller(MAX_VM_PER_NUMA,
                                     Smaller(mem \div vm_mem, cpus \div vm_cpu_num))
      BY DEF Capacity, OwnCpus
    <3>2. Account(n)
      BY <2>2 DEF SutInv, Accounts, Allocating
    <3>3. ~VmFits(n)
      BY <3>2 DEF Account, VmsSettled
    <3>4. PICK k \in Nat : k = Len(vms[n]) /\ k <= MAX_VM_PER_NUMA
      BY DEF SutInv, TypeOK, WithinNode
    <3>5. PICK a \in Nat : a = avail_mem[n]
      BY DEF SutInv, TypeOK
    <3>6. PICK q \in Nat : q = Cardinality(avail_cpus[n])
      <4>1. avail_cpus[n] \in SUBSET Cpus
        BY DEF SutInv, TypeOK
      <4> QED
        BY <4>1, FiniteCpus
    <3>7. /\ vm_mem \in Nat \ {0} /\ vm_cpu_num \in Nat \ {0} /\ MAX_VM_PER_NUMA \in Nat
          /\ SocketShare \in Nat /\ Hugepages(n) \in Nat /\ PmdCpuNum(n) \in Nat
      BY Sizes, SutAssumption DEF SutInv, PmdCpuNum
    <3>8. mem \in Int
      BY <3>7
    <3>9. PICK w \in Nat : w = vm_mem * k
      BY <3>7
    <3>10. PICK z \in Nat : z = vm_cpu_num * k
      BY <3>7
    <3>11. (SocketSettled(n) <=> dpdk) /\ (PmdSettled(n) <=> dpdk)
      BY DEF SocketSettled, PmdSettled, Past
    <3>12. CASE mem <= 0
      <4>1. a + w = 0
        BY <3>2, <3>4, <3>5, <3>7, <3>9, <3>11, <3>12 DEF Account, VmMem, Usable
      <4>2. w = 0
        BY <4>1
      <4>3. k = 0
        BY <3>7, <3>9, <4>2
      <4> QED
        BY <2>2, <3>1, <3>4, <3>12, <4>3
    <3>13. CASE ~(mem <= 0)
      <4>1. mem \in Nat /\ a + w = mem
        BY <3>2, <3>4, <3>5, <3>7, <3>9, <3>11, <3>13 DEF Account, VmMem, Usable
      <4>2. SwitchCpus(n) = IF dpdk THEN PmdCpuNum(n) ELSE 0
        BY <3>7, <3>11, <3>13 DEF SwitchCpus, Usable
      <4>3. q + z + SwitchCpus(n) = Cardinality(OwnCpus(n)) /\ SwitchCpus(n) \in Nat
        BY <3>2, <3>4, <3>6, <3>7, <3>10, <4>2 DEF Account
      <4>4. cpus \in Nat /\ q + z = cpus
        BY <4>2, <4>3
      <4> HIDE DEF mem, cpus
      <4>5. PICK x \in Nat : x = mem \div vm_mem /\ k <= x
        <5>1. w <= mem
          BY <4>1
        <5>2. mem \div vm_mem \in Nat /\ k <= mem \div vm_mem
          BY <3>7, <3>9, <4>1, <5>1, QuotientAtLeast
        <5> QED
          BY <5>2
      <4>6. PICK y \in Nat : y = cpus \div vm_cpu_num /\ k <= y
        <5>1. z <= cpus
          BY <4>4
        <5>2. cpus \div vm_cpu_num \in Nat /\ k <= cpus \div vm_cpu_num
          BY <3>7, <3>10, <4>4, <5>1, QuotientAtLeast
        <5> QED
          BY <5>2
      <4>7. \/ a < vm_mem
            \/ k = MAX_VM_PER_NUMA
            \/ q < vm_cpu_num
        BY <3>3, <3>4, <3>5, <3>6, <3>7 DEF VmFits
      <4>8. a < vm_mem => x = k
        BY <3>7, <3>9, <4>1, <4>5, Quotient
      <4>9. q < vm_cpu_num => y = k
        BY <3>7, <3>10, <4>4, <4>6, Quotient
      <4>10. k = Smaller(MAX_VM_PER_NUMA, Smaller(x, y))
        BY <3>4, <3>7, <4>5, <4>6, <4>7, <4>8, <4>9 DEF Smaller
      <4> QED
        BY <2>2, <3>1, <3>4, <3>13, <4>5, <4>6, <4>10
    <3> QED
      BY <3>12, <3>13
  <2> QED
    BY <2>1, <2>2
<1> QED
  BY <1>1, Inductive, PTL

===============================================================================
