SPECIFICATION Spec
CONSTANTS
  NCpu = 5
  MaxNumaId = 1
  PageCounts <- AllPages
  UplinkLists <- UpToTwoUplinks
  HugepageSize = 2
  OVSDPDK_MEM_PER_SOCKET = 1
  vm_mem_size = 2
  vm_cpu_num = 1
  pnic_numa_cpu_num = 1
  norm_numa_cpu_num = 1
  MAX_VM_PER_NUMA = 2
INVARIANTS
  CpusExclusive
  MemoryBudget
  PmdServesVms
  VmsFillNodes
