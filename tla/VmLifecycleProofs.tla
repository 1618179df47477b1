---------------------------- MODULE VmLifecycleProofs ----------------------------
(*****************************************************************************)
(* Starting and stopping, proved for any number of VMs and of failures.      *)
(*****************************************************************************)
EXTENDS VmLifecycle, TLAPS

\* The initial state satisfies the inductive invariant.
LEMMA InitInv == Init => VmInv
<1> SUFFICES ASSUME Init PROVE VmInv
  OBVIOUS
<1>1. TypeOK
  <2>1. clean \in BOOLEAN
    BY DEF Init
  <2>2. qemu \in [Vms -> {"off", "booting", "up", "halting"}]
    BY DEF Init
  <2> QED
    BY <2>1, <2>2, VmAssumption DEF Init, TypeOK, Starting
<1>2. InLoop /\ StopProgress /\ StartProgress
  BY DEF Init, InLoop, StopProgress, StartProgress, Starting
<1>3. StartedAll /\ StoppedAll
  BY DEF Init, StartedAll, StoppedAll
<1> QED
  BY <1>1, <1>2, <1>3 DEF VmInv

\* VMs are numbers, and the loop's position is one of them until it is past the last.
LEMMA Positions ==
  ASSUME TypeOK
  PROVE  /\ vm <= NVms => vm \in Vms /\ vm + 1 \in 1..(NVms + 1)
         /\ 1 \in 1..(NVms + 1)
         /\ \A v \in Vms : v < vm + 1 => v < vm \/ v = vm
         /\ vm > NVms => \A v \in Vms : v < vm
         /\ ~(vm <= NVms /\ vm > NVms)
<1>1. vm \in 1..(NVms + 1)
  BY DEF TypeOK
<1>2. NVms \in Nat
  BY VmAssumption
<1>3. vm \in Nat /\ 1 <= vm
  BY <1>1, <1>2
<1> QED
  BY <1>1, <1>2, <1>3 DEF Vms

\* A failure is counted within its bound.
LEMMA Faults ==
  ASSUME TypeOK, Fault
  PROVE  faults' \in 0..MaxFaults /\ faults' # 0
<1>1. faults \in 0..MaxFaults
  BY DEF TypeOK
<1> QED
  BY <1>1, VmAssumption DEF Fault

\* What the machines do by themselves preserves the invariant.
LEMMA MachineStep ==
  ASSUME VmInv, NEW v \in Vms, Boots(v) \/ Halts(v) \/ Crashes(v)
  PROVE  VmInv'
<1> USE Positions, Faults DEF VmInv, Starting
<1>1. CASE Boots(v)
  <2> USE <1>1 DEF Boots
  <2>1. TypeOK'
    BY DEF TypeOK, InLoop
  <2>2. InLoop'
    BY DEF InLoop, TypeOK
  <2>3. StopProgress'
    BY DEF StopProgress, TypeOK, InLoop
  <2>4. StartProgress'
    BY DEF StartProgress, TypeOK, InLoop
  <2>5. StartedAll' /\ StoppedAll'
    BY DEF StartedAll, StoppedAll, StartProgress, StopProgress, TypeOK, InLoop
  <2> QED
    BY <2>1, <2>2, <2>3, <2>4, <2>5
<1>2. CASE Halts(v)
  <2> USE <1>2 DEF Halts, Gone
  <2>1. TypeOK'
    BY DEF TypeOK, InLoop
  <2>2. InLoop'
    BY DEF InLoop, TypeOK
  <2>3. StopProgress'
    BY DEF StopProgress, TypeOK, InLoop
  <2>4. StartProgress'
    BY DEF StartProgress, TypeOK, InLoop
  <2>5. StartedAll' /\ StoppedAll'
    BY DEF StartedAll, StoppedAll, StartProgress, StopProgress, TypeOK, InLoop
  <2> QED
    BY <2>1, <2>2, <2>3, <2>4, <2>5
<1>3. CASE Crashes(v)
  <2> USE <1>3 DEF Crashes, Gone
  <2>1. TypeOK'
    BY DEF TypeOK, InLoop
  <2>2. InLoop'
    BY DEF InLoop, TypeOK
  <2>3. StopProgress'
    BY DEF StopProgress, TypeOK, InLoop
  <2>4. StartProgress'
    BY DEF StartProgress, TypeOK, InLoop
  <2>5. StartedAll' /\ StoppedAll'
    BY DEF StartedAll, StoppedAll, StartProgress, StopProgress, TypeOK, InLoop
  <2> QED
    BY <2>1, <2>2, <2>3, <2>4, <2>5
<1> QED
  BY <1>1, <1>2, <1>3

\* The steps of start_vms_on_all_suts preserve the invariant.
LEMMA StartStep ==
  ASSUME VmInv, RunQemu \/ BootSeen \/ BootTimeout \/ SetAffinity \/ Configure
  PROVE  VmInv'
<1> USE Positions, Faults DEF VmInv, Starting
<1>1. CASE RunQemu
  <2> USE <1>1 DEF RunQemu, HostCommand, GoOn, In, Raise, vmVars
  <2>1. TypeOK'
    BY DEF TypeOK, InLoop
  <2>2. InLoop'
    BY DEF InLoop, TypeOK
  <2>3. StopProgress'
    BY DEF StopProgress, TypeOK, InLoop
  <2>4. StartProgress'
    BY DEF StartProgress, TypeOK, InLoop
  <2>5. StartedAll' /\ StoppedAll'
    BY DEF StartedAll, StoppedAll, StartProgress, StopProgress, TypeOK, InLoop
  <2> QED
    BY <2>1, <2>2, <2>3, <2>4, <2>5
<1>2. CASE BootSeen
  <2> USE <1>2 DEF BootSeen, In, GoOn, vmVars
  <2>1. TypeOK'
    BY DEF TypeOK, InLoop
  <2>2. InLoop'
    BY DEF InLoop, TypeOK
  <2>3. StopProgress'
    BY DEF StopProgress, TypeOK, InLoop
  <2>4. StartProgress'
    BY DEF StartProgress, TypeOK, InLoop
  <2>5. StartedAll' /\ StoppedAll'
    BY DEF StartedAll, StoppedAll, StartProgress, StopProgress, TypeOK, InLoop
  <2> QED
    BY <2>1, <2>2, <2>3, <2>4, <2>5
<1>3. CASE BootTimeout
  <2> USE <1>3 DEF BootTimeout, In, Raise, vmVars
  <2>1. TypeOK'
    BY DEF TypeOK, InLoop
  <2>2. InLoop'
    BY DEF InLoop, TypeOK
  <2>3. StopProgress'
    BY DEF StopProgress, TypeOK, InLoop
  <2>4. StartProgress'
    BY DEF StartProgress, TypeOK, InLoop
  <2>5. StartedAll' /\ StoppedAll'
    BY DEF StartedAll, StoppedAll, StartProgress, StopProgress, TypeOK, InLoop
  <2> QED
    BY <2>1, <2>2, <2>3, <2>4, <2>5
<1>4. CASE SetAffinity
  <2> USE <1>4 DEF SetAffinity, HostCommand, GoOn, In, Raise, vmVars
  <2>1. TypeOK'
    BY DEF TypeOK, InLoop
  <2>2. InLoop'
    BY DEF InLoop, TypeOK
  <2>3. StopProgress'
    BY DEF StopProgress, TypeOK, InLoop
  <2>4. StartProgress'
    BY DEF StartProgress, TypeOK, InLoop
  <2>5. StartedAll' /\ StoppedAll'
    BY DEF StartedAll, StoppedAll, StartProgress, StopProgress, TypeOK, InLoop
  <2> QED
    BY <2>1, <2>2, <2>3, <2>4, <2>5
<1>5. CASE Configure
  <2> USE <1>5 DEF Configure, GuestCommand, NextVm, In, Raise, vmVars
  <2>1. TypeOK'
    BY DEF TypeOK, InLoop
  <2>2. InLoop'
    BY DEF InLoop, TypeOK
  <2>3. StopProgress'
    BY DEF StopProgress, TypeOK, InLoop
  <2>4. StartProgress'
    BY DEF StartProgress, TypeOK, InLoop
  <2>5. StartedAll' /\ StoppedAll'
    BY DEF StartedAll, StoppedAll, StartProgress, StopProgress, TypeOK, InLoop
  <2> QED
    BY <2>1, <2>2, <2>3, <2>4, <2>5
<1> QED
  BY <1>1, <1>2, <1>3, <1>4, <1>5

\* The steps of stop_vms_on_all_suts preserve the invariant.
LEMMA StopStep ==
  ASSUME VmInv, PowerOff \/ KillQemu \/ RemoveSocks
  PROVE  VmInv'
<1> USE Positions, Faults DEF VmInv, Starting
<1>1. CASE PowerOff
  <2> USE <1>1 DEF PowerOff, GuestCommand, GoOn, In, Raise, vmVars
  <2>1. TypeOK'
    BY DEF TypeOK, InLoop
  <2>2. InLoop'
    BY DEF InLoop, TypeOK
  <2>3. StopProgress'
    BY DEF StopProgress, TypeOK, InLoop
  <2>4. StartProgress'
    BY DEF StartProgress, TypeOK, InLoop
  <2>5. StartedAll' /\ StoppedAll'
    BY DEF StartedAll, StoppedAll, StartProgress, StopProgress, TypeOK, InLoop
  <2> QED
    BY <2>1, <2>2, <2>3, <2>4, <2>5
<1>2. CASE KillQemu
  <2> USE <1>2 DEF KillQemu, HostCommand, Gone, GoOn, In, Raise, vmVars
  <2>1. TypeOK'
    BY DEF TypeOK, InLoop
  <2>2. InLoop'
    BY DEF InLoop, TypeOK
  <2>3. StopProgress'
    BY DEF StopProgress, TypeOK, InLoop
  <2>4. StartProgress'
    BY DEF StartProgress, TypeOK, InLoop
  <2>5. StartedAll' /\ StoppedAll'
    BY DEF StartedAll, StoppedAll, StartProgress, StopProgress, TypeOK, InLoop
  <2> QED
    BY <2>1, <2>2, <2>3, <2>4, <2>5
<1>3. CASE RemoveSocks
  <2> USE <1>3 DEF RemoveSocks, HostCommand, NextVm, In, Raise, vmVars
  <2>1. TypeOK'
    BY DEF TypeOK, InLoop
  <2>2. InLoop'
    BY DEF InLoop, TypeOK
  <2>3. StopProgress'
    BY DEF StopProgress, TypeOK, InLoop
  <2>4. StartProgress'
    BY DEF StartProgress, TypeOK, InLoop
  <2>5. StartedAll' /\ StoppedAll'
    BY DEF StartedAll, StoppedAll, StartProgress, StopProgress, TypeOK, InLoop
  <2> QED
    BY <2>1, <2>2, <2>3, <2>4, <2>5
<1> QED
  BY <1>1, <1>2, <1>3

\* Entering and leaving a keyword preserves VmInv.
LEMMA LoopStep ==
  ASSUME VmInv, End \/ \E k \in {"start", "stop"} : Begin(k)
  PROVE  VmInv'
<1> USE Positions DEF VmInv, Starting, vmVars
<1>1. CASE End
  <2>1. TypeOK' /\ InLoop'
    BY <1>1 DEF End, TypeOK, InLoop
  <2>2. StopProgress' /\ StartProgress'
    BY <1>1 DEF End, StopProgress, StartProgress
  <2>3. StartedAll'
    BY <1>1 DEF End, StartedAll, StartProgress, InLoop
  <2>4. StoppedAll'
    BY <1>1 DEF End, StoppedAll, StopProgress, InLoop, TypeOK
  <2> QED
    BY <2>1, <2>2, <2>3, <2>4
<1>2. ASSUME NEW k \in {"start", "stop"}, Begin(k)
      PROVE  VmInv'
  <2>1. clean' \in BOOLEAN
    BY <1>2 DEF Begin
  <2>2. TypeOK' /\ InLoop'
    BY <1>2, <2>1 DEF Begin, TypeOK, InLoop
  <2>3. StopProgress' /\ StartProgress'
    <3>1. \A v \in Vms : ~(v < 1)
      BY DEF Vms
    <3> QED
      BY <1>2, <3>1 DEF Begin, StopProgress, StartProgress
  <2>4. StartedAll' /\ StoppedAll'
    BY <1>2 DEF Begin, StartedAll, StoppedAll
  <2> QED
    BY <2>2, <2>3, <2>4
<1> QED
  BY <1>1, <1>2

\* VmInv is inductive.
THEOREM Inductive == Spec => []VmInv
<1>1. VmInv /\ [Next]_vars => VmInv'
  <2> SUFFICES ASSUME VmInv, [Next]_vars PROVE VmInv'
    OBVIOUS
  <2>1. CASE Next
    BY <2>1, MachineStep, StartStep, StopStep, LoopStep DEF Next, Keyword
  <2>2. CASE UNCHANGED vars
    BY <2>2 DEF vars, VmInv, TypeOK, InLoop, StopProgress, StartProgress, StartedAll, StoppedAll
  <2> QED
    BY <2>1, <2>2
<1> QED
  BY <1>1, InitInv, PTL DEF Spec

\* When the stop keyword completes, no QEMU runs and no socket is left, whatever
\* failed before.
THEOREM AllStopped == Spec => []StoppedAll
  BY Inductive, PTL DEF VmInv

\* When the start keyword completes and nothing failed by itself, every VM answers, is
\* bound to its CPUs and has its addresses.
THEOREM AllStarted == Spec => []StartedAll
  BY Inductive, PTL DEF VmInv

===============================================================================
