------------------------------- MODULE VmLifecycle -------------------------------
(*****************************************************************************)
(* start_vms_on_all_suts and stop_vms_on_all_suts (pal.py) over qemu_start   *)
(* and qemu_guest_poweroff (vm.py, guest.py): one VM after another, against  *)
(* guests that boot, halt and crash in their own time.                       *)
(*                                                                           *)
(* A command on the host raises RuntimeError when it fails; a command in the *)
(* guest only logs its failure, but raises IOError when the guest cannot be  *)
(* dialled.  An exception ends the keyword where it stands.  VMs are         *)
(* numbered in the order of the loops over SUTs and their get_vms().         *)
(*****************************************************************************)
EXTENDS Naturals

CONSTANTS
  NVms,      \* VMs are 1 .. NVms
  MaxFaults  \* bound: crashes, slow boots and commands that fail by themselves

Vms == 1..NVms

ASSUME VmAssumption == NVms \in Nat \ {0} /\ MaxFaults \in Nat

VARIABLES
  qemu,        \* "off", "booting", "up" (the guest answers), "halting"
  pinned,      \* VMs whose vCPU threads are bound to their host CPUs
  configured,  \* VMs whose interfaces have their addresses
  socks,       \* VMs whose QMP and QGA sockets are in /tmp
  kw,          \* the step of the keyword in progress, or "idle"
  vm,          \* the VM of that step
  ended,       \* how the last keyword ended
  clean,       \* history: every guest was up when the last keyword began
  faults

vars == <<qemu, pinned, configured, socks, kw, vm, ended, clean, faults>>
vmVars == <<qemu, pinned, configured, socks>>

Init ==
  /\ qemu = [v \in Vms |-> "off"]
  /\ pinned = {} /\ configured = {} /\ socks = {}
  /\ kw = "idle" /\ vm = 1
  /\ ended = "none"
  /\ clean = FALSE
  /\ faults = 0

-------------------------------------------------------------------------------
(* The machines. *)

Fault == faults < MaxFaults /\ faults' = faults + 1

Boots(v) ==
  /\ qemu[v] = "booting"
  /\ qemu' = [qemu EXCEPT ![v] = "up"]
  /\ UNCHANGED <<pinned, configured, socks, kw, vm, ended, clean, faults>>

\* QEMU goes away, and with it what was bound and configured.
Gone(v) ==
  /\ qemu' = [qemu EXCEPT ![v] = "off"]
  /\ pinned' = pinned \ {v}
  /\ configured' = configured \ {v}

Halts(v) ==
  /\ qemu[v] = "halting"
  /\ Gone(v)
  /\ UNCHANGED <<socks, kw, vm, ended, clean, faults>>

Crashes(v) ==
  /\ qemu[v] # "off"
  /\ Fault
  /\ Gone(v)
  /\ UNCHANGED <<socks, kw, vm, ended, clean>>

-------------------------------------------------------------------------------
(* Keywords and commands. *)

Begin(k) ==
  /\ kw = "idle"
  /\ kw' = k /\ vm' = 1
  /\ ended' = "none"
  /\ clean' = (\A v \in Vms : qemu[v] = "up")
  /\ UNCHANGED <<vmVars, faults>>

Starting == {"start", "boot", "pin", "configure"}

\* An exception leaves the keyword.
Raise ==
  /\ kw' = "idle"
  /\ ended' = IF kw \in Starting THEN "start failed" ELSE "stop failed"
  /\ UNCHANGED <<vm, clean>>

In(k) == kw = k /\ vm <= NVms

GoOn(k) == kw' = k /\ UNCHANGED <<vm, ended, clean>>
NextVm(k) == kw' = k /\ vm' = vm + 1 /\ UNCHANGED <<ended, clean>>

\* execute_host: the command works, is refused, or fails by itself with its effect
\* or without.
HostCommand(ok, effect, onward) ==
  \/ ok /\ effect /\ onward /\ UNCHANGED faults
  \/ ~ok /\ Raise /\ UNCHANGED <<vmVars, faults>>
  \/ Fault /\ Raise /\ (UNCHANGED vmVars \/ (ok /\ effect))

\* execute in the guest: a failure is logged; a guest that is not up cannot be
\* dialled, unless an old connection answers for it.
GuestCommand(effect, onward) ==
  \/ qemu[vm] = "up" /\ effect /\ onward /\ UNCHANGED faults
  \/ qemu[vm] = "up" /\ Fault /\ onward /\ UNCHANGED vmVars
  \/ qemu[vm] # "up" /\ (onward \/ Raise) /\ UNCHANGED <<vmVars, faults>>

-------------------------------------------------------------------------------
(* start_vms_on_all_suts: qemu_start. *)

\* QEMU daemonizes; a second one is refused its ports and its disk image.
RunQemu ==
  /\ In("start")
  /\ HostCommand(qemu[vm] = "off",
                 /\ qemu' = [qemu EXCEPT ![vm] = "booting"]
                 /\ socks' = socks \cup {vm}
                 /\ UNCHANGED <<pinned, configured>>,
                 GoOn("boot"))

\* _wait_until_vm_boot: "pwd" answers in the guest.
BootSeen ==
  /\ In("boot")
  /\ qemu[vm] = "up"
  /\ GoOn("pin")
  /\ UNCHANGED <<vmVars, faults>>

\* Mutant: the guest is polled without end.
BootPolled ==
  /\ In("boot")
  /\ qemu[vm] = "off"
  /\ UNCHANGED vars

\* The 300 seconds pass first: the guest crashed, or is slow.
BootTimeout ==
  /\ In("boot")
  /\ IF qemu[vm] = "off" THEN UNCHANGED faults ELSE Fault
  /\ Raise
  /\ UNCHANGED vmVars

\* Mutant: the affinity is not set.
SetAffinityNot ==
  /\ In("pin")
  /\ GoOn("configure")
  /\ UNCHANGED <<vmVars, faults>>

\* qemu_set_affinity: the threads are asked for over QMP and bound one by one.
SetAffinity ==
  /\ In("pin")
  /\ HostCommand(qemu[vm] # "off",
                 pinned' = pinned \cup {vm} /\ UNCHANGED <<qemu, configured, socks>>,
                 GoOn("configure"))

Configure ==
  /\ In("configure")
  /\ GuestCommand(configured' = configured \cup {vm} /\ UNCHANGED <<qemu, pinned, socks>>,
                  NextVm("start"))

-------------------------------------------------------------------------------
(* stop_vms_on_all_suts: qemu_guest_poweroff. *)

\* Mutant: a guest told to power off is trusted to.
PowerOffTrusted ==
  /\ In("stop")
  /\ GuestCommand(qemu' = [qemu EXCEPT ![vm] = "halting"] /\ UNCHANGED <<pinned, configured, socks>>,
                  GoOn("rm"))

PowerOff ==
  /\ In("stop")
  /\ GuestCommand(qemu' = [qemu EXCEPT ![vm] = "halting"] /\ UNCHANGED <<pinned, configured, socks>>,
                  GoOn("kill"))

\* Two seconds later qemu_clear_socks: fuser -k fails when nobody holds the port.
KillQemu ==
  /\ In("kill")
  /\ HostCommand(qemu[vm] # "off", Gone(vm) /\ UNCHANGED socks, GoOn("rm"))

RemoveSocks ==
  /\ In("rm")
  /\ HostCommand(TRUE, socks' = socks \ {vm} /\ UNCHANGED <<qemu, pinned, configured>>,
                 NextVm("stop"))

\* The loop is over.
End ==
  /\ kw # "idle" /\ vm > NVms
  /\ kw' = "idle"
  /\ ended' = IF kw = "start" THEN "started" ELSE "stopped"
  /\ UNCHANGED <<vmVars, vm, clean, faults>>

Keyword ==
  \/ RunQemu \/ BootSeen \/ BootTimeout \/ SetAffinity \/ Configure
  \/ PowerOff \/ KillQemu \/ RemoveSocks
  \/ End

Next ==
  \/ \E k \in {"start", "stop"} : Begin(k)
  \/ \E v \in Vms : Boots(v) \/ Halts(v) \/ Crashes(v)
  \/ Keyword

Spec == Init /\ [][Next]_vars

\* The keyword's thread runs and, once _wait_until_vm_boot has no more time, raises; a
\* guest that is neither slow nor crashed boots.
FairSpec == Spec /\ WF_vars(Keyword) /\ \A v \in Vms : WF_vars(Boots(v))

-------------------------------------------------------------------------------
(* Properties. *)

\* Type correctness.
TypeOK ==
  /\ qemu \in [Vms -> {"off", "booting", "up", "halting"}]
  /\ pinned \in SUBSET Vms /\ configured \in SUBSET Vms /\ socks \in SUBSET Vms
  /\ kw \in Starting \cup {"idle", "stop", "kill", "rm"}
  /\ vm \in 1..(NVms + 1)
  /\ ended \in {"none", "started", "start failed", "stopped", "stop failed"}
  /\ clean \in BOOLEAN
  /\ faults \in 0..MaxFaults

\* When start_vms_on_all_suts completes and nothing has failed by itself, every VM,
\* the first ones too, answers, is bound to its CPUs and has its addresses
\* (vm.py:374-380).
StartedAll ==
  ended = "started" /\ faults = 0 =>
    \A v \in Vms : qemu[v] = "up" /\ v \in pinned /\ v \in configured

\* When stop_vms_on_all_suts completes, no QEMU runs and no socket is left, whatever
\* had failed before and although the poweroff is not checked (vm.py:400-424).
StoppedAll ==
  ended = "stopped" => socks = {} /\ \A v \in Vms : qemu[v] = "off"

\* Both keywords end: the boot is waited for at most so long (vm.py:306-330).
KeywordEnds == kw # "idle" ~> kw = "idle"

\* "If serial console port still open kill process" (vm.py:418): powering off guests
\* that are all up fails only if some command or machine does.
StopSucceeds ==
  ended = "stop failed" /\ clean => faults > 0

-------------------------------------------------------------------------------
(* The inductive invariant behind the safety properties. *)

\* Only between two VMs can the loop be past the last one.
InLoop ==
  /\ kw \in {"boot", "pin", "configure", "kill", "rm"} => vm <= NVms
  /\ kw # "idle" => ended = "none"

\* How far a stop has come: the VMs before the present one are gone, and this one is
\* once it has been killed.
StopProgress ==
  /\ kw \in {"stop", "kill", "rm"} =>
       \A v \in Vms : v < vm => qemu[v] = "off" /\ v \notin socks
  /\ kw = "rm" => qemu[vm] = "off"

\* How far a start has come, if nothing has failed by itself.
StartProgress ==
  faults = 0 =>
    /\ kw \in Starting =>
         \A v \in Vms : v < vm => qemu[v] = "up" /\ v \in pinned /\ v \in configured
    /\ kw \in {"pin", "configure"} => qemu[vm] = "up"
    /\ kw = "configure" => vm \in pinned

VmInv == TypeOK /\ InLoop /\ StopProgress /\ StartProgress /\ StartedAll /\ StoppedAll

===============================================================================
