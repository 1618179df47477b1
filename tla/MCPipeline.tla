------------------------------ MODULE MCPipeline ------------------------------
(* The instances of Pipeline that TLC checks. *)
EXTENDS Pipeline

\* Two SUTs, one with two VIFs of different VNIs and one with one.
TwoSuts == << <<1, 2>>, <<1>> >>
ThreeSuts == << <<1>>, <<1>>, <<1>> >>
Mode(rip, tid, md) == [rip |-> rip, tid |-> tid, md |-> md]
TwoModes == {Mode("flow", "flow", FALSE), Mode("non-flow", "flow", TRUE)}
PerRemote == {Mode("non-flow", "flow", FALSE)}
PerFlow == {Mode("flow", "flow", FALSE)}
OneId == <<100>>
TwoIds == <<100, 101>>

===============================================================================
