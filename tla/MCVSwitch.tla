------------------------------- MODULE MCVSwitch -------------------------------
(* The instances of VSwitch that TLC checks. *)
EXTENDS VSwitch

TwoIds == <<100, 101>>

===============================================================================
