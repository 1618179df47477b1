----------------------------- MODULE MCExecCommand -----------------------------
(* The instances of ExecCommand that TLC checks. *)
EXTENDS ExecCommand

\* A command that closes its output when it exits.
PlainCommand == {FALSE}

\* A command that may leave a child behind on its output streams.
AnyCommand == BOOLEAN

===============================================================================
