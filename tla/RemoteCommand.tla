----------------------------- MODULE RemoteCommand -----------------------------
(*****************************************************************************)
(* What exec_command promises its callers, without channels, buffers or      *)
(* loops: a command produces output and ends, and the call gives one answer. *)
(* Over a link that holds the answer is a timeout or the whole output with   *)
(* the true status; over a broken link it may be truncated, or an error, but *)
(* it never invents output or a status.                                      *)
(*****************************************************************************)
EXTENDS Naturals

Streams == {"out", "err"}

VARIABLES
  produced,  \* chunks the command has produced, per stream
  closed,    \* nobody can produce any more
  ended,     \* "no", "exited" or "signalled"
  broken,    \* the link has failed
  answer     \* its kind, and of a "result" the return code and the output

vars == <<produced, closed, ended, broken, answer>>

Nothing == [s \in Streams |-> 0]

Answers(kind, rc, data) == [kind |-> kind, rc |-> rc, data |-> data]

NoAnswer == Answers("none", "unset", Nothing)

Status(how) == IF how = "exited" THEN "real" ELSE "-1"

Init ==
  /\ produced = Nothing
  /\ closed = FALSE
  /\ ended = "no"
  /\ broken = FALSE
  /\ answer = NoAnswer

Produce ==
  /\ answer = NoAnswer /\ ~closed
  /\ \E s \in Streams : produced' = [produced EXCEPT ![s] = @ + 1]
  /\ UNCHANGED <<closed, ended, broken, answer>>

Close ==
  /\ answer = NoAnswer /\ ~closed
  /\ closed' = TRUE
  /\ UNCHANGED <<produced, ended, broken, answer>>

End ==
  /\ answer = NoAnswer /\ ended = "no"
  /\ ended' \in {"exited", "signalled"}
  /\ closed' \in {closed, TRUE}
  /\ UNCHANGED <<produced, broken, answer>>

Break ==
  /\ answer = NoAnswer /\ ~broken
  /\ broken' = TRUE
  /\ UNCHANGED <<produced, closed, ended, answer>>

\* The answer over a link that held.
Complete ==
  /\ ~broken /\ closed /\ ended # "no"
  /\ answer' = Answers("result", Status(ended), produced)

\* The answer over a broken link.
Truncated ==
  /\ broken
  /\ \/ answer' = Answers("error", "unset", Nothing)
     \/ \E r \in {"real", "-1"}, o \in 0..produced["out"], e \in 0..produced["err"] :
          /\ r = "real" => ended = "exited"
          /\ answer' = Answers("result", r, [s \in Streams |-> IF s = "out" THEN o ELSE e])

Answer ==
  /\ answer = NoAnswer
  /\ Complete \/ Truncated \/ answer' = Answers("timeout", "unset", Nothing)
  /\ UNCHANGED <<produced, closed, ended, broken>>

Next == Produce \/ Close \/ End \/ Break \/ Answer

Spec == Init /\ [][Next]_vars

===============================================================================
