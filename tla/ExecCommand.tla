------------------------------ MODULE ExecCommand ------------------------------
(*****************************************************************************)
(* One call of SSH.exec_command (ssh.py): the request, the polling loop, the *)
(* exit status and the two drain loops, against the remote command, sshd and *)
(* the paramiko channel.                                                     *)
(*                                                                           *)
(* Output is counted in chunks per stream.  A chunk is written by the remote *)
(* process into a pipe, sent by sshd while the channel window has room,      *)
(* arrives in paramiko's buffer, and is taken by recv()/recv_stderr().  The  *)
(* exit status, the end of file and the close of the channel travel on the   *)
(* same ordered stream.  The transport may be lost at any moment.            *)
(*****************************************************************************)
EXTENDS Naturals

CONSTANTS
  MaxChunks,    \* bound: chunks a command writes per stream
  Window,       \* unread chunks the channel window admits
  PipeSize,     \* chunks a process can write ahead of sshd
  HasTimeout,   \* FALSE when exec_command is called with timeout=None
  LinkMayFail,  \* TRUE when the transport may be lost during the call
  Detaches      \* may a child keep the streams open after the command's exit?

ASSUME ExecAssumption ==
  /\ MaxChunks \in Nat /\ Window \in Nat /\ PipeSize \in Nat
  /\ HasTimeout \in BOOLEAN /\ LinkMayFail \in BOOLEAN
  /\ Detaches \subseteq BOOLEAN

Streams == {"out", "err"}

VARIABLES
  written,  \* chunks written by the remote processes, per stream
  open,     \* some remote process still holds the output streams
  sent,     \* chunks sshd has put on the wire
  arrived,  \* chunks paramiko's transport thread has buffered
  taken,    \* chunks exec_command has read into stdout/stderr
  exit,     \* exit status: "none", "sent", "arrived", or "signal" (none is sent)
  exitAt,   \* what was on the wire before the exit status
  eof,      \* end of file: "none", "sent", "arrived"
  close,    \* channel close: "none", "sent", "arrived"
  lost,     \* the transport is gone
  expired,  \* time() - start > timeout
  pc,       \* where exec_command is
  rc        \* return_code

remoteVars == <<written, open, sent, exit, exitAt, eof, close>>
clientVars == <<taken, pc, rc>>
vars == <<written, open, sent, arrived, taken, exit, exitAt, eof, close,
          lost, expired, pc, rc>>

Final == {"returned", "timeout", "failed"}

Running == pc \notin Final

Started == Running /\ pc # "exec"

Init ==
  /\ written = [s \in Streams |-> 0]
  /\ sent = [s \in Streams |-> 0]
  /\ arrived = [s \in Streams |-> 0]
  /\ taken = [s \in Streams |-> 0]
  /\ open = TRUE
  /\ exit = "none"
  /\ exitAt = [out |-> 0, err |-> 0, eof |-> FALSE]
  /\ eof = "none"
  /\ close = "none"
  /\ lost = FALSE
  /\ expired = FALSE
  /\ pc = "exec"
  /\ rc = "unset"

-------------------------------------------------------------------------------
(* The remote command and sshd. *)

\* A process writes a chunk; it blocks while its pipe is full.
Write(s) ==
  /\ Started
  /\ open
  /\ written[s] < MaxChunks
  /\ written[s] - sent[s] < PipeSize
  /\ written' = [written EXCEPT ![s] = @ + 1]
  /\ UNCHANGED <<open, sent, exit, exitAt, eof, close, arrived, lost, expired, clientVars>>

\* The last holder of the streams closes them.
CloseStreams ==
  /\ Started
  /\ open
  /\ open' = FALSE
  /\ UNCHANGED <<written, sent, exit, exitAt, eof, close, arrived, lost, expired, clientVars>>

\* The command exits; sshd sends its status at once, ahead of what is still piped.
Exit ==
  /\ Started
  /\ exit = "none"
  /\ exit' = "sent"
  /\ exitAt' = [out |-> sent["out"], err |-> sent["err"], eof |-> eof # "none"]
  /\ \E detached \in Detaches : open' = (open /\ detached)
  /\ UNCHANGED <<written, sent, eof, close, arrived, lost, expired, clientVars>>

\* The command is killed by a signal: no exit status will be sent.
Killed ==
  /\ Started
  /\ exit = "none"
  /\ exit' = "signal"
  /\ \E detached \in Detaches : open' = (open /\ detached)
  /\ UNCHANGED <<written, sent, exitAt, eof, close, arrived, lost, expired, clientVars>>

InFlight == (sent["out"] + sent["err"]) - (taken["out"] + taken["err"])

\* sshd forwards a chunk while the unread data fits in the channel window.
SendChunk(s) ==
  /\ Started
  /\ sent[s] < written[s]
  /\ InFlight < Window
  /\ sent' = [sent EXCEPT ![s] = @ + 1]
  /\ UNCHANGED <<written, open, exit, exitAt, eof, close, arrived, lost, expired, clientVars>>

\* sshd sends the end of file once nobody can write and everything is sent.
SendEof ==
  /\ Started
  /\ eof = "none"
  /\ ~open
  /\ sent = written
  /\ eof' = "sent"
  /\ UNCHANGED <<written, open, sent, exit, exitAt, close, arrived, lost, expired, clientVars>>

\* sshd closes the channel after the end of file and the command's end.
SendClose ==
  /\ Started
  /\ close = "none"
  /\ eof # "none"
  /\ exit # "none"
  /\ close' = "sent"
  /\ UNCHANGED <<written, open, sent, exit, exitAt, eof, arrived, lost, expired, clientVars>>

-------------------------------------------------------------------------------
(* paramiko's transport thread: the wire keeps the order in which sshd sent. *)

ArriveChunk(s) ==
  /\ Started
  /\ ~lost
  /\ arrived[s] < sent[s]
  /\ arrived' = [arrived EXCEPT ![s] = @ + 1]
  /\ UNCHANGED <<remoteVars, lost, expired, clientVars>>

ArriveExit ==
  /\ Started
  /\ ~lost
  /\ exit = "sent"
  /\ exitAt.out <= arrived["out"] /\ exitAt.err <= arrived["err"]
  /\ exitAt.eof => eof = "arrived"
  /\ exit' = "arrived"
  /\ UNCHANGED <<written, open, sent, exitAt, eof, close, arrived, lost, expired, clientVars>>

ArriveEof ==
  /\ Started
  /\ ~lost
  /\ eof = "sent"
  /\ arrived = sent
  /\ exit = "sent" => exitAt.eof
  /\ eof' = "arrived"
  /\ UNCHANGED <<written, open, sent, exit, exitAt, close, arrived, lost, expired, clientVars>>

ArriveClose ==
  /\ Started
  /\ ~lost
  /\ close = "sent"
  /\ eof = "arrived"
  /\ exit # "sent"
  /\ close' = "arrived"
  /\ UNCHANGED <<written, open, sent, exit, exitAt, eof, arrived, lost, expired, clientVars>>

LoseLink ==
  /\ LinkMayFail
  /\ Running
  /\ ~lost
  /\ lost' = TRUE
  /\ UNCHANGED <<remoteVars, arrived, expired, clientVars>>

\* The clock passes start + timeout.
Expire ==
  /\ Started
  /\ ~expired
  /\ expired' = TRUE
  /\ UNCHANGED <<remoteVars, arrived, lost, clientVars>>

-------------------------------------------------------------------------------
(* exec_command itself. *)

ChannelClosed == lost \/ close = "arrived"

exit_status_ready == exit = "arrived" \/ ChannelClosed

InputEnded == eof = "arrived" \/ ChannelClosed

Goto(from, to) == pc = from /\ pc' = to

\* recv and recv_stderr return everything that is buffered.
TakeAll(s) == taken' = [taken EXCEPT ![s] = arrived[s]]

\* chan.exec_command raises SSHException on a channel that is closed.
Request ==
  /\ Goto("exec", IF lost THEN "failed" ELSE "poll")
  /\ UNCHANGED <<remoteVars, arrived, lost, expired, taken, rc>>

PollExit ==
  /\ Goto("poll", IF ~exit_status_ready /\ HasTimeout THEN "poll_out" ELSE "status")
  /\ UNCHANGED <<remoteVars, arrived, lost, expired, taken, rc>>

PollOut ==
  /\ Goto("poll_out", "poll_err")
  /\ TakeAll("out")
  /\ UNCHANGED <<remoteVars, arrived, lost, expired, rc>>

PollErr ==
  /\ Goto("poll_err", "poll_time")
  /\ TakeAll("err")
  /\ UNCHANGED <<remoteVars, arrived, lost, expired, rc>>

\* Mutant: the deadline is never enforced.
PollTimeForever ==
  /\ Goto("poll_time", "poll")
  /\ UNCHANGED <<remoteVars, arrived, lost, expired, taken, rc>>

PollTime ==
  /\ Goto("poll_time", IF expired THEN "timeout" ELSE "poll")
  /\ UNCHANGED <<remoteVars, arrived, lost, expired, taken, rc>>

\* Blocks until the status event; a channel closed without a status gives -1.
RecvExitStatus ==
  /\ exit_status_ready
  /\ Goto("status", "drain")
  /\ rc' = IF exit = "arrived" THEN "real" ELSE "-1"
  /\ UNCHANGED <<remoteVars, arrived, lost, expired, taken>>

\* recv returns data; on socket.timeout the loop simply calls recv again.
DrainOut ==
  /\ Goto("drain", "drain")
  /\ taken["out"] < arrived["out"]
  /\ TakeAll("out")
  /\ UNCHANGED <<remoteVars, arrived, lost, expired, rc>>

\* Mutant: the drain stops when nothing is buffered, as on a socket.timeout.
DrainOutEarly ==
  /\ Goto("drain", "drain_err")
  /\ taken["out"] = arrived["out"]
  /\ UNCHANGED <<remoteVars, arrived, lost, expired, taken, rc>>

\* recv returns b"" only when the input has ended and the buffer is empty.
DrainOutEnd ==
  /\ Goto("drain", "drain_err")
  /\ taken["out"] = arrived["out"]
  /\ InputEnded
  /\ UNCHANGED <<remoteVars, arrived, lost, expired, taken, rc>>

\* Mutant: what is left of stderr is not read.
DrainErrNot ==
  /\ Goto("drain_err", "returned")
  /\ UNCHANGED <<remoteVars, arrived, lost, expired, taken, rc>>

DrainErr ==
  /\ Goto("drain_err", "returned")
  /\ TakeAll("err")
  /\ UNCHANGED <<remoteVars, arrived, lost, expired, rc>>

\* The call has ended; nothing more is modelled.
Ended == ~Running /\ UNCHANGED vars

Client ==
  \/ Request \/ PollExit \/ PollOut \/ PollErr \/ PollTime
  \/ RecvExitStatus \/ DrainOut \/ DrainOutEnd \/ DrainErr

Next ==
  \/ \E s \in Streams : Write(s) \/ SendChunk(s) \/ ArriveChunk(s)
  \/ CloseStreams \/ Exit \/ Killed \/ SendEof \/ SendClose
  \/ ArriveExit \/ ArriveEof \/ ArriveClose
  \/ LoseLink \/ Expire
  \/ Client
  \/ Ended

\* The caller's thread and paramiko's thread run, time passes, and sshd forwards
\* what it has.  The remote command is not assumed to exit or to close anything.
Fairness ==
  /\ WF_vars(Client)
  /\ WF_vars(Expire)
  /\ \A s \in Streams : WF_vars(SendChunk(s)) /\ WF_vars(ArriveChunk(s))
  /\ WF_vars(SendEof) /\ WF_vars(SendClose)
  /\ WF_vars(ArriveExit) /\ WF_vars(ArriveEof) /\ WF_vars(ArriveClose)

Spec == Init /\ [][Next]_vars

FairSpec == Spec /\ Fairness

-------------------------------------------------------------------------------
(* Properties. *)

\* Type correctness.
TypeOK ==
  /\ written \in [Streams -> Nat] /\ sent \in [Streams -> Nat]
  /\ arrived \in [Streams -> Nat] /\ taken \in [Streams -> Nat]
  /\ open \in BOOLEAN /\ lost \in BOOLEAN /\ expired \in BOOLEAN
  /\ exit \in {"none", "sent", "arrived", "signal"}
  /\ exitAt \in [out : Nat, err : Nat, eof : BOOLEAN]
  /\ eof \in {"none", "sent", "arrived"}
  /\ close \in {"none", "sent", "arrived"}
  /\ pc \in {"exec", "poll", "poll_out", "poll_err", "poll_time", "status",
             "drain", "drain_err"} \cup Final
  /\ rc \in {"unset", "real", "-1"}

\* A call that returns over a link that held has the whole of both streams: the
\* drain of stdout to the end of file also guarantees stderr, which is read only
\* once after it (ssh.py:198-219).
FullOutput ==
  pc = "returned" /\ ~lost => ~open /\ taken = written

\* The return code is the command's own unless the command was killed by a signal
\* or the link was lost, and those are never reported as an exit (ssh.py:196).
HonestStatus ==
  pc = "returned" =>
    /\ rc = "real" => exit = "arrived"
    /\ rc = "-1" => exit = "signal" \/ lost

\* A call ends, by a result, an SSHTimeout or an SSHException, unless it has the exit
\* status and some process holds the output streams open for ever (ssh.py:175-214).
EndsUnlessHeld == <>(pc \in Final) \/ <>[](pc = "drain" /\ open)

\* exec_command's docstring: "Maximal time in seconds to wait until the command is
\* done", "raises SSHTimeout: If command is not finished in timeout time"
\* (ssh.py:148-149, 158): every call ends, whatever the remote command does.
CallEnds == <>(pc \in Final)

\* What a caller of exec_command can see of this state.
answer ==
  [kind |-> CASE pc = "returned" -> "result"
              [] pc = "timeout"  -> "timeout"
              [] pc = "failed"   -> "error"
              [] OTHER           -> "none",
   rc   |-> IF pc = "returned" THEN rc ELSE "unset",
   data |-> IF pc = "returned" THEN taken ELSE [s \in Streams |-> 0]]

ended ==
  CASE exit = "none"   -> "no"
    [] exit = "signal" -> "signalled"
    [] OTHER           -> "exited"

Promise == INSTANCE RemoteCommand
             WITH produced <- written, closed <- ~open, broken <- lost

\* exec_command implements the promise of RemoteCommand: one answer, complete and
\* true over a link that held, never invented (ssh.py:144-232).
KeepsPromise == Promise!Spec

-------------------------------------------------------------------------------
(* The inductive invariant behind the safety properties. *)

\* Each chunk goes through the four stages in order.
StagesInOrder ==
  \A s \in Streams : /\ taken[s] <= arrived[s]
                     /\ arrived[s] <= sent[s]
                     /\ sent[s] <= written[s]

\* The end of file and the close are the last things on the wire.
EndMarkers ==
  /\ eof # "none" => ~open /\ sent = written
  /\ eof = "arrived" => arrived = sent
  /\ close # "none" => eof # "none" /\ exit # "none"
  /\ close = "arrived" => eof = "arrived" /\ exit # "sent"

Draining == {"drain", "drain_err", "returned"}

\* What each stage of the drain has established, unless the link was lost.
DrainProgress ==
  /\ pc \in Draining => rc # "unset"
  /\ pc \notin Draining => rc = "unset"
  /\ pc \in {"drain_err", "returned"} /\ ~lost =>
       eof = "arrived" /\ taken["out"] = arrived["out"]
  /\ pc = "returned" /\ ~lost => taken["err"] = arrived["err"]

StatusSource ==
  /\ rc = "real" => exit = "arrived"
  /\ rc = "-1" => exit = "signal" \/ lost

ExecInv == TypeOK /\ StagesInOrder /\ EndMarkers /\ DrainProgress /\ StatusSource

===============================================================================
