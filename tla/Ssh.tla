---------------------------------- MODULE Ssh ----------------------------------
(*****************************************************************************)
(* The connection cache of ssh.py and the calls made through it: exec_cmd    *)
(* and scp_node, each a connect (which reuses, replaces or dials a           *)
(* connection), the work on it, and the optional disconnect.  Nodes go away  *)
(* and come back (guests are rebooted), so a cached connection may be stale. *)
(*                                                                           *)
(* The run of one command is abstracted to the answers that RemoteCommand    *)
(* allows; ExecCommand is the detail.                                        *)
(*****************************************************************************)
EXTENDS Naturals

CONSTANTS
  Nodes,     \* hosts and guests, by (host, port)
  Attempts,  \* connect's attempts argument, 5 by default
  MaxConns   \* bound: connections dialled in a behaviour

ASSUME SshAssumption ==
  /\ Attempts \in Nat \ {0}
  /\ MaxConns \in Nat
  /\ Nodes # {}

Conns == 1..MaxConns
NoConn == 0

VARIABLES
  reachable,  \* can the node be dialled?
  conns,      \* SSHClient objects: "unused", "up", "stale" (the peer is gone but
              \* is_active() still holds), "dead" (is_active() is false), "closed"
  peer,       \* the node a connection was dialled to
  dialled,    \* connections created so far
  existing,   \* SSH.__existing_connections, NoConn for an absent key
  stage,      \* where the call is
  op,         \* "exec" or "scp"
  node,       \* self._node
  ssh,        \* self._ssh
  attempts,   \* the attempts argument of the connect in progress
  retry,      \* in the exception handler of exec_command
  disc,       \* the disconnect argument
  outcome,    \* what the call ended with
  runs,       \* history: times this call started the command
  trouble     \* history: the node or a fresh connection failed during this call

envVars == <<reachable, peer>>
cacheVars == <<conns, dialled, existing>>
callVars == <<op, node, disc>>
sshVars == <<reachable, conns, peer, dialled, existing, stage, op, node, ssh, attempts,
             retry, disc, outcome, runs, trouble>>

Open == {"up", "stale", "dead"}

is_active(c) == conns[c] \in {"up", "stale"}

SshInit ==
  /\ reachable \in [Nodes -> BOOLEAN]
  /\ conns = [c \in Conns |-> "unused"]
  /\ peer \in [Conns -> Nodes]
  /\ \A c, d \in Conns : peer[c] = peer[d]
  /\ dialled = 0
  /\ existing = [n \in Nodes |-> NoConn]
  /\ stage = "idle"
  /\ op = "exec"
  /\ node \in Nodes
  /\ ssh = NoConn
  /\ attempts = 0
  /\ retry = FALSE
  /\ disc = FALSE
  /\ outcome = "none"
  /\ runs = 0
  /\ trouble = FALSE

-------------------------------------------------------------------------------
(* The environment. *)

InCall(n) == stage # "idle" /\ n = node

\* A node goes away; its connections look active until a keepalive fails.
NodeDown(n) ==
  /\ reachable[n]
  /\ reachable' = [reachable EXCEPT ![n] = FALSE]
  /\ conns' = [c \in Conns |-> IF peer[c] = n /\ conns[c] = "up" THEN "stale" ELSE conns[c]]
  /\ trouble' = (trouble \/ InCall(n))
  /\ UNCHANGED <<peer, dialled, existing, stage, callVars, ssh, attempts, retry, outcome, runs>>

NodeUp(n) ==
  /\ ~reachable[n]
  /\ reachable' = [reachable EXCEPT ![n] = TRUE]
  /\ UNCHANGED <<peer, cacheVars, stage, callVars, ssh, attempts, retry, outcome, runs, trouble>>

\* set_keepalive(10): the transport notices that its peer is gone.
KeepaliveFails(c) ==
  /\ conns[c] = "stale"
  /\ conns' = [conns EXCEPT ![c] = "dead"]
  /\ UNCHANGED <<envVars, dialled, existing, stage, callVars, ssh, attempts, retry, outcome,
                 runs, trouble>>

-------------------------------------------------------------------------------
(* exec_cmd and scp_node. *)

\* A call; a fresh SSH object has no connection of its own.
Call(n, o, d) ==
  /\ stage = "idle"
  /\ dialled + 2 <= MaxConns
  /\ stage' = "connect"
  /\ op' = o /\ node' = n /\ disc' = d
  /\ ssh' = NoConn
  /\ attempts' = Attempts
  /\ retry' = FALSE
  /\ outcome' = "none"
  /\ runs' = 0
  /\ trouble' = ~reachable[n]
  /\ UNCHANGED <<envVars, cacheVars>>

\* Mutant: the closed connection stays in the cache.
DisconnectKeeps(n) ==
  /\ conns' = [c \in Conns |-> IF c = existing[n] THEN "closed" ELSE conns[c]]
  /\ UNCHANGED existing

\* Mutant: the connection is forgotten but not closed.
DisconnectLeaks(n) ==
  /\ existing' = [existing EXCEPT ![n] = NoConn]
  /\ UNCHANGED conns

\* disconnect: drop the node's cached connection, if there is one, and close it.
Disconnect(n) ==
  /\ existing' = [existing EXCEPT ![n] = NoConn]
  /\ conns' = [c \in Conns |-> IF c = existing[n] THEN "closed" ELSE conns[c]]

\* A call whose SSH object is connected goes on to its work.
Work == IF retry THEN "open_again" ELSE IF op = "exec" THEN "open" ELSE "scp"

\* An exception leaves connect: exec_command's handler runs inside the try with
\* the finally clause, the first connect does not.
Raise(e) ==
  /\ outcome' = e
  /\ stage' = IF retry THEN "finally" ELSE "idle"

\* connect on a cached connection that is active.
Reuse ==
  /\ stage = "connect"
  /\ existing[node] # NoConn /\ is_active(existing[node])
  /\ ssh' = existing[node]
  /\ stage' = Work
  /\ UNCHANGED <<envVars, cacheVars, callVars, attempts, retry, outcome, runs, trouble>>

\* Mutant: connect goes round without disconnecting first.
ReplaceForever ==
  /\ stage = "connect"
  /\ existing[node] # NoConn /\ ~is_active(existing[node])
  /\ ssh' = existing[node]
  /\ UNCHANGED <<envVars, cacheVars, stage, callVars, attempts, retry, outcome, runs, trouble>>

\* connect on a cached connection that is not: _reconnect, while attempts last.
Replace ==
  /\ stage = "connect"
  /\ existing[node] # NoConn /\ ~is_active(existing[node])
  /\ ssh' = existing[node]
  /\ IF attempts > 0
       THEN /\ Disconnect(node)
            /\ attempts' = attempts - 1
            /\ UNCHANGED <<stage, outcome>>
       ELSE /\ Raise("IOError")
            /\ UNCHANGED <<conns, existing, attempts>>
  /\ UNCHANGED <<envVars, dialled, callVars, retry, runs, trouble>>

\* connect without a cached connection: dial, and cache the new connection.
Dial ==
  /\ stage = "connect"
  /\ existing[node] = NoConn
  /\ reachable[node]
  /\ dialled' = dialled + 1
  /\ conns' = [conns EXCEPT ![dialled'] = "up"]
  /\ peer' = [peer EXCEPT ![dialled'] = node]
  /\ existing' = [existing EXCEPT ![node] = dialled']
  /\ ssh' = dialled'
  /\ stage' = Work
  /\ UNCHANGED <<reachable, callVars, attempts, retry, outcome, runs, trouble>>

\* The dial fails: SSHException and NoValidConnectionsError become IOError.
DialFails ==
  /\ stage = "connect"
  /\ existing[node] = NoConn
  /\ trouble' = TRUE
  /\ Raise("IOError")
  /\ UNCHANGED <<envVars, cacheVars, callVars, ssh, attempts, retry, runs>>

\* open_session succeeds on a connection whose peer is there.
OpenSession ==
  /\ stage \in {"open", "open_again"}
  /\ conns[ssh] = "up"
  /\ stage' = "run"
  /\ UNCHANGED <<envVars, cacheVars, callVars, ssh, attempts, retry, outcome, runs, trouble>>

\* Mutant: no reconnection when open_session raises.
OpenFailsOnce ==
  /\ stage = "open"
  /\ trouble' = (trouble \/ conns[ssh] = "up")
  /\ outcome' = "None"
  /\ stage' = "finally"
  /\ UNCHANGED <<envVars, cacheVars, callVars, ssh, attempts, retry, runs>>

\* open_session raises: _reconnect() and try once more.
OpenFails ==
  /\ stage = "open"
  /\ trouble' = (trouble \/ conns[ssh] = "up")
  /\ Disconnect(node)
  /\ retry' = TRUE
  /\ attempts' = 0
  /\ stage' = "connect"
  /\ UNCHANGED <<envVars, dialled, callVars, ssh, outcome, runs>>

\* The second open_session raises: exec_cmd answers (None, None, None).
OpenFailsAgain ==
  /\ stage = "open_again"
  /\ trouble' = TRUE
  /\ outcome' = "None"
  /\ stage' = "finally"
  /\ UNCHANGED <<envVars, cacheVars, callVars, ssh, attempts, retry, runs>>

\* Mutant: a command that timed out is tried again.
RunAgain(answer) ==
  /\ stage = "run"
  /\ answer = "None" => conns[ssh] # "up"
  /\ runs' = runs + 1
  /\ outcome' = answer
  /\ stage' = IF answer = "SSHTimeout" /\ runs = 0 THEN "run" ELSE "finally"
  /\ UNCHANGED <<envVars, cacheVars, callVars, ssh, attempts, retry, trouble>>

\* The command is started and answered: a result, an SSHTimeout, or an error.
Run(answer) ==
  /\ stage = "run"
  /\ answer = "None" => conns[ssh] # "up"
  /\ runs' = runs + 1
  /\ outcome' = answer
  /\ stage' = "finally"
  /\ UNCHANGED <<envVars, cacheVars, callVars, ssh, attempts, retry, trouble>>

\* SCP over the connection: done, SCPException, or, when no channel can be
\* opened, an SSHException that scp_node does not catch.
Scp(answer) ==
  /\ stage = "scp"
  /\ answer \in {"result", "RuntimeError"} => conns[ssh] = "up"
  /\ outcome' = answer
  /\ stage' = "finally"
  /\ UNCHANGED <<envVars, cacheVars, callVars, ssh, attempts, retry, runs, trouble>>

\* Mutant: the disconnect is made on success only.
FinallyOnSuccess ==
  /\ stage = "finally"
  /\ IF disc /\ outcome = "result" THEN Disconnect(node) ELSE UNCHANGED <<conns, existing>>
  /\ stage' = "idle"
  /\ UNCHANGED <<envVars, dialled, callVars, ssh, attempts, retry, outcome, runs, trouble>>

\* finally: if disconnect: ssh.disconnect().
Finally ==
  /\ stage = "finally"
  /\ IF disc THEN Disconnect(node) ELSE UNCHANGED <<conns, existing>>
  /\ stage' = "idle"
  /\ UNCHANGED <<envVars, dialled, callVars, ssh, attempts, retry, outcome, runs, trouble>>

CallSteps ==
  \/ Reuse \/ Replace \/ Dial \/ DialFails
  \/ OpenSession \/ OpenFails \/ OpenFailsAgain
  \/ \E a \in {"result", "SSHTimeout", "None"} : Run(a)
  \/ \E a \in {"result", "RuntimeError", "SSHException"} : Scp(a)
  \/ Finally

SshNext ==
  \/ \E n \in Nodes : NodeDown(n) \/ NodeUp(n)
  \/ \E c \in Conns : KeepaliveFails(c)
  \/ \E n \in Nodes, o \in {"exec", "scp"}, d \in BOOLEAN : Call(n, o, d)
  \/ CallSteps

SshSpec == SshInit /\ [][SshNext]_sshVars

\* The calling thread runs; a command's run ends (ExecCommand's CallEnds).
SshFairSpec == SshSpec /\ WF_sshVars(CallSteps)

-------------------------------------------------------------------------------
(* Properties. *)

Outcomes == {"none", "result", "SSHTimeout", "None", "IOError", "RuntimeError", "SSHException"}

\* Type correctness.
SshTypeOK ==
  /\ reachable \in [Nodes -> BOOLEAN]
  /\ conns \in [Conns -> Open \cup {"unused", "closed"}]
  /\ peer \in [Conns -> Nodes]
  /\ dialled \in 0..MaxConns
  /\ existing \in [Nodes -> Conns \cup {NoConn}]
  /\ stage \in {"idle", "connect", "open", "open_again", "run", "scp", "finally"}
  /\ op \in {"exec", "scp"}
  /\ node \in Nodes
  /\ ssh \in Conns \cup {NoConn}
  /\ attempts \in Nat
  /\ retry \in BOOLEAN /\ disc \in BOOLEAN /\ trouble \in BOOLEAN
  /\ outcome \in Outcomes
  /\ runs \in Nat

\* A cached connection belongs to its node and was never closed: connect calls
\* get_transport().is_active() on it unguarded (ssh.py:75-76).
CacheSound ==
  \A n \in Nodes : existing[n] # NoConn =>
    /\ peer[existing[n]] = n
    /\ conns[existing[n]] \in Open

\* No connection is left open outside the cache, so a node has at most one,
\* whatever fails in connect, reconnect and exec_command (ssh.py:113-142).
NoLeak ==
  \A c \in Conns : conns[c] \in Open => existing[peer[c]] = c

\* The command is started at most once per call: the retry of exec_command comes
\* before the request, never after it (ssh.py:162-174).
AtMostOnce == runs <= 1

\* A call works on the connection that is in the cache for its node (ssh.py:74,100).
WorksOnCached ==
  stage \in {"open", "open_again", "run", "scp"} => ssh # NoConn /\ ssh = existing[node]

\* A connection that had already gone bad when the call began does not fail an
\* exec_cmd on a node that is there (ssh.py:79-80, 165-167).
SurvivesStale ==
  stage = "idle" /\ op = "exec" /\ outcome # "none" /\ ~trouble =>
    outcome \in {"result", "SSHTimeout"}

\* After a call with disconnect=True the node has no connection, however the call
\* ended (ssh.py:463-465, 511-513).
DisconnectHonoured ==
  stage = "idle" /\ disc /\ outcome # "none" =>
    /\ existing[node] = NoConn
    /\ \A c \in Conns : peer[c] = node => conns[c] \notin Open

\* Every call ends.
CallReturns == stage # "idle" ~> stage = "idle"

-------------------------------------------------------------------------------
(* The inductive invariant behind the safety properties. *)

\* Connection objects are numbered in the order in which they are dialled.
Numbered == \A c \in Conns : c > dialled => conns[c] = "unused"

\* A call dials at most twice, so the bound on connections is never met inside one.
Budget ==
  /\ stage = "connect" /\ ~retry => dialled + 2 <= MaxConns
  /\ stage = "connect" /\ retry => dialled + 1 <= MaxConns
  /\ stage = "open" => dialled + 1 <= MaxConns /\ ~retry

\* connect meets a cached connection only with attempts in hand: the branch that
\* raises "Cannot connect" for want of attempts (ssh.py:81-82) is never taken.
AttemptsInHand ==
  stage = "connect" /\ existing[node] # NoConn => ~retry /\ attempts > 0

NotYetRun == stage \in {"connect", "open", "open_again", "run", "scp"} => runs = 0

SshInv ==
  /\ SshTypeOK /\ CacheSound /\ NoLeak /\ AtMostOnce /\ WorksOnCached
  /\ DisconnectHonoured
  /\ Numbered /\ Budget /\ AttemptsInHand /\ NotYetRun

\* While nothing has failed during an exec_cmd, its command runs on a connection whose
\* peer is there, and so has an answer.
Untroubled ==
  /\ stage = "scp" => op = "scp"
  /\ op = "exec" /\ ~trouble /\ stage = "run" => conns[ssh] = "up"
  /\ op = "exec" /\ ~trouble /\ stage = "finally" => outcome \in {"result", "SSHTimeout"}

===============================================================================
