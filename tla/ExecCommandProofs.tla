--------------------------- MODULE ExecCommandProofs ---------------------------
(*****************************************************************************)
(* Theorems about ExecCommand, for every number of chunks, every window and  *)
(* pipe size, with or without a timeout, a failing link or detached children,*)
(* and about Ssh, for every set of nodes and number of connections.          *)
(*****************************************************************************)
EXTENDS ExecCommand, Ssh, TLAPS

\* The initial state satisfies the inductive invariant.
LEMMA InitInv == Init => ExecInv
<1> SUFFICES ASSUME Init PROVE ExecInv
  OBVIOUS
<1>1. TypeOK
  <2>1. exitAt \in [out : Nat, err : Nat, eof : BOOLEAN]
    BY DEF Init
  <2>2. open \in BOOLEAN /\ lost \in BOOLEAN /\ expired \in BOOLEAN
    BY DEF Init
  <2> QED
    BY <2>1, <2>2 DEF Init, TypeOK
<1>2. StagesInOrder
  BY DEF Init, StagesInOrder
<1>3. EndMarkers /\ DrainProgress /\ StatusSource
  BY DEF Init, EndMarkers, DrainProgress, StatusSource, Draining
<1> QED
  BY <1>1, <1>2, <1>3 DEF ExecInv

\* The steps of the remote command and of sshd preserve the invariant.
LEMMA RemoteInv ==
  ASSUME ExecInv,
         \/ \E s \in Streams : Write(s) \/ SendChunk(s)
         \/ CloseStreams \/ Exit \/ Killed \/ SendEof \/ SendClose
  PROVE  ExecInv'
<1> USE DEF ExecInv, TypeOK, StagesInOrder, EndMarkers, DrainProgress,
            StatusSource, Streams, clientVars, Draining
<1>1. ASSUME NEW s \in Streams, Write(s) PROVE ExecInv'
  BY <1>1 DEF Write
<1>2. ASSUME NEW s \in Streams, SendChunk(s) PROVE ExecInv'
  BY <1>2 DEF SendChunk, InFlight
<1>3. CASE CloseStreams
  <2>1. /\ Started /\ open /\ open' = FALSE
        /\ UNCHANGED <<written, sent, exit, exitAt, eof, close, arrived, lost, expired, clientVars>>
    BY <1>3 DEF CloseStreams
  <2>2. TypeOK'
    BY <2>1
  <2>3. StagesInOrder' /\ EndMarkers'
    BY <2>1
  <2>4. DrainProgress' /\ StatusSource'
    BY <2>1
  <2> QED
    BY <2>2, <2>3, <2>4
<1>4. CASE Exit
  BY <1>4 DEF Exit
<1>5. CASE Killed
  BY <1>5 DEF Killed
<1>6. CASE SendEof
  BY <1>6 DEF SendEof
<1>7. CASE SendClose
  BY <1>7 DEF SendClose
<1> QED
  BY <1>1, <1>2, <1>3, <1>4, <1>5, <1>6, <1>7

\* The steps of paramiko's thread, the link and the clock preserve the invariant.
LEMMA TransportInv ==
  ASSUME ExecInv,
         \/ \E s \in Streams : ArriveChunk(s)
         \/ ArriveExit \/ ArriveEof \/ ArriveClose \/ LoseLink \/ Expire
  PROVE  ExecInv'
<1> USE DEF ExecInv, TypeOK, StagesInOrder, EndMarkers, DrainProgress,
            StatusSource, Streams, clientVars, remoteVars, Draining
<1>1. ASSUME NEW s \in Streams, ArriveChunk(s) PROVE ExecInv'
  BY <1>1 DEF ArriveChunk
<1>2. CASE ArriveExit
  BY <1>2 DEF ArriveExit
<1>3. CASE ArriveEof
  BY <1>3 DEF ArriveEof
<1>4. CASE ArriveClose
  BY <1>4 DEF ArriveClose
<1>5. CASE LoseLink
  BY <1>5 DEF LoseLink
<1>6. CASE Expire
  BY <1>6 DEF Expire
<1> QED
  BY <1>1, <1>2, <1>3, <1>4, <1>5, <1>6

\* The steps of exec_command itself preserve the invariant.
LEMMA ClientInv ==
  ASSUME ExecInv, Client
  PROVE  ExecInv'
<1> USE DEF ExecInv, TypeOK, StagesInOrder, EndMarkers, DrainProgress,
            StatusSource, Streams, remoteVars, Draining, Final, Goto, TakeAll
<1>1. CASE Request
  BY <1>1 DEF Request
<1>2. CASE PollExit
  BY <1>2 DEF PollExit
<1>3. CASE PollOut
  BY <1>3 DEF PollOut
<1>4. CASE PollErr
  BY <1>4 DEF PollErr
<1>5. CASE PollTime
  BY <1>5 DEF PollTime
<1>6. CASE RecvExitStatus
  BY <1>6 DEF RecvExitStatus, exit_status_ready, ChannelClosed
<1>7. CASE DrainOut
  BY <1>7 DEF DrainOut
<1>8. CASE DrainOutEnd
  BY <1>8 DEF DrainOutEnd, InputEnded, ChannelClosed
<1>9. CASE DrainErr
  BY <1>9 DEF DrainErr
<1> QED
  BY <1>1, <1>2, <1>3, <1>4, <1>5, <1>6, <1>7, <1>8, <1>9 DEF Client

\* ExecInv is inductive.
THEOREM Inductive == Spec => []ExecInv
<1>1. ExecInv /\ [Next]_vars => ExecInv'
  <2> SUFFICES ASSUME ExecInv, [Next]_vars PROVE ExecInv'
    OBVIOUS
  <2>1. CASE UNCHANGED vars
    BY <2>1 DEF vars, ExecInv, TypeOK, StagesInOrder, EndMarkers, DrainProgress,
                StatusSource
  <2>2. CASE Next
    BY <2>2, <2>1, RemoteInv, TransportInv, ClientInv DEF Next, Ended
  <2> QED
    BY <2>1, <2>2
<1> QED
  BY <1>1, InitInv, PTL DEF Spec

\* The type invariant holds in every reachable state.
THEOREM Typed == Spec => []TypeOK
<1>1. ExecInv => TypeOK
  BY DEF ExecInv
<1> QED
  BY <1>1, Inductive, PTL

\* A call that returns over a link that held has both streams complete.
THEOREM Complete == Spec => []FullOutput
<1>1. ExecInv => FullOutput
  <2> SUFFICES ASSUME ExecInv, pc = "returned", ~lost
               PROVE  ~open /\ taken = written
    BY DEF FullOutput
  <2>1. eof = "arrived" /\ taken["out"] = arrived["out"] /\ taken["err"] = arrived["err"]
    BY DEF ExecInv, DrainProgress
  <2>2. ~open /\ arrived = written
    BY <2>1 DEF ExecInv, EndMarkers
  <2> QED
    BY <2>1, <2>2 DEF ExecInv, TypeOK, Streams
<1> QED
  BY <1>1, Inductive, PTL

\* A return code is the command's own, or -1 for a signal or a lost link.
THEOREM Honest == Spec => []HonestStatus
<1>1. ExecInv => HonestStatus
  BY DEF ExecInv, StatusSource, HonestStatus
<1> QED
  BY <1>1, Inductive, PTL

\* Steps that a caller cannot see leave the abstract state alone.
LEMMA Invisible ==
  ASSUME UNCHANGED <<written, open, lost, ended, answer>>
  PROVE  UNCHANGED Promise!vars
  BY DEF Promise!vars

\* Until the call ends there is no answer.
LEMMA NoAnswerYet ==
  ASSUME Running
  PROVE  answer = Promise!NoAnswer
  BY DEF Running, Final, answer, Promise!NoAnswer, Promise!Answers, Promise!Nothing,
         Promise!Streams, Streams

\* exec_command implements RemoteCommand.
THEOREM Implements == Spec => KeepsPromise
<1>1. Init => Promise!Init
  <2> SUFFICES ASSUME Init PROVE Promise!Init
    OBVIOUS
  <2>1. Running
    BY DEF Init, Running, Final
  <2>2. answer = Promise!NoAnswer
    BY <2>1, NoAnswerYet
  <2>3. ended = "no"
    BY DEF Init, ended
  <2> QED
    BY <2>2, <2>3 DEF Init, Promise!Init, Promise!Nothing, Promise!Streams, Streams
<1>2. ExecInv /\ [Next]_vars => [Promise!Next]_(Promise!vars)
  <2> SUFFICES ASSUME ExecInv, [Next]_vars PROVE [Promise!Next]_(Promise!vars)
    OBVIOUS
  <2>1. ASSUME NEW s \in Streams, Write(s) PROVE Promise!Produce
    <3>1. answer = Promise!NoAnswer
      BY <2>1, NoAnswerYet DEF Write, Started
    <3>2. UNCHANGED <<open, lost, ended, answer>>
      BY <2>1 DEF Write, ended, answer, clientVars
    <3>3. open /\ UNCHANGED ~open
      BY <2>1, <3>2 DEF Write
    <3>4. \E t \in Promise!Streams : written' = [written EXCEPT ![t] = @ + 1]
      BY <2>1 DEF Write, Promise!Streams, Streams
    <3> QED
      BY <3>1, <3>2, <3>3, <3>4 DEF Promise!Produce
  <2>2. CASE CloseStreams
    <3>1. answer = Promise!NoAnswer
      BY <2>2, NoAnswerYet DEF CloseStreams, Started
    <3>2. UNCHANGED <<written, lost, ended, answer>>
      BY <2>2 DEF CloseStreams, ended, answer, clientVars
    <3>3. Promise!Close
      BY <2>2, <3>1, <3>2 DEF CloseStreams, Promise!Close
    <3> QED
      BY <3>3 DEF Promise!Next
  <2>3. CASE Exit \/ Killed
    <3>1. answer = Promise!NoAnswer
      BY <2>3, NoAnswerYet DEF Exit, Killed, Started
    <3>2. UNCHANGED <<written, lost, answer>>
      BY <2>3 DEF Exit, Killed, answer, clientVars
    <3>3. ended = "no" /\ ended' \in {"exited", "signalled"}
      BY <2>3 DEF Exit, Killed, ended
    <3>4. (~open)' \in {~open, TRUE}
      BY <2>3 DEF Exit, Killed, ExecInv, TypeOK
    <3>5. Promise!End
      BY <3>1, <3>2, <3>3, <3>4 DEF Promise!End
    <3> QED
      BY <3>5 DEF Promise!Next
  <2>4. CASE LoseLink
    <3>1. answer = Promise!NoAnswer
      BY <2>4, NoAnswerYet DEF LoseLink
    <3>2. UNCHANGED <<written, open, ended, answer>>
      BY <2>4 DEF LoseLink, ended, answer, clientVars, remoteVars
    <3>3. Promise!Break
      BY <2>4, <3>1, <3>2 DEF LoseLink, Promise!Break
    <3> QED
      BY <3>3 DEF Promise!Next
  <2>5. ASSUME NEW s \in Streams, SendChunk(s) \/ ArriveChunk(s)
        PROVE  UNCHANGED Promise!vars
    BY <2>5, Invisible DEF SendChunk, ArriveChunk, ended, answer, clientVars, remoteVars
  <2>6. CASE SendEof \/ SendClose \/ ArriveEof \/ ArriveClose \/ Expire \/ Ended
    BY <2>6, Invisible DEF SendEof, SendClose, ArriveEof, ArriveClose, Expire, Ended,
       ended, answer, clientVars, remoteVars, vars
  <2>7. CASE ArriveExit
    BY <2>7, Invisible DEF ArriveExit, ended, answer, clientVars
  <2>8. CASE PollExit \/ PollOut \/ PollErr \/ RecvExitStatus \/ DrainOut \/ DrainOutEnd
    BY <2>8, Invisible DEF PollExit, PollOut, PollErr, RecvExitStatus, DrainOut,
       DrainOutEnd, Goto, ended, answer, remoteVars
  <2>9. CASE Request \/ PollTime
    <3>1. CASE pc' = "poll"
      BY <2>9, <3>1, Invisible DEF Request, PollTime, Goto, ended, answer, remoteVars
    <3>2. CASE pc' # "poll"
      <4>1. answer = Promise!NoAnswer
        BY <2>9, NoAnswerYet DEF Request, PollTime, Goto, Running, Final
      <4>2. UNCHANGED <<written, open, lost, ended>>
        BY <2>9 DEF Request, PollTime, ended, remoteVars
      <4>3. \/ lost /\ answer' = Promise!Answers("error", "unset", Promise!Nothing)
            \/ answer' = Promise!Answers("timeout", "unset", Promise!Nothing)
        BY <2>9, <3>2 DEF Request, PollTime, Goto, answer, Promise!Answers,
           Promise!Nothing, Promise!Streams, Streams
      <4>4. Promise!Answer
        BY <4>1, <4>2, <4>3 DEF Promise!Answer, Promise!Truncated
      <4> QED
        BY <4>4 DEF Promise!Next
    <3> QED
      BY <3>1, <3>2
  <2>10. CASE DrainErr
    <3>1. answer = Promise!NoAnswer
      BY <2>10, NoAnswerYet DEF DrainErr, Goto, Running, Final
    <3>2. UNCHANGED <<written, open, lost, ended>>
      BY <2>10 DEF DrainErr, ended, remoteVars
    <3>3. answer' = Promise!Answers("result", rc, taken')
      BY <2>10 DEF DrainErr, Goto, answer, Promise!Answers
    <3>4. ExecInv'
      BY <2>10, ClientInv DEF Client
    <3>5. CASE lost
      <4>1. rc \in {"real", "-1"}
        BY <2>10, <3>4, <3>5 DEF DrainErr, Goto, ExecInv, DrainProgress, TypeOK, Draining
      <4>2. rc = "real" => ended = "exited"
        BY DEF ExecInv, StatusSource, ended
      <4>3. /\ taken'["out"] \in 0..written["out"]
            /\ taken'["err"] \in 0..written["err"]
        BY <3>2, <3>4 DEF ExecInv, TypeOK, StagesInOrder, Streams
      <4>4. taken' = [s \in Promise!Streams |->
                        IF s = "out" THEN taken'["out"] ELSE taken'["err"]]
        BY <3>4 DEF ExecInv, TypeOK, Streams, Promise!Streams
      <4>5. Promise!Truncated
        BY <3>3, <3>5, <4>1, <4>2, <4>3, <4>4 DEF Promise!Truncated
      <4> QED
        BY <3>1, <3>2, <4>5 DEF Promise!Answer, Promise!Next
    <3>6. CASE ~lost
      <4>1. ~open' /\ taken' = written'
        <5>1. pc' = "returned" /\ ~lost'
          BY <2>10, <3>2, <3>6 DEF DrainErr, Goto
        <5>2. eof' = "arrived" /\ taken'["out"] = arrived'["out"]
                               /\ taken'["err"] = arrived'["err"]
          BY <3>4, <5>1 DEF ExecInv, DrainProgress
        <5>3. ~open' /\ arrived' = written'
          BY <3>4, <5>2 DEF ExecInv, EndMarkers
        <5> QED
          BY <3>4, <5>2, <5>3 DEF ExecInv, TypeOK, Streams
      <4>2. ended # "no" /\ rc = Promise!Status(ended)
        BY <2>10, <3>6 DEF DrainErr, Goto, ExecInv, TypeOK, DrainProgress, StatusSource,
           Draining, ended, Promise!Status
      <4>3. Promise!Complete
        BY <3>2, <3>3, <3>6, <4>1, <4>2 DEF Promise!Complete
      <4> QED
        BY <3>1, <3>2, <4>3 DEF Promise!Answer, Promise!Next
    <3> QED
      BY <3>5, <3>6
  <2>11. CASE UNCHANGED vars
    BY <2>11, Invisible DEF vars, ended, answer
  <2> QED
    BY <2>1, <2>2, <2>3, <2>4, <2>5, <2>6, <2>7, <2>8, <2>9, <2>10, <2>11
       DEF Next, Client, Promise!Next
<1> QED
  BY <1>1, <1>2, Inductive, PTL DEF Spec, KeepsPromise, Promise!Spec

-------------------------------------------------------------------------------
(* The connection cache.                                                     *)

\* The initial state satisfies the inductive invariant.
LEMMA CacheInitInv ==
  ASSUME SshInit
  PROVE  SshInv
<1>1. SshTypeOK
  <2>1. retry \in BOOLEAN /\ disc \in BOOLEAN /\ trouble \in BOOLEAN
    BY DEF SshInit
  <2> QED
    BY <2>1, SshAssumption DEF SshInit, SshTypeOK, Open, Conns, NoConn, Outcomes
<1>2. CacheSound /\ NoLeak /\ Numbered
  BY DEF SshInit, CacheSound, NoLeak, Numbered, Open, NoConn
<1>3. WorksOnCached /\ DisconnectHonoured /\ AtMostOnce
  BY DEF SshInit, WorksOnCached, DisconnectHonoured, AtMostOnce
<1>4. Budget /\ AttemptsInHand /\ NotYetRun
  BY DEF SshInit, Budget, AttemptsInHand, NotYetRun
<1> QED
  BY <1>1, <1>2, <1>3, <1>4 DEF SshInv

\* Nodes coming and going and failing keepalives preserve the invariant.
LEMMA CacheEnvironmentInv ==
  ASSUME SshInv,
         \/ \E n \in Nodes : NodeDown(n) \/ NodeUp(n)
         \/ \E c \in Conns : KeepaliveFails(c)
  PROVE  SshInv'
<1> USE DEF SshInv, SshTypeOK, CacheSound, NoLeak, AtMostOnce, WorksOnCached,
            DisconnectHonoured, Numbered, Budget, AttemptsInHand, NotYetRun,
            Open, callVars, cacheVars, envVars
<1>1. ASSUME NEW n \in Nodes, NodeDown(n) PROVE SshInv'
  BY <1>1 DEF NodeDown, InCall
<1>2. ASSUME NEW n \in Nodes, NodeUp(n) PROVE SshInv'
  BY <1>2 DEF NodeUp
<1>3. ASSUME NEW c \in Conns, KeepaliveFails(c) PROVE SshInv'
  BY <1>3 DEF KeepaliveFails
<1> QED
  BY <1>1, <1>2, <1>3

\* disconnect keeps the cache exact and leaves its node without a connection.
LEMMA DisconnectLemma ==
  ASSUME SshTypeOK, CacheSound, NoLeak, Numbered,
         NEW n \in Nodes, Disconnect(n), UNCHANGED <<peer, dialled>>
  PROVE  /\ conns' \in [Conns -> Open \cup {"unused", "closed"}]
         /\ existing' \in [Nodes -> Conns \cup {NoConn}]
         /\ CacheSound' /\ NoLeak' /\ Numbered'
         /\ existing'[n] = NoConn
         /\ \A c \in Conns : peer[c] = n => conns'[c] \notin Open
<1> USE DEF SshTypeOK, Disconnect
<1>1. /\ conns' \in [Conns -> Open \cup {"unused", "closed"}]
      /\ existing' \in [Nodes -> Conns \cup {NoConn}]
      /\ existing'[n] = NoConn
  BY DEF Open
<1>2. CacheSound'
  BY DEF CacheSound, Open
<1>3. NoLeak'
  BY DEF NoLeak, CacheSound, Open
<1>4. Numbered'
  BY DEF Numbered, CacheSound, Open, Conns, NoConn
<1>5. \A c \in Conns : peer[c] = n => conns'[c] \notin Open
  BY DEF NoLeak, Open
<1> QED
  BY <1>1, <1>2, <1>3, <1>4, <1>5

\* The steps of a call preserve the invariant.
LEMMA CallInv ==
  ASSUME SshInv,
         \/ \E n \in Nodes, o \in {"exec", "scp"}, d \in BOOLEAN : Call(n, o, d)
         \/ CallSteps
  PROVE  SshInv'
<1> USE SshAssumption DEF SshInv, SshTypeOK, CacheSound, NoLeak, AtMostOnce, WorksOnCached,
            DisconnectHonoured, Numbered, Budget, AttemptsInHand, NotYetRun,
            Open, callVars, cacheVars, envVars, Conns, NoConn, Outcomes
<1>1. ASSUME NEW n \in Nodes, NEW o \in {"exec", "scp"}, NEW d \in BOOLEAN, Call(n, o, d)
      PROVE  SshInv'
  <2>1. SshTypeOK'
    <3>1. retry' \in BOOLEAN /\ disc' \in BOOLEAN /\ trouble' \in BOOLEAN
      BY <1>1 DEF Call
    <3> QED
      BY <1>1, <3>1 DEF Call
  <2>2. CacheSound' /\ NoLeak' /\ AtMostOnce' /\ WorksOnCached' /\ Numbered'
    BY <1>1 DEF Call
  <2>3. DisconnectHonoured' /\ Budget' /\ AttemptsInHand' /\ NotYetRun'
    BY <1>1 DEF Call
  <2> QED
    BY <2>1, <2>2, <2>3
<1>2. CASE Reuse
  BY <1>2 DEF Reuse, is_active, Work
<1>3. CASE Replace
  <2>1. attempts > 0 /\ ~retry
    BY <1>3 DEF Replace
  <2>2. /\ existing' = [existing EXCEPT ![node] = NoConn]
        /\ conns' = [c \in Conns |-> IF c = existing[node] THEN "closed" ELSE conns[c]]
        /\ ssh' = existing[node] /\ attempts' = attempts - 1
        /\ UNCHANGED <<reachable, peer, dialled, op, node, disc, stage, outcome, retry, runs, trouble>>
    BY <1>3, <2>1 DEF Replace, Disconnect
  <2>3. SshTypeOK'
    <3>1. conns' \in [Conns -> Open \cup {"unused", "closed"}]
      BY <2>2
    <3>2. existing' \in [Nodes -> Conns \cup {NoConn}] /\ ssh' \in Conns \cup {NoConn}
      BY <2>2
    <3> QED
      BY <2>1, <2>2, <3>1, <3>2
  <2>4. CacheSound'
    BY <2>2
  <2>5. NoLeak'
    BY <2>2
  <2>6. Numbered'
    BY <2>2
  <2>7. /\ AtMostOnce' /\ WorksOnCached' /\ DisconnectHonoured'
        /\ Budget' /\ AttemptsInHand' /\ NotYetRun'
    BY <1>3, <2>1 DEF Replace, Disconnect
  <2> QED
    BY <2>3, <2>4, <2>5, <2>6, <2>7
<1>4. CASE Dial
  BY <1>4 DEF Dial, Work
<1>5. CASE DialFails
  BY <1>5 DEF DialFails, Raise
<1>6. CASE OpenSession
  BY <1>6 DEF OpenSession
<1>7. CASE OpenFails
  BY <1>7 DEF OpenFails, Disconnect
<1>8. CASE OpenFailsAgain
  BY <1>8 DEF OpenFailsAgain
<1>9. ASSUME NEW a \in {"result", "SSHTimeout", "None"}, Run(a) PROVE SshInv'
  BY <1>9 DEF Run
<1>10. ASSUME NEW a \in {"result", "RuntimeError", "SSHException"}, Scp(a) PROVE SshInv'
  BY <1>10 DEF Scp
<1>11. CASE Finally
  <2>1. CASE disc
    <3>1. Disconnect(node) /\ UNCHANGED <<node, peer, dialled>>
      BY <1>11, <2>1 DEF Finally
    <3>2. /\ CacheSound' /\ NoLeak' /\ Numbered' /\ DisconnectHonoured'
          /\ conns' \in [Conns -> Open \cup {"unused", "closed"}]
          /\ existing' \in [Nodes -> Conns \cup {NoConn}]
      BY <3>1, DisconnectLemma
    <3> QED
      BY <1>11, <3>2 DEF Finally
  <2>2. CASE ~disc
    BY <1>11, <2>2 DEF Finally
  <2> QED
    BY <2>1, <2>2
<1> HIDE DEF SshInv
<1> QED
  BY <1>1, <1>2, <1>3, <1>4, <1>5, <1>6, <1>7, <1>8, <1>9, <1>10, <1>11 DEF CallSteps

\* SshInv is inductive.
THEOREM CacheInductive == SshSpec => []SshInv
<1>1. SshInv /\ [SshNext]_sshVars => SshInv'
  <2> SUFFICES ASSUME SshInv, [SshNext]_sshVars PROVE SshInv'
    OBVIOUS
  <2>1. CASE UNCHANGED sshVars
    BY <2>1 DEF sshVars, SshInv, SshTypeOK, CacheSound, NoLeak, AtMostOnce, WorksOnCached,
                DisconnectHonoured, Numbered, Budget, AttemptsInHand, NotYetRun
  <2>2. CASE SshNext
    BY <2>2, CacheEnvironmentInv, CallInv DEF SshNext
  <2> QED
    BY <2>1, <2>2
<1> QED
  BY <1>1, CacheInitInv, PTL DEF SshSpec

\* A cached connection belongs to its node and is open.
THEOREM CacheIsSound == SshSpec => []CacheSound
  BY CacheInductive, PTL DEF SshInv

\* No connection is open outside the cache.
THEOREM NothingLeaks == SshSpec => []NoLeak
  BY CacheInductive, PTL DEF SshInv

\* No call starts its command twice.
THEOREM NoSecondRun == SshSpec => []AtMostOnce
  BY CacheInductive, PTL DEF SshInv

\* disconnect=True leaves no connection behind, however the call ended.
THEOREM Disconnects == SshSpec => []DisconnectHonoured
  BY CacheInductive, PTL DEF SshInv

\* connect never runs out of attempts: its "Cannot connect" branch is dead.
THEOREM NeverOutOfAttempts == SshSpec => []AttemptsInHand
  BY CacheInductive, PTL DEF SshInv

\* What an exec_cmd without trouble relies on, step by step.
LEMMA UntroubledStep ==
  ASSUME SshInv, Untroubled, SurvivesStale, [SshNext]_sshVars
  PROVE  Untroubled' /\ SurvivesStale'
<1> USE DEF Untroubled, SurvivesStale
<1>1. /\ conns \in [Conns -> Open \cup {"unused", "closed"}] /\ trouble \in BOOLEAN
      /\ retry \in BOOLEAN /\ op \in {"exec", "scp"} /\ node \in Nodes
  BY DEF SshInv, SshTypeOK
<1>2. ASSUME NEW n \in Nodes, NodeDown(n) PROVE Untroubled' /\ SurvivesStale'
  <2>1. /\ UNCHANGED <<stage, op, ssh, outcome>>
        /\ trouble' = (trouble \/ (stage # "idle" /\ n = node))
        /\ conns' = [c \in Conns |-> IF peer[c] = n /\ conns[c] = "up" THEN "stale" ELSE conns[c]]
    BY <1>2 DEF NodeDown, InCall, callVars
  <2>2. CASE stage = "run" /\ n # node
    <3>1. ssh \in Conns /\ peer[ssh] = node
      BY <2>2 DEF SshInv, WorksOnCached, CacheSound, SshTypeOK, NoConn
    <3> QED
      BY <2>1, <2>2, <3>1
  <2>3. CASE stage # "run" \/ n = node
    BY <2>1, <2>3
  <2> QED
    BY <2>2, <2>3
<1>3. ASSUME NEW n \in Nodes, NodeUp(n) PROVE Untroubled' /\ SurvivesStale'
  BY <1>3 DEF NodeUp, callVars, cacheVars
<1>4. ASSUME NEW c \in Conns, KeepaliveFails(c) PROVE Untroubled' /\ SurvivesStale'
  <2>1. /\ UNCHANGED <<stage, op, ssh, outcome, trouble>> /\ conns[c] = "stale"
        /\ conns' = [conns EXCEPT ![c] = "dead"]
    BY <1>4 DEF KeepaliveFails, callVars
  <2>2. conns[ssh] = "up" => conns'[ssh] = conns[ssh]
    BY <1>1, <2>1
  <2> QED
    BY <2>1, <2>2
<1>5. ASSUME NEW n \in Nodes, NEW o \in {"exec", "scp"}, NEW d \in BOOLEAN, Call(n, o, d)
      PROVE  Untroubled' /\ SurvivesStale'
  BY <1>5 DEF Call
<1>6. CASE Reuse
  BY <1>1, <1>6 DEF Reuse, Work, callVars, cacheVars
<1>7. CASE Replace
  <2>1. attempts > 0
    BY <1>7 DEF Replace, SshInv, AttemptsInHand
  <2> QED
    BY <1>7, <2>1 DEF Replace, callVars
<1>8. CASE Dial
  BY <1>1, <1>8 DEF Dial, Work, callVars
<1>9. CASE DialFails
  BY <1>9 DEF DialFails, Raise, callVars
<1>10. CASE OpenSession
  BY <1>10 DEF OpenSession, callVars, cacheVars
<1>11. CASE OpenFails
  BY <1>11 DEF OpenFails, callVars
<1>12. CASE OpenFailsAgain
  BY <1>12 DEF OpenFailsAgain, callVars
<1>13. ASSUME NEW a \in {"result", "SSHTimeout", "None"}, Run(a)
       PROVE  Untroubled' /\ SurvivesStale'
  BY <1>13 DEF Run, callVars, cacheVars
<1>14. ASSUME NEW a \in {"result", "RuntimeError", "SSHException"}, Scp(a)
       PROVE  Untroubled' /\ SurvivesStale'
  BY <1>14 DEF Scp, callVars, cacheVars
<1>15. CASE Finally
  BY <1>15 DEF Finally, callVars
<1>16. CASE UNCHANGED sshVars
  BY <1>16 DEF sshVars
<1> HIDE DEF Untroubled, SurvivesStale
<1> QED
  BY <1>2, <1>3, <1>4, <1>5, <1>6, <1>7, <1>8, <1>9, <1>10, <1>11, <1>12, <1>13, <1>14, <1>15,
     <1>16 DEF SshNext, CallSteps

\* exec_cmd on a node that is there gets an answer, even when the connection in the
\* cache had gone bad before the call: it is replaced or the session opened anew.
THEOREM StaleSurvived == SshSpec => []SurvivesStale
<1>1. SshInit => Untroubled /\ SurvivesStale
  BY DEF SshInit, Untroubled, SurvivesStale
<1>2. SshInv /\ Untroubled /\ SurvivesStale /\ [SshNext]_sshVars => Untroubled' /\ SurvivesStale'
  BY UntroubledStep
<1> QED
  BY <1>1, <1>2, CacheInductive, PTL DEF SshSpec

===============================================================================
