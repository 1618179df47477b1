-------------------------------- MODULE GuestWork --------------------------------
(*****************************************************************************)
(* The workloads that the verification keywords of pal.py run in the guests  *)
(* (guest.py): ping, iperf, netperf and file transfers, the servers, clients *)
(* and files they leave behind, and what the test is told of a failure.      *)
(*                                                                           *)
(* The pairs come from a verify topology (VerifyTopology).  The programs and *)
(* the network are external: a path is open, closed or lossy, and only       *)
(* changes between keywords.  A command that times out leaves its client     *)
(* running in the guest.                                                     *)
(*****************************************************************************)
EXTENDS Naturals, Sequences

CONSTANTS
  Guests,     \* the guests
  Plans,      \* verify topologies: the pairs that get_deps drives, of allow and of deny
  MaxCalls,   \* bound: keywords called
  MaxFaults   \* bound: commands that hang or cannot be executed

Links == {l \in Guests \X Guests : l[1] # l[2]}

\* The ends of a link: the guest that runs the client and the one that serves it.
ASSUME GuestWorkAssumption ==
  /\ Plans \subseteq [allow : Seq(Links), deny : Seq(Links)]
  /\ MaxCalls \in Nat /\ MaxFaults \in Nat

VARIABLES
  path,     \* of each link
  servers,  \* the servers that run in each guest
  clients,  \* iperf clients left by commands that timed out; "on": connected
  files,    \* tfile, tfile_local and /tmp/tfile_remote of each guest, 0 when absent
  content,  \* what dd wrote last
  todo,     \* the workloads that the keyword has still to run, the first of them in progress
  pos,      \* the next command of that workload
  told,     \* what the workload logged, and the result it gets
  full,     \* everything the workload sent has arrived
  over,     \* the workload that ended last
  calls, faults

vars == <<path, servers, clients, files, content, todo, pos, told, full, over, calls, faults>>

Cnt == 5                   \* echo requests of a ping
NoFiles == [tfile |-> 0, local |-> 0, remote |-> 0]
Prog(kind) == IF kind = "netperf" THEN "netserver" ELSE "iperf3"
NoWork == [exp_fail |-> FALSE, told |-> {}, full |-> TRUE, how |-> "none", link |-> "open",
           alone |-> TRUE, faulty |-> FALSE]

Init ==
  /\ path = [l \in Links |-> "open"]
  /\ servers = [g \in Guests |-> {}]
  /\ clients = {}
  /\ files = [g \in Guests |-> NoFiles]
  /\ content = 0
  /\ todo = <<>> /\ pos = 1
  /\ told = {} /\ full = TRUE
  /\ over = NoWork
  /\ calls = 0 /\ faults = 0

-------------------------------------------------------------------------------
(* Keywords. *)

\* A workload knows how the keyword that runs it started.
Work(kind, l, exp_fail) == [kind |-> kind, c |-> l[1], s |-> l[2], exp_fail |-> exp_fail,
                            alone |-> clients = {}, from |-> faults]

Each(kinds, links, exp_fail) ==
  [i \in 1..(Len(kinds) * Len(links)) |->
     Work(kinds[((i - 1) % Len(kinds)) + 1], links[((i - 1) \div Len(kinds)) + 1], exp_fail)]

\* The allowed pairs of a verify topology are driven first.
AllowAndDeny(kind, plan) == Each(<<kind>>, plan.allow, FALSE) \o Each(<<kind>>, plan.deny, TRUE)

Call(works) ==
  /\ todo = <<>> /\ calls < MaxCalls
  /\ calls' = calls + 1
  /\ todo' = works /\ pos' = 1 /\ told' = {} /\ full' = TRUE
  /\ UNCHANGED <<path, servers, clients, files, content, over, faults>>

\* A workload runs on each pair over IPv4 and then IPv6, which are one here.  Performance
\* tests and file transfers leave the denied pairs out.
execute_ping_verification(plan) == Call(AllowAndDeny("ping", plan))
execute_iperf_verification(plan, proto) == Call(AllowAndDeny(proto, plan))
execute_performance_test(plan) == Call(Each(<<"tcp", "netperf">>, plan.allow, FALSE))
TransferFiles(plan) == Call(Each(<<"file">>, plan.allow, FALSE))

\* Between keywords, ACLs, overlays and ports change.
PathChanges(l, p) ==
  /\ todo = <<>> /\ calls < MaxCalls
  /\ path' = [path EXCEPT ![l] = p]
  /\ UNCHANGED <<servers, clients, files, content, todo, pos, told, full, over, calls, faults>>

-------------------------------------------------------------------------------
(* Commands of the workload in progress. *)

W == todo[1]
Link == path[<<W.c, W.s>>]
Doing(kinds, n) == todo # <<>> /\ W.kind \in kinds /\ pos = n
Step == pos' = pos + 1 /\ UNCHANGED <<todo, over>>

\* The workload is over; the keyword goes on with the next, or ends with an exception.
Finish(how, t, f) ==
  /\ over' = [exp_fail |-> W.exp_fail, told |-> t,
              full |-> f, how |-> how, link |-> Link, alone |-> W.alone, faulty |-> faults' # W.from]
  /\ todo' = IF how = "returned" THEN Tail(todo) ELSE <<>>
  /\ pos' = 1 /\ told' = {} /\ full' = TRUE

\* What becomes of a command: it ran, it timed out, or the connection broke and exec_cmd
\* answered None.
Answers == {"ran", "timeout", "broken"}
Fault == faults < MaxFaults /\ faults' = faults + 1
Answer(ans) == IF ans = "ran" THEN UNCHANGED faults ELSE Fault

\* Mutant: a command that should have failed and did not is not reported.
ExecuteLenient(ok, exp_fail) == IF ~ok /\ ~exp_fail THEN {"error"} ELSE {}

\* Guest.execute: an error is logged when the outcome is not the expected one.  A command
\* that timed out, or whose connection broke, has failed.
Execute(ok, exp_fail) == IF ok = exp_fail THEN {"error"} ELSE {}

\* _verify_ping_result, whose answer _exec_ping drops: a warning is all.
VerifyPing(r) == IF r < Cnt THEN {"warn"} ELSE {}

\* ping succeeds with one reply; the three sizes are commands 1 to 3.
Replies == CASE Link = "open" -> {Cnt} [] Link = "closed" -> {0} [] OTHER -> {0, 1, Cnt}

\* _exec_ping.  Without an output there is no summary to search: a TypeError.
Ping(r, ans) ==
  /\ todo # <<>> /\ W.kind = "ping"
  /\ Answer(ans) /\ r \in (IF ans = "ran" THEN Replies ELSE {0})
  /\ LET t == told \cup Execute(r > 0, W.exp_fail) \cup (IF W.exp_fail THEN {} ELSE VerifyPing(r))
         f == full /\ r = Cnt
     IN  CASE ans = "broken" /\ ~W.exp_fail -> Finish("raised", t, f)
           [] pos = 3                       -> Finish("returned", t, f)
           [] OTHER                         -> Step /\ told' = t /\ full' = f
  /\ UNCHANGED <<path, servers, clients, files, content, calls>>

Served == {"tcp", "udp", "netperf"}

\* start_iperf_server, start_netperf_server.  One that already runs makes netserver fail,
\* while iperf3 -D has left for the background before it finds out.
StartServer(ans) ==
  /\ Doing(Served, 1)
  /\ Answer(ans)
  /\ servers' = IF ans = "ran" THEN [servers EXCEPT ![W.s] = @ \cup {Prog(W.kind)}] ELSE servers
  /\ LET alreadyOn == W.kind = "netperf" /\ "netserver" \in servers[W.s]
     IN  told' = told \cup Execute(ans = "ran" /\ ~alreadyOn, FALSE)
  /\ Step
  /\ UNCHANGED <<path, clients, files, content, full, calls>>

\* iperf3 serves one client at a time.
Busy(g) == \E c \in clients : c.to = g /\ c.on
Serving == Prog(W.kind) \in servers[W.s] /\ (W.kind # "netperf" => ~Busy(W.s))

\* What becomes of a client: everything, something or nothing arrived, or it failed.
Outcomes ==
  CASE Link = "closed" \/ ~Serving -> {"failed"}
    [] Link = "open"               -> {"all"}
    [] OTHER                       -> {"all", "some", "none", "failed"}

\* _verify_iperf_result, _verify_iperf_udp_result and _process_netperf_result: a warning,
\* a result that is less than it was or zero.  A netperf that fails is not parsed.
VerifyRun(arrived) ==
  CASE arrived = "all"  -> {}
    [] arrived = "failed" /\ W.kind = "netperf" -> {"failed"}
    [] arrived = "some" -> IF W.kind = "tcp" THEN {"warn", "less"} ELSE {"less"}
    [] OTHER            -> IF W.kind = "udp" THEN {"zero"} ELSE {"warn", "zero"}

\* _run_iperf_client, _run_netperf_client.  A client whose packets are dropped may still be
\* at it when the timeout strikes, and goes on in the guest.
RunClient(arrived, ans) ==
  /\ Doing(Served, 2)
  /\ IF ans = "timeout" /\ Link = "closed" THEN UNCHANGED faults ELSE Answer(ans)
  /\ arrived \in (IF ans = "ran" THEN Outcomes ELSE {"failed"})
  /\ LET ok == arrived # "failed"
         v == IF W.exp_fail THEN {} ELSE VerifyRun(arrived)
     IN  /\ told' = told \cup Execute(ok, W.exp_fail) \cup v
         /\ full' = (full /\ arrived = "all")
         /\ clients' = IF ans = "timeout" /\ W.kind # "netperf"
                       THEN clients \cup {[at |-> W.c, to |-> W.s, on |-> FALSE]} ELSE clients
  /\ Step
  /\ UNCHANGED <<path, servers, files, content, calls>>

\* The end of the workload; only execute_netperf raises, its client having failed.
Conclude ==
  Finish(IF W.kind = "netperf" /\ "failed" \in told THEN "raised" ELSE "returned", told, full)

\* kill_process: the server, and clients of that name in the same guest; whoever was
\* connected to the server goes too.
Killed == /\ servers' = [servers EXCEPT ![W.s] = @ \ {Prog(W.kind)}]
          /\ clients' = IF W.kind = "netperf" THEN clients
                        ELSE {c \in clients : c.at # W.s /\ ~(c.to = W.s /\ c.on)}

\* Mutant: a netperf that failed raises before its server is stopped.
StopServerOnSuccess(ans) ==
  /\ Doing(Served, 3)
  /\ Answer(ans)
  /\ IF W.kind = "netperf" /\ "failed" \in told THEN UNCHANGED <<servers, clients>> ELSE Killed
  /\ Conclude
  /\ UNCHANGED <<path, files, content, calls>>

\* stop_iperf_server, stop_netperf_server.  A timeout is an exception here, and a broken
\* connection goes unnoticed.
StopServer(ans) ==
  /\ Doing(Served, 3)
  /\ Answer(ans)
  /\ IF ans = "ran" THEN Killed ELSE UNCHANGED <<servers, clients>>
  /\ IF ans = "timeout" THEN Finish("raised", told, full) ELSE Conclude
  /\ UNCHANGED <<path, files, content, calls>>

\* Mutant: a test file that is still there is used again.
GenerateFileOnce(ans) ==
  /\ Doing({"file"}, 1)
  /\ Answer(ans)
  /\ content' = content + 1
  /\ files' = IF ans = "ran" /\ files[W.c].tfile = 0
              THEN [files EXCEPT ![W.c].tfile = content'] ELSE files
  /\ told' = told \cup Execute(ans = "ran", FALSE)
  /\ Step
  /\ UNCHANGED <<path, servers, clients, full, calls>>

\* execute_tftp and execute_ftp.  _generate_file: random content.
GenerateFile(ans) ==
  /\ Doing({"file"}, 1)
  /\ Answer(ans)
  /\ content' = content + 1
  /\ files' = IF ans = "ran" THEN [files EXCEPT ![W.c].tfile = content'] ELSE files
  /\ told' = told \cup Execute(ans = "ran", FALSE)
  /\ Step
  /\ UNCHANGED <<path, servers, clients, full, calls>>

\* A transfer cannot work without a path or a file.  A client may fail without saying so.
Transfer(there, done, silent, ans) ==
  /\ Answer(ans)
  /\ done => ans = "ran" /\ Link # "closed" /\ there
  /\ ~done /\ ans = "ran" => Link # "open" \/ ~there
  /\ silent => ~done /\ ans = "ran"
  /\ told' = told \cup Execute(done \/ silent, FALSE)
  /\ full' = (full /\ done)
  /\ Step
  /\ UNCHANGED <<path, servers, clients, content, calls>>

Put(done, silent, ans) ==
  /\ Doing({"file"}, 2)
  /\ Transfer(files[W.c].tfile # 0, done, silent, ans)
  /\ files' = IF done THEN [files EXCEPT ![W.s].remote = files[W.c].tfile] ELSE files

Get(done, silent, ans) ==
  /\ Doing({"file"}, 3)
  /\ Transfer(files[W.s].remote # 0, done, silent, ans)
  /\ files' = IF done THEN [files EXCEPT ![W.c].local = files[W.s].remote] ELSE files

\* _compare_files
CompareFiles(ans) ==
  /\ Doing({"file"}, 4)
  /\ Answer(ans)
  /\ LET f == files[W.c]
     IN  told' = told \cup Execute(ans = "ran" /\ f.tfile = f.local /\ f.tfile # 0, FALSE)
  /\ Step
  /\ UNCHANGED <<path, servers, clients, files, content, full, calls>>

\* What rm_file is called for, at the end of a transfer: a file, and its guest.
Removed == <<<<"tfile", W.c>>, <<"local", W.c>>, <<"remote", W.s>>>>

RemoveFile(ans) ==
  /\ todo # <<>> /\ W.kind = "file" /\ pos \in 5..7
  /\ Answer(ans)
  /\ LET f == Removed[pos - 4][1]
         g == Removed[pos - 4][2]
         t == told \cup Execute(ans = "ran" /\ files[g][f] # 0, FALSE)
     IN  /\ files' = IF ans = "ran" THEN [files EXCEPT ![g][f] = 0] ELSE files
         /\ IF pos = 7 THEN Finish("returned", t, full) ELSE Step /\ told' = t /\ UNCHANGED full
  /\ UNCHANGED <<path, servers, clients, content, calls>>

\* The guest cannot be dialled: the keyword ends where it stands.
RaiseIOError ==
  /\ todo # <<>> /\ Fault
  /\ Finish("raised", told, full)
  /\ UNCHANGED <<path, servers, clients, files, content, calls>>

-------------------------------------------------------------------------------
(* Clients that were left (external). *)

Connect(c) ==
  /\ ~c.on /\ "iperf3" \in servers[c.to] /\ path[<<c.at, c.to>>] # "closed" /\ ~Busy(c.to)
  /\ clients' = (clients \ {c}) \cup {[c EXCEPT !.on = TRUE]}
  /\ UNCHANGED <<path, servers, files, content, todo, pos, told, full, over, calls, faults>>

GiveUp(c) ==
  /\ clients' = clients \ {c}
  /\ UNCHANGED <<path, servers, files, content, todo, pos, told, full, over, calls, faults>>

Command(ans) ==
  \/ \E r \in {0, 1, Cnt} : Ping(r, ans)
  \/ \E arrived \in {"all", "some", "none", "failed"} : RunClient(arrived, ans)
  \/ \E done, silent \in BOOLEAN : Put(done, silent, ans) \/ Get(done, silent, ans)
  \/ StartServer(ans) \/ StopServer(ans)
  \/ GenerateFile(ans) \/ CompareFiles(ans) \/ RemoveFile(ans)

Next ==
  \/ \E plan \in Plans :
       \/ execute_ping_verification(plan) \/ execute_performance_test(plan) \/ TransferFiles(plan)
       \/ \E proto \in {"tcp", "udp"} : execute_iperf_verification(plan, proto)
  \/ \E l \in Links, p \in {"open", "closed", "lossy"} : PathChanges(l, p)
  \/ \E ans \in Answers : Command(ans)
  \/ RaiseIOError
  \/ \E c \in clients : Connect(c) \/ GiveUp(c)

Spec == Init /\ [][Next]_vars

-------------------------------------------------------------------------------
(* Properties. *)

Kinds == {"ping", "tcp", "udp", "netperf", "file"}
Works == [kind : Kinds, c : Guests, s : Guests, exp_fail : BOOLEAN, alone : BOOLEAN, from : Nat]
Remarks == {"error", "warn", "less", "zero", "failed"}
Ended == [exp_fail : BOOLEAN, told : SUBSET Remarks, full : BOOLEAN,
          how : {"none", "returned", "raised"}, link : {"open", "closed", "lossy"},
          alone : BOOLEAN, faulty : BOOLEAN]

\* Type correctness.
TypeOK ==
  /\ path \in [Links -> {"open", "closed", "lossy"}]
  /\ servers \in [Guests -> SUBSET {"iperf3", "netserver"}]
  /\ clients \subseteq [at : Guests, to : Guests, on : BOOLEAN]
  /\ content \in Nat
  /\ files \in [Guests -> [tfile : 0..content, local : 0..content, remote : 0..content]]
  /\ todo \in Seq(Works)
  /\ todo # <<>> => pos \in 1..(IF W.kind = "file" THEN 7 ELSE 3)
  /\ told \subseteq Remarks /\ full \in BOOLEAN
  /\ over \in Ended
  /\ calls \in 0..MaxCalls /\ faults \in 0..MaxFaults

\* When a workload of an allowed pair ends without an error, a warning or a poor result,
\* everything it sent has arrived, whatever files, servers and clients earlier workloads
\* left behind (Guest.execute, _verify_*_result and _compare_files, guest.py).
ShownFailure ==
  over.how = "returned" /\ ~over.exp_fail /\ over.told = {} => over.full

\* When a workload of a denied pair ends without an error the path is not open, provided
\* no client was left by an earlier keyword and no command of this one went wrong.  Without
\* the provisos a left client that keeps the server busy passes for a denial
\* (exp_fail in Guest.execute, guest.py).
DenialIsReal ==
  over.how = "returned" /\ over.exp_fail /\ "error" \notin over.told /\ over.alone /\ ~over.faulty
    => over.link # "open"

\* No server survives its workload, one that raises included, when every command could be
\* executed (execute_iperf_ipv4, execute_netperf_ipv4, guest.py).
ServersStopped ==
  todo = <<>> /\ faults = 0 => \A g \in Guests : servers[g] = {}

-------------------------------------------------------------------------------
(* The inductive invariant. *)

\* The workloads ahead are between two guests, were planned in the past, and a transfer is
\* never expected to fail (execute_*_verification, pal.py).
Planned ==
  \A i \in DOMAIN todo :
    /\ <<todo[i].c, todo[i].s>> \in Links
    /\ todo[i].from <= faults
    /\ todo[i].kind = "file" => ~todo[i].exp_fail

\* The only server that may run is that of the workload in progress.
ServersInUse ==
  faults = 0 =>
    \A g \in Guests :
      servers[g] # {} =>
        /\ todo # <<>> /\ W.kind \in Served /\ pos \in {2, 3}
        /\ g = W.s /\ servers[g] = {Prog(W.kind)}

\* A ping or a client that has remarked on nothing has lost nothing.
SilentIsFull ==
  todo # <<>> /\ W.kind # "file" /\ ~W.exp_fail /\ told = {} => full

\* How far the content of this transfer has come, one command after the other: no copy of
\* it can be mistaken for one that an earlier transfer left behind.
FileTravels ==
  LET at(f, g) == files[g][f] = content
  IN  todo # <<>> /\ W.kind = "file" /\ told = {} =>
        /\ pos \in {1, 2} => full
        /\ pos \in {2, 3, 4} => at("tfile", W.c)
        /\ pos = 2 => ~at("remote", W.s)
        /\ pos \in {2, 3} => ~at("local", W.c)
        /\ pos = 3 => (full <=> at("remote", W.s))
        /\ pos = 4 => (full <=> at("local", W.c))
        /\ pos > 4 => full

\* The clients that a keyword leaves behind itself, all commands having run, cannot connect:
\* it was the closed path that made them time out.
OwnClientsShut ==
  \A i \in DOMAIN todo : todo[i].alone /\ faults = todo[i].from =>
    \A c \in clients : ~c.on /\ path[<<c.at, c.to>>] = "closed"

\* The client of a workload finds its server, and fails without it only for the path.
ClientIsServed ==
  todo # <<>> /\ W.kind \in Served /\ faults = W.from =>
    /\ pos = 2 => Prog(W.kind) \in servers[W.s]
    /\ pos = 3 /\ W.exp_fail /\ "error" \notin told /\ W.alone => Link # "open"

GuestInv ==
  /\ TypeOK /\ Planned /\ ServersInUse /\ SilentIsFull /\ FileTravels /\ OwnClientsShut
  /\ ClientIsServed
  /\ ShownFailure /\ DenialIsReal

===============================================================================
