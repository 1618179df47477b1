----------------------------- MODULE GuestWorkProofs -----------------------------
(*****************************************************************************)
(* Proofs about GuestWork: GuestInv is inductive, hence a workload that says *)
(* nothing has lost nothing, a denial is one of the path, and no server      *)
(* survives its workload, for any guests, verify topologies and bounds.      *)
(*****************************************************************************)
EXTENDS GuestWork, VerifyTopology, TLAPS

-------------------------------------------------------------------------------
(* What a keyword plans. *)

\* The workloads of a loop over the links of a topology: one for each link and each of its
\* one or two kinds.
LEMMA EachLemma ==
  ASSUME TypeOK, NEW kinds \in Seq(Kinds), Len(kinds) \in {1, 2},
         NEW links \in Seq(Links), NEW exp_fail \in BOOLEAN,
         exp_fail => \A k \in DOMAIN kinds : kinds[k] # "file"
  PROVE  /\ Each(kinds, links, exp_fail) \in Seq(Works)
         /\ \A i \in DOMAIN Each(kinds, links, exp_fail) :
              LET w == Each(kinds, links, exp_fail)[i]
              IN  /\ <<w.c, w.s>> \in Links
                  /\ w.from = faults /\ w.alone = (clients = {})
                  /\ w.kind = "file" => ~w.exp_fail
<1> DEFINE k == Len(kinds)
           n == Len(links)
           e == Each(kinds, links, exp_fail)
<1>1. k * n \in Nat
  <2>1. k \in Nat /\ n \in Nat
    OBVIOUS
  <2> QED
    BY <2>1
<1>2. ASSUME NEW i \in 1..(k * n)
      PROVE  /\ ((i - 1) % k) + 1 \in DOMAIN kinds
             /\ ((i - 1) \div k) + 1 \in DOMAIN links
  <2>1. CASE k = 1
    BY <2>1
  <2>2. CASE k = 2
    BY <2>2
  <2> QED
    BY <2>1, <2>2
<1>3. ASSUME NEW i \in 1..(k * n)
      PROVE  /\ e[i] \in Works
             /\ <<e[i].c, e[i].s>> \in Links
             /\ e[i].from = faults /\ e[i].alone = (clients = {})
             /\ e[i].kind = "file" => ~e[i].exp_fail
  <2> DEFINE a == ((i - 1) % k) + 1
             b == ((i - 1) \div k) + 1
  <2>1. a \in DOMAIN kinds /\ b \in DOMAIN links
    BY <1>2
  <2>2. PICK kd \in Kinds : kd = kinds[a]
    BY <2>1
  <2>3. PICK l \in Links : l = links[b]
    BY <2>1
  <2>4. l = <<l[1], l[2]>> /\ l[1] \in Guests /\ l[2] \in Guests
    BY DEF Links
  <2>5. e[i] = Work(kd, l, exp_fail)
    BY <2>2, <2>3 DEF Each
  <2>6. faults \in Nat
    BY DEF TypeOK
  <2>7. Work(kd, l, exp_fail) \in Works
    BY <2>4, <2>6 DEF Work, Works
  <2>8. kd = "file" => ~exp_fail
    BY <2>1, <2>2
  <2> QED
    BY <2>3, <2>4, <2>5, <2>7, <2>8, SMTT(30) DEF Work
<1>4. e = [i \in 1..(k * n) |-> e[i]] /\ DOMAIN e = 1..(k * n)
  BY DEF Each
<1>5. e \in Seq(Works)
  <2>1. e \in [1..(k * n) -> Works]
    BY <1>3, <1>4
  <2> QED
    BY <2>1, <1>1
<1> QED
  BY <1>3, <1>4, <1>5

\* Two sequences, one after the other.
LEMMA Concat ==
  ASSUME NEW S, NEW a \in Seq(S), NEW b \in Seq(S)
  PROVE  /\ a \o b \in Seq(S)
         /\ \A i \in DOMAIN (a \o b) :
              \/ i \in DOMAIN a /\ (a \o b)[i] = a[i]
              \/ i - Len(a) \in DOMAIN b /\ (a \o b)[i] = b[i - Len(a)]
OBVIOUS

\* A keyword that starts with such workloads keeps the invariant.
LEMMA CallInv ==
  ASSUME GuestInv, NEW works \in Seq(Works), Call(works),
         \A i \in DOMAIN works : /\ <<works[i].c, works[i].s>> \in Links
                                 /\ works[i].from = faults /\ works[i].alone = (clients = {})
                                 /\ works[i].kind = "file" => ~works[i].exp_fail
  PROVE  GuestInv'
<1> USE DEF GuestInv
<1>1. /\ todo' = works /\ pos' = 1 /\ told' = {} /\ full' = TRUE /\ todo = <<>>
      /\ UNCHANGED <<path, servers, clients, files, content, over, faults>>
  BY DEF Call
<1>2. faults \in Nat
  BY DEF TypeOK
<1>3. TypeOK'
  <2>1. calls' \in 0..MaxCalls
    BY GuestWorkAssumption DEF TypeOK, Call
  <2> QED
    BY <1>1, <2>1 DEF TypeOK, W
<1>4. Planned'
  BY <1>1, <1>2 DEF Planned
<1>5. ServersInUse'
  BY <1>1 DEF ServersInUse
<1>6. SilentIsFull' /\ FileTravels' /\ ClientIsServed'
  BY <1>1 DEF SilentIsFull, FileTravels, ClientIsServed
<1>7. OwnClientsShut'
  BY <1>1 DEF OwnClientsShut
<1>8. ShownFailure' /\ DenialIsReal'
  BY <1>1 DEF ShownFailure, DenialIsReal
<1> QED
  BY <1>3, <1>4, <1>5, <1>6, <1>7, <1>8

\* Every keyword of pal.py that drives workloads.
LEMMA KeywordInv ==
  ASSUME GuestInv, NEW plan \in Plans,
         \/ execute_ping_verification(plan) \/ execute_performance_test(plan) \/ TransferFiles(plan)
         \/ \E proto \in {"tcp", "udp"} : execute_iperf_verification(plan, proto)
  PROVE  GuestInv'
<1> DEFINE Ok(w) == /\ <<w.c, w.s>> \in Links
                    /\ w.from = faults /\ w.alone = (clients = {})
                    /\ w.kind = "file" => ~w.exp_fail
           Fine(works) == works \in Seq(Works) /\ \A i \in DOMAIN works : Ok(works[i])
<1>1. TypeOK /\ plan.allow \in Seq(Links) /\ plan.deny \in Seq(Links)
  BY GuestWorkAssumption DEF GuestInv
<1>2. ASSUME NEW kind \in Kinds, NEW links \in Seq(Links), NEW exp_fail \in BOOLEAN,
             exp_fail => kind # "file"
      PROVE  Fine(Each(<<kind>>, links, exp_fail))
  <2> HIDE DEF Ok, Fine
  <2>1. /\ <<kind>> \in Seq(Kinds) /\ Len(<<kind>>) \in {1, 2}
        /\ exp_fail => \A k \in DOMAIN <<kind>> : <<kind>>[k] # "file"
    BY <1>2
  <2>2. PICK e : e = Each(<<kind>>, links, exp_fail)
    OBVIOUS
  <2>3. e \in Seq(Works)
    BY <1>1, <1>2, <2>1, <2>2, EachLemma
  <2>4. ASSUME NEW i \in DOMAIN e PROVE Ok(e[i])
    <3>1. /\ <<e[i].c, e[i].s>> \in Links
          /\ e[i].from = faults /\ e[i].alone = (clients = {})
          /\ e[i].kind = "file" => ~e[i].exp_fail
      BY <1>1, <1>2, <2>1, <2>2, <2>4, EachLemma
    <3> QED
      BY <3>1 DEF Ok
  <2> QED
    BY <2>2, <2>3, <2>4 DEF Fine
<1>3. ASSUME NEW kind \in Kinds, kind # "file"
      PROVE  Fine(AllowAndDeny(kind, plan))
  <2> HIDE DEF Fine
  <2>0. Fine(Each(<<kind>>, plan.allow, FALSE)) /\ Fine(Each(<<kind>>, plan.deny, TRUE))
    BY <1>1, <1>2, <1>3
  <2>1. PICK a, b : /\ a = Each(<<kind>>, plan.allow, FALSE) /\ b = Each(<<kind>>, plan.deny, TRUE)
                    /\ AllowAndDeny(kind, plan) = a \o b /\ Fine(a) /\ Fine(b)
    BY <2>0 DEF AllowAndDeny
  <2> HIDE DEF Ok
  <2>2. a \in Seq(Works) /\ \A k \in DOMAIN a : Ok(a[k])
    BY <2>1 DEF Fine
  <2>3. b \in Seq(Works) /\ \A k \in DOMAIN b : Ok(b[k])
    BY <2>1 DEF Fine
  <2>4. /\ a \o b \in Seq(Works)
        /\ \A i \in DOMAIN (a \o b) :
             \/ i \in DOMAIN a /\ (a \o b)[i] = a[i]
             \/ i - Len(a) \in DOMAIN b /\ (a \o b)[i] = b[i - Len(a)]
    BY <2>2, <2>3, Concat
  <2>5. ASSUME NEW i \in DOMAIN (a \o b)
        PROVE  Ok((a \o b)[i])
    <3>1. CASE i \in DOMAIN a /\ (a \o b)[i] = a[i]
      BY <2>2, <3>1, Zenon
    <3>2. CASE i - Len(a) \in DOMAIN b /\ (a \o b)[i] = b[i - Len(a)]
      BY <2>3, <3>2, Zenon
    <3> QED
      BY <2>4, <3>1, <3>2
  <2>6. Fine(a \o b)
    BY <2>4, <2>5, Zenon DEF Fine
  <2> QED
    BY <2>1, <2>6
<1>4. CASE execute_ping_verification(plan)
  BY <1>3, <1>4, CallInv DEF execute_ping_verification, Kinds
<1>5. CASE execute_performance_test(plan)
  <2>1. <<"tcp", "netperf">> \in Seq(Kinds) /\ Len(<<"tcp", "netperf">>) \in {1, 2}
    BY DEF Kinds
  <2>2. Fine(Each(<<"tcp", "netperf">>, plan.allow, FALSE))
    BY <1>1, <2>1, EachLemma
  <2> QED
    BY <1>5, <2>2, CallInv DEF execute_performance_test
<1>6. CASE TransferFiles(plan)
  BY <1>1, <1>2, <1>6, CallInv DEF TransferFiles, Kinds
<1>7. ASSUME NEW proto \in {"tcp", "udp"}, execute_iperf_verification(plan, proto)
      PROVE  GuestInv'
  BY <1>3, <1>7, CallInv DEF execute_iperf_verification, Kinds
<1> QED
  BY <1>4, <1>5, <1>6, <1>7

-------------------------------------------------------------------------------
(* The workload in progress. *)

\* The first of the workloads ahead, and those behind it.
LEMMA Ahead ==
  ASSUME GuestInv, todo # <<>>
  PROVE  /\ 1 \in DOMAIN todo /\ W \in Works
         /\ W.c \in Guests /\ W.s \in Guests /\ <<W.c, W.s>> \in Links
         /\ Link \in {"open", "closed", "lossy"}
         /\ W.from \in Nat /\ W.from <= faults /\ faults \in Nat
         /\ Tail(todo) \in Seq(Works)
         /\ \A i \in DOMAIN Tail(todo) : i + 1 \in DOMAIN todo /\ Tail(todo)[i] = todo[i + 1]
<1>1. todo \in Seq(Works) /\ faults \in Nat /\ path \in [Links -> {"open", "closed", "lossy"}]
  BY DEF GuestInv, TypeOK
<1>2. 1 \in DOMAIN todo /\ W \in Works /\ Tail(todo) \in Seq(Works)
  BY <1>1 DEF W
<1>3. \A i \in DOMAIN Tail(todo) : i + 1 \in DOMAIN todo /\ Tail(todo)[i] = todo[i + 1]
  BY <1>1
<1>4. <<W.c, W.s>> \in Links /\ W.from <= faults
  BY <1>2 DEF GuestInv, Planned, W
<1>5. W.c \in Guests /\ W.s \in Guests /\ W.from \in Nat
  BY <1>2 DEF Works
<1> QED
  BY <1>1, <1>2, <1>3, <1>4, <1>5 DEF Link

\* No workload was planned after a fault that is still to come.
LEMMA Past ==
  ASSUME GuestInv
  PROVE  /\ faults \in Nat
         /\ \A i \in DOMAIN todo : todo[i].from \in Nat /\ todo[i].from <= faults
<1>1. ASSUME NEW w \in Works PROVE w.from \in Nat
  BY DEF Works
<1>2. todo \in Seq(Works) /\ faults \in Nat
  BY DEF GuestInv, TypeOK
<1>3. \A i \in DOMAIN todo : todo[i] \in Works
  BY <1>2
<1> QED
  BY <1>1, <1>2, <1>3 DEF GuestInv, Planned

\* A workload that ends keeps the invariant when it leaves no server behind and its verdict
\* is the one that ShownFailure and DenialIsReal ask for.
LEMMA Finishing ==
  ASSUME GuestInv, todo # <<>>,
         path' = path, calls' = calls, clients' \subseteq clients, faults' \in faults..MaxFaults,
         servers' \in [Guests -> SUBSET {"iperf3", "netserver"}],
         content' = content,
         files' \in [Guests -> [tfile : 0..content, local : 0..content, remote : 0..content]],
         faults' = 0 => \A g \in Guests : servers'[g] = {},
         NEW how \in {"returned", "raised"}, NEW t \in SUBSET Remarks, NEW f \in BOOLEAN,
         Finish(how, t, f),
         how = "returned" /\ ~W.exp_fail /\ t = {} => f,
         how = "returned" /\ W.exp_fail /\ "error" \notin t /\ W.alone /\ faults' = W.from
           => Link # "open"
  PROVE  GuestInv'
<1> USE DEF GuestInv
<1>1. /\ pos' = 1 /\ told' = {} /\ full' = TRUE
      /\ todo' = IF how = "returned" THEN Tail(todo) ELSE <<>>
      /\ over' = [exp_fail |-> W.exp_fail, told |-> t, full |-> f, how |-> how, link |-> Link,
                  alone |-> W.alone, faulty |-> faults' # W.from]
  BY DEF Finish
<1>2. /\ todo' \in Seq(Works)
      /\ \A j \in DOMAIN todo' : \E i \in DOMAIN todo : todo'[j] = todo[i]
  BY <1>1, Ahead
<1>3. over' \in Ended
  BY <1>1, Ahead DEF Ended, Works
<1>4. TypeOK'
  <2>1. /\ path' \in [Links -> {"open", "closed", "lossy"}] /\ content' \in Nat
        /\ files' \in [Guests -> [tfile : 0..content', local : 0..content', remote : 0..content']]
        /\ clients' \subseteq [at : Guests, to : Guests, on : BOOLEAN]
    BY DEF TypeOK
  <2>2. calls' \in 0..MaxCalls /\ faults' \in 0..MaxFaults
    BY GuestWorkAssumption DEF TypeOK
  <2>3. told' \subseteq Remarks /\ full' \in BOOLEAN
    BY <1>1
  <2>4. (todo # <<>> => pos \in 1..(IF W.kind = "file" THEN 7 ELSE 3))'
    <3>1. pos' = 1
      BY <1>1
    <3> QED
      BY <3>1
  <2>5. servers' \in [Guests -> SUBSET {"iperf3", "netserver"}]
    OBVIOUS
  <2> HIDE DEF GuestInv
  <2> QED
    BY <1>2, <1>3, <2>1, <2>2, <2>3, <2>4, <2>5 DEF TypeOK
<1>5. Planned'
  <2>1. \A i \in DOMAIN todo : todo[i].from \in Nat
    BY Past
  <2> QED
    BY <1>2, <2>1 DEF Planned, TypeOK
<1>6. ServersInUse'
  BY DEF ServersInUse
<1>7. SilentIsFull' /\ FileTravels' /\ ClientIsServed'
  BY <1>1 DEF SilentIsFull, FileTravels, ClientIsServed
<1>8. OwnClientsShut'
  <2> SUFFICES ASSUME NEW j \in DOMAIN todo', todo'[j].alone, faults' = todo'[j].from,
                      NEW c \in clients'
               PROVE  ~c.on /\ path[<<c.at, c.to>>] = "closed"
    BY DEF OwnClientsShut
  <2>1. PICK i \in DOMAIN todo : todo'[j] = todo[i]
    BY <1>2
  <2>2. faults = todo[i].from
    BY <2>1, Past
  <2> QED
    BY <2>1, <2>2 DEF OwnClientsShut
<1>9. ShownFailure' /\ DenialIsReal'
  BY <1>1 DEF ShownFailure, DenialIsReal
<1> QED
  BY <1>4, <1>5, <1>6, <1>7, <1>8, <1>9

\* A command in the middle of a workload keeps what it does not touch: it remains to be seen
\* that what the workload knows is right (the last three facts) and what it does to servers.
LEMMA Stepping ==
  ASSUME GuestInv, todo # <<>>, Step,
         pos + 1 <= IF W.kind = "file" THEN 7 ELSE 3,
         path' = path, calls' = calls, faults' \in faults..MaxFaults,
         clients' \subseteq [at : Guests, to : Guests, on : BOOLEAN],
         \A c \in clients' \ clients : (~c.on /\ path[<<c.at, c.to>>] = "closed") \/ faults' > faults,
         servers' \in [Guests -> SUBSET {"iperf3", "netserver"}],
         content' \in Nat,
         files' \in [Guests -> [tfile : 0..content', local : 0..content', remote : 0..content']],
         told' \subseteq Remarks, full' \in BOOLEAN,
         ServersInUse', SilentIsFull', FileTravels', ClientIsServed'
  PROVE  GuestInv'
<1> USE DEF GuestInv
<1>1. pos' = pos + 1 /\ todo' = todo /\ over' = over /\ W' = W
  BY DEF Step, W
<1>2. TypeOK'
  <2>1. pos' \in 1..(IF W.kind = "file" THEN 7 ELSE 3)
    BY <1>1 DEF TypeOK
  <2>2. faults' \in 0..MaxFaults
    BY Past
  <2> QED
    BY <1>1, <2>1, <2>2 DEF TypeOK
<1>3. Planned'
  <2>1. \A i \in DOMAIN todo : todo[i].from \in Nat
    BY Past
  <2> QED
    BY <1>1, <2>1, SMTT(30) DEF Planned, TypeOK
<1>4. OwnClientsShut'
  <2> SUFFICES ASSUME NEW i \in DOMAIN todo, todo[i].alone, faults' = todo[i].from,
                      NEW c \in clients'
               PROVE  ~c.on /\ path[<<c.at, c.to>>] = "closed"
    BY <1>1 DEF OwnClientsShut
  <2>1. faults = todo[i].from /\ ~(faults' > faults)
    BY Past
  <2>2. c \in clients \/ (~c.on /\ path[<<c.at, c.to>>] = "closed")
    BY <2>1, Zenon
  <2> QED
    BY <2>1, <2>2 DEF OwnClientsShut
<1>5. ShownFailure' /\ DenialIsReal'
  BY <1>1 DEF ShownFailure, DenialIsReal
<1> QED
  BY <1>2, <1>3, <1>4, <1>5

\* What a command leaves of the faults: none is added when it ran.
LEMMA Answering ==
  ASSUME GuestInv, NEW ans \in Answers, Answer(ans)
  PROVE  /\ faults' \in faults..MaxFaults /\ faults' \in Nat
         /\ ans = "ran" => faults' = faults
         /\ ans # "ran" => faults' > faults
<1>1. faults \in Nat /\ faults \in 0..MaxFaults
  BY DEF GuestInv, TypeOK
<1> QED
  BY <1>1, GuestWorkAssumption DEF Answer, Fault

\* An error is logged when the outcome is not the expected one.
LEMMA Executing ==
  ASSUME NEW ok \in BOOLEAN, NEW exp_fail \in BOOLEAN
  PROVE  /\ Execute(ok, exp_fail) \subseteq Remarks
         /\ "error" \notin Execute(ok, exp_fail) => ok = ~exp_fail
BY DEF Execute, Remarks

\* No server runs while the workload in progress has none.
LEMMA NoneServes ==
  ASSUME GuestInv, todo # <<>>, W.kind \notin Served \/ pos \notin {2, 3}, faults = 0
  PROVE  \A g \in Guests : servers[g] = {}
BY DEF GuestInv, ServersInUse

\* _exec_ping
LEMMA PingInv ==
  ASSUME GuestInv, NEW ans \in Answers, NEW r \in {0, 1, Cnt}, Ping(r, ans)
  PROVE  GuestInv'
<1> DEFINE v == IF W.exp_fail THEN {} ELSE VerifyPing(r)
           t == told \cup Execute(r > 0, W.exp_fail) \cup v
           f == full /\ r = Cnt
<1>1. /\ todo # <<>> /\ W.kind = "ping" /\ Answer(ans)
      /\ r \in (IF ans = "ran" THEN Replies ELSE {0})
      /\ UNCHANGED <<path, servers, clients, files, content, calls>>
      /\ CASE ans = "broken" /\ ~W.exp_fail -> Finish("raised", t, f)
           [] pos = 3                       -> Finish("returned", t, f)
           [] OTHER                         -> Step /\ told' = t /\ full' = f
  BY DEF Ping
<1>2. /\ TypeOK /\ W.exp_fail \in BOOLEAN /\ W.from <= faults /\ W.from \in Nat /\ faults \in Nat
      /\ told \subseteq Remarks /\ full \in BOOLEAN /\ pos \in 1..3
  BY <1>1, Ahead DEF GuestInv, TypeOK, Works
<1>3. t \subseteq Remarks /\ f \in BOOLEAN
  <2>1. v \subseteq Remarks
    BY DEF VerifyPing, Remarks
  <2>2. Execute(r > 0, W.exp_fail) \subseteq Remarks
    BY DEF Execute, Remarks
  <2> QED
    BY <1>2, <2>1, <2>2
<1>4. ~W.exp_fail /\ t = {} => f
  <2>1. SUFFICES ASSUME ~W.exp_fail, t = {} PROVE f
    OBVIOUS
  <2>2. told = {} /\ VerifyPing(r) = {}
    BY <2>1
  <2>3. full
    BY <1>1, <2>1, <2>2 DEF GuestInv, SilentIsFull
  <2>4. r = Cnt
    BY <2>2 DEF VerifyPing, Cnt
  <2> QED
    BY <2>3, <2>4
<1>5. W.exp_fail /\ "error" \notin t /\ faults' = W.from => Link # "open"
  <2>1. SUFFICES ASSUME W.exp_fail, "error" \notin t, faults' = W.from PROVE Link # "open"
    OBVIOUS
  <2>2. ans = "ran"
    BY <1>1, <1>2, <2>1, Answering
  <2>3. "error" \notin Execute(r > 0, W.exp_fail)
    BY <2>1
  <2>4. (r > 0) \in BOOLEAN /\ W.exp_fail = TRUE
    BY <1>2, <2>1
  <2>5. ~(r > 0)
    BY <2>3, <2>4 DEF Execute
  <2> QED
    BY <1>1, <2>2, <2>5 DEF Replies, Cnt
<1>6. faults' = 0 => \A g \in Guests : servers'[g] = {}
  BY <1>1, <1>2, Answering, NoneServes DEF Served
<1>7. /\ faults' \in faults..MaxFaults
      /\ files \in [Guests -> [tfile : 0..content, local : 0..content, remote : 0..content]]
      /\ servers \in [Guests -> SUBSET {"iperf3", "netserver"}]
      /\ clients \subseteq [at : Guests, to : Guests, on : BOOLEAN] /\ content \in Nat
  BY <1>1, Answering DEF GuestInv, TypeOK
<1>8. CASE Finish("raised", t, f) \/ Finish("returned", t, f)
  BY <1>1, <1>3, <1>4, <1>5, <1>6, <1>7, <1>8, Finishing
<1>9. CASE Step /\ told' = t /\ full' = f /\ pos # 3
  <2>1. W' = W
    BY <1>9 DEF Step, W
  <2>2. ServersInUse'
    BY <1>6 DEF ServersInUse
  <2>3. SilentIsFull'
    BY <1>4, <1>9, <2>1 DEF SilentIsFull
  <2>4. FileTravels' /\ ClientIsServed'
    BY <1>1, <2>1 DEF FileTravels, ClientIsServed, Served
  <2>5. pos + 1 <= 3
    BY <1>2, <1>9
  <2> QED
    BY <1>1, <1>3, <1>7, <1>9, <2>2, <2>3, <2>4, <2>5, Stepping
<1> QED
  BY <1>1, <1>8, <1>9

-------------------------------------------------------------------------------
(* Servers and their clients. *)

\* start_iperf_server, start_netperf_server
LEMMA StartServerInv ==
  ASSUME GuestInv, NEW ans \in Answers, StartServer(ans)
  PROVE  GuestInv'
<1>1. /\ todo # <<>> /\ W.kind \in Served /\ pos = 1 /\ Answer(ans) /\ Step
      /\ UNCHANGED <<path, clients, files, content, full, calls>>
      /\ servers' = IF ans = "ran" THEN [servers EXCEPT ![W.s] = @ \cup {Prog(W.kind)}] ELSE servers
  BY DEF StartServer, Doing
<1>2. PICK ok \in BOOLEAN : told' = told \cup Execute(ok, FALSE)
  BY DEF StartServer
<1>3. /\ W' = W /\ Link' = Link /\ pos' = 2 /\ W.kind # "file" /\ W.s \in Guests
      /\ W.from <= faults /\ W.from \in Nat /\ faults \in Nat
      /\ todo' = todo
  BY <1>1, Ahead DEF Step, W, Link, Served
<1>4. /\ faults' \in faults..MaxFaults /\ full \in BOOLEAN /\ told \subseteq Remarks
      /\ files \in [Guests -> [tfile : 0..content, local : 0..content, remote : 0..content]]
      /\ servers \in [Guests -> SUBSET {"iperf3", "netserver"}]
      /\ clients \subseteq [at : Guests, to : Guests, on : BOOLEAN] /\ content \in Nat
  BY <1>1, Answering DEF GuestInv, TypeOK
<1>5. servers' \in [Guests -> SUBSET {"iperf3", "netserver"}]
  BY <1>1, <1>4 DEF Prog
<1>6. told' \subseteq Remarks
  BY <1>2, <1>4, Executing
<1>7. ServersInUse'
  <2> SUFFICES ASSUME faults' = 0, NEW g \in Guests, servers'[g] # {}
               PROVE  g = W.s /\ servers'[g] = {Prog(W.kind)}
    BY <1>1, <1>3 DEF ServersInUse
  <2>1. ans = "ran" /\ faults = 0
    BY <1>1, <1>3, Answering
  <2>2. servers[g] = {} /\ servers[W.s] = {}
    BY <1>1, <1>3, <2>1, NoneServes
  <2> QED
    BY <1>1, <1>3, <1>4, <2>1, <2>2
<1>8. SilentIsFull' /\ FileTravels'
  BY <1>1, <1>2, <1>3 DEF GuestInv, SilentIsFull, FileTravels
<1>9. ClientIsServed'
  <2> SUFFICES ASSUME faults' = W.from PROVE Prog(W.kind) \in servers'[W.s]
    BY <1>3 DEF ClientIsServed
  <2>1. ans = "ran"
    BY <1>1, <1>3, Answering
  <2> QED
    BY <1>1, <1>3, <1>4, <2>1
<1>10. /\ pos + 1 <= IF W.kind = "file" THEN 7 ELSE 3
       /\ path' = path /\ calls' = calls
       /\ clients' \subseteq [at : Guests, to : Guests, on : BOOLEAN] /\ clients' \ clients = {}
  BY <1>1, <1>3, <1>4
<1>11. /\ content' \in Nat /\ full' \in BOOLEAN
       /\ files' \in [Guests -> [tfile : 0..content', local : 0..content', remote : 0..content']]
  BY <1>1, <1>4
<1>12. todo # <<>> /\ Step /\ faults' \in faults..MaxFaults
  BY <1>1, <1>4
<1> QED
  BY <1>5, <1>6, <1>7, <1>8, <1>9, <1>10, <1>11, <1>12, Stepping

\* _run_iperf_client, _run_netperf_client
LEMMA RunClientInv ==
  ASSUME GuestInv, NEW ans \in Answers, NEW arrived \in {"all", "some", "none", "failed"},
         RunClient(arrived, ans)
  PROVE  GuestInv'
<1> DEFINE ok == arrived # "failed"
           v == IF W.exp_fail THEN {} ELSE VerifyRun(arrived)
           late == [at |-> W.c, to |-> W.s, on |-> FALSE]
<1>1. /\ todo # <<>> /\ W.kind \in Served /\ pos = 2 /\ Step
      /\ IF ans = "timeout" /\ Link = "closed" THEN UNCHANGED faults ELSE Answer(ans)
      /\ arrived \in (IF ans = "ran" THEN Outcomes ELSE {"failed"})
      /\ told' = told \cup Execute(ok, W.exp_fail) \cup v
      /\ full' = (full /\ arrived = "all")
      /\ clients' = IF ans = "timeout" /\ W.kind # "netperf" THEN clients \cup {late} ELSE clients
      /\ UNCHANGED <<path, servers, files, content, calls>>
  BY DEF RunClient, Doing
<1>2. /\ W' = W /\ Link' = Link /\ pos' = 3 /\ W.kind # "file" /\ W.s \in Guests /\ W.c \in Guests
      /\ W.from <= faults /\ W.from \in Nat /\ faults \in Nat /\ todo' = todo
      /\ 1 \in DOMAIN todo /\ W = todo[1]
  BY <1>1, Ahead DEF Step, W, Link, Served
<1>3. W.exp_fail \in BOOLEAN
  BY <1>1, Ahead DEF Works
<1>4. /\ full \in BOOLEAN /\ told \subseteq Remarks /\ faults \in 0..MaxFaults
      /\ files \in [Guests -> [tfile : 0..content, local : 0..content, remote : 0..content]]
      /\ servers \in [Guests -> SUBSET {"iperf3", "netserver"}]
      /\ clients \subseteq [at : Guests, to : Guests, on : BOOLEAN] /\ content \in Nat
  BY DEF GuestInv, TypeOK
<1>5. /\ faults' \in faults..MaxFaults /\ faults' \in Nat
      /\ ans = "ran" => faults' = faults
      /\ ans # "ran" /\ ~(ans = "timeout" /\ Link = "closed") => faults' > faults
  BY <1>1, <1>4, Answering, GuestWorkAssumption
<1>6. told' \subseteq Remarks
  <2>1. v \subseteq Remarks
    BY DEF VerifyRun, Remarks
  <2> QED
    BY <1>1, <1>3, <1>4, <2>1, Executing
<1>7. /\ clients' \subseteq [at : Guests, to : Guests, on : BOOLEAN]
      /\ \A c \in clients' \ clients :
           (~c.on /\ path[<<c.at, c.to>>] = "closed") \/ faults' > faults
  <2>1. /\ late \in [at : Guests, to : Guests, on : BOOLEAN]
        /\ late.on = FALSE /\ path[<<late.at, late.to>>] = Link
    BY <1>2 DEF Link
  <2>2. clients' \ clients # {} => ans = "timeout"
    BY <1>1
  <2>3. ans = "timeout" => Link = "closed" \/ faults' > faults
    BY <1>5
  <2> HIDE DEF late
  <2>4. \A c \in clients' \ clients : c = late
    BY <1>1
  <2> QED
    BY <1>1, <1>4, <2>1, <2>2, <2>3, <2>4
<1>8. ServersInUse'
  BY <1>1, <1>2, <1>5 DEF GuestInv, ServersInUse
<1>9. SilentIsFull' /\ FileTravels'
  <2>1. SUFFICES ASSUME ~W.exp_fail, told' = {} PROVE full'
    BY <1>2 DEF SilentIsFull, FileTravels
  <2>2. told = {} /\ Execute(ok, W.exp_fail) = {} /\ VerifyRun(arrived) = {}
    BY <1>1, <2>1
  <2>3. full
    BY <1>1, <1>2, <2>1, <2>2 DEF GuestInv, SilentIsFull
  <2>4. arrived = "all"
    BY <2>2 DEF VerifyRun
  <2> QED
    BY <1>1, <2>3, <2>4
<1>10. ClientIsServed'
  <2>1. SUFFICES ASSUME faults' = W.from, W.exp_fail, "error" \notin told', W.alone
                 PROVE  Link # "open"
    BY <1>2 DEF ClientIsServed
  <2>2. CASE ans # "ran"
    BY <1>2, <1>5, <2>1, <2>2
  <2>3. CASE ans = "ran"
    <3>1. arrived \in Outcomes /\ faults = W.from
      BY <1>1, <1>5, <2>1, <2>3
    <3>2. ok \in BOOLEAN /\ "error" \notin Execute(ok, W.exp_fail)
      BY <1>1, <2>1
    <3>3. arrived = "failed"
      BY <1>3, <2>1, <3>2, Executing
    <3>4. Prog(W.kind) \in servers[W.s]
      BY <1>1, <1>2, <3>1 DEF GuestInv, ClientIsServed
    <3>5. ~Busy(W.s)
      BY <1>2, <2>1, <3>1 DEF GuestInv, OwnClientsShut, Busy
    <3> QED
      BY <3>1, <3>3, <3>4, <3>5 DEF Outcomes, Serving
  <2> QED
    BY <2>2, <2>3
<1>11. full' \in BOOLEAN
  BY <1>1, <1>4
<1> QED
  BY <1>1, <1>2, <1>4, <1>5, <1>6, <1>7, <1>8, <1>9, <1>10, <1>11, Stepping

\* stop_iperf_server, stop_netperf_server
LEMMA StopServerInv ==
  ASSUME GuestInv, NEW ans \in Answers, StopServer(ans)
  PROVE  GuestInv'
<1>1. /\ todo # <<>> /\ W.kind \in Served /\ pos = 3 /\ Answer(ans)
      /\ IF ans = "ran" THEN Killed ELSE UNCHANGED <<servers, clients>>
      /\ UNCHANGED <<path, files, content, calls>>
  BY DEF StopServer, Doing
<1>2. PICK how \in {"returned", "raised"} : Finish(how, told, full)
  BY DEF StopServer, Conclude
<1>3. /\ W.kind # "file" /\ W.s \in Guests
      /\ W.from <= faults /\ W.from \in Nat /\ faults \in Nat
  BY <1>1, Ahead DEF Served
<1>4. /\ full \in BOOLEAN /\ told \in SUBSET Remarks
      /\ files \in [Guests -> [tfile : 0..content, local : 0..content, remote : 0..content]]
      /\ servers \in [Guests -> SUBSET {"iperf3", "netserver"}]
  BY DEF GuestInv, TypeOK
<1>5. /\ clients' \subseteq clients
      /\ servers' \in [Guests -> SUBSET {"iperf3", "netserver"}]
  <2>1. CASE Killed
    <3>1. clients' \subseteq clients
      BY <2>1 DEF Killed
    <3>2. servers' = [servers EXCEPT ![W.s] = @ \ {Prog(W.kind)}]
      BY <2>1 DEF Killed
    <3>3. servers' \in [Guests -> SUBSET {"iperf3", "netserver"}]
      BY <1>4, <3>2
    <3> QED
      BY <3>1, <3>3
  <2>2. CASE UNCHANGED <<servers, clients>>
    BY <1>4, <2>2
  <2> QED
    BY <1>1, <2>1, <2>2
<1>6. /\ faults' \in faults..MaxFaults
      /\ ans = "ran" => faults' = faults
      /\ ans # "ran" => faults' > faults
  BY <1>1, Answering
<1>7. faults' = 0 => \A g \in Guests : servers'[g] = {}
  <2> SUFFICES ASSUME faults' = 0, NEW g \in Guests PROVE servers'[g] = {}
    OBVIOUS
  <2>1. ans = "ran" /\ faults = 0
    BY <1>3, <1>6
  <2>2. servers' = [servers EXCEPT ![W.s] = @ \ {Prog(W.kind)}]
    BY <1>1, <2>1 DEF Killed
  <2>3. servers[g] # {} => g = W.s /\ servers[g] = {Prog(W.kind)}
    BY <2>1 DEF GuestInv, ServersInUse
  <2> QED
    BY <1>3, <1>4, <2>2, <2>3
<1>8. ~W.exp_fail /\ told = {} => full
  BY <1>1, <1>3 DEF GuestInv, SilentIsFull
<1>9. W.exp_fail /\ "error" \notin told /\ W.alone /\ faults' = W.from => Link # "open"
  <2>1. faults' = W.from => faults = W.from
    BY <1>3, <1>6
  <2> QED
    BY <1>1, <2>1 DEF GuestInv, ClientIsServed
<1> QED
  BY <1>1, <1>2, <1>4, <1>5, <1>6, <1>7, <1>8, <1>9, Finishing

-------------------------------------------------------------------------------
(* File transfers. *)

\* What every command of a transfer but the last leaves alone, and what is left to show.
LEMMA FileStep ==
  ASSUME GuestInv, todo # <<>>, W.kind = "file", pos \in 1..6, Step,
         faults' \in faults..MaxFaults,
         UNCHANGED <<path, servers, clients, calls>>, content' \in Nat,
         files' \in [Guests -> [tfile : 0..content', local : 0..content', remote : 0..content']],
         told' \subseteq Remarks, full' \in BOOLEAN, FileTravels'
  PROVE  GuestInv'
<1>1. W' = W /\ todo' = todo
  BY DEF Step, W
<1>2. ServersInUse' /\ SilentIsFull' /\ ClientIsServed'
  <2>1. faults' = 0 => faults = 0
    BY Past
  <2>2. faults' = 0 => \A g \in Guests : servers[g] = {}
    BY <2>1, NoneServes DEF Served
  <2> QED
    BY <1>1, <2>2 DEF ServersInUse, SilentIsFull, ClientIsServed, Served
<1>3. /\ servers \in [Guests -> SUBSET {"iperf3", "netserver"}]
      /\ clients \subseteq [at : Guests, to : Guests, on : BOOLEAN]
  BY DEF GuestInv, TypeOK
<1>4. pos + 1 <= IF W.kind = "file" THEN 7 ELSE 3
  OBVIOUS
<1> QED
  BY <1>2, <1>3, <1>4, Stepping

\* What is known of the files in a transfer.
LEMMA FileTypes ==
  ASSUME GuestInv, todo # <<>>, W.kind = "file"
  PROVE  /\ W.c \in Guests /\ W.s \in Guests /\ W.c # W.s
         /\ content \in Nat /\ told \subseteq Remarks /\ full \in BOOLEAN
         /\ files \in [Guests -> [tfile : 0..content, local : 0..content, remote : 0..content]]
         /\ ~W.exp_fail
<1>1. W.c # W.s /\ W.c \in Guests /\ W.s \in Guests
  BY Ahead DEF Links
<1>2. ~W.exp_fail
  BY Ahead DEF GuestInv, Planned, W
<1> QED
  BY <1>1, <1>2 DEF GuestInv, TypeOK

\* _generate_file
LEMMA GenerateFileInv ==
  ASSUME GuestInv, NEW ans \in Answers, GenerateFile(ans)
  PROVE  GuestInv'
<1>1. /\ todo # <<>> /\ W.kind = "file" /\ pos = 1 /\ Answer(ans) /\ Step
      /\ content' = content + 1
      /\ files' = IF ans = "ran" THEN [files EXCEPT ![W.c].tfile = content'] ELSE files
      /\ told' = told \cup Execute(ans = "ran", FALSE)
      /\ UNCHANGED <<path, servers, clients, full, calls>>
  BY DEF GenerateFile, Doing
<1>2. W' = W /\ todo' = todo /\ pos' = 2
  BY <1>1 DEF Step, W
<1>3. \A g \in Guests : files[g] \in [tfile : 0..content', local : 0..content', remote : 0..content']
  <2>1. /\ content \in Nat /\ content' = content + 1
        /\ files \in [Guests -> [tfile : 0..content, local : 0..content, remote : 0..content]]
    BY <1>1, FileTypes
  <2>2. 0..content \subseteq 0..content'
    BY <2>1
  <2> QED
    BY <2>1, <2>2
<1>4. files' \in [Guests -> [tfile : 0..content', local : 0..content', remote : 0..content']]
  <2>1. content' \in 0..content' /\ W.c \in Guests
    BY <1>1, FileTypes
  <2>2. [files[W.c] EXCEPT !.tfile = content'] \in
          [tfile : 0..content', local : 0..content', remote : 0..content']
    BY <1>3, <2>1
  <2>3. files \in [Guests -> [tfile : 0..content', local : 0..content', remote : 0..content']]
    BY <1>1, <1>3, FileTypes
  <2> QED
    BY <1>1, <2>1, <2>2, <2>3
<1>5. told' \subseteq Remarks /\ full' \in BOOLEAN /\ content' \in Nat
  <2>1. Execute(ans = "ran", FALSE) \subseteq Remarks
    BY DEF Execute, Remarks
  <2>2. full \in BOOLEAN /\ content \in Nat /\ told \subseteq Remarks
    BY <1>1, FileTypes
  <2>3. told' \subseteq Remarks
    BY <1>1, <2>1, <2>2, Zenon
  <2>4. content' \in Nat
    BY <1>1, <2>2
  <2> QED
    BY <1>1, <2>2, <2>3, <2>4, Zenon
<1>6. FileTravels'
  <2>1. SUFFICES ASSUME told' = {}
                 PROVE  /\ full' /\ files'[W.c].tfile = content'
                        /\ files'[W.s].remote # content' /\ files'[W.c].local # content'
    BY <1>2 DEF FileTravels
  <2>2. ans = "ran" /\ told = {}
    BY <1>1, <2>1 DEF Execute
  <2>3. full
    BY <1>1, <2>2 DEF GuestInv, FileTravels
  <2>4. files[W.s].remote \in 0..content /\ files[W.c].local \in 0..content
    BY <1>1, FileTypes
  <2>5. files'[W.s].remote = files[W.s].remote /\ files'[W.c].local = files[W.c].local
    BY <1>1, FileTypes
  <2>6. files'[W.c].tfile = content'
    BY <1>1, <2>2, FileTypes
  <2> QED
    BY <1>1, <2>3, <2>4, <2>5, <2>6, FileTypes
<1> QED
  <2>1. faults' \in faults..MaxFaults /\ pos \in 1..6
    BY <1>1, Answering
  <2> QED
    BY <1>1, <1>4, <1>5, <1>6, <2>1, FileStep

\* What a transfer that logs no error has done: all of it, or nothing and silently.
LEMMA Transferring ==
  ASSUME GuestInv, todo # <<>>, W.kind = "file", NEW there \in BOOLEAN,
         NEW done \in BOOLEAN, NEW silent \in BOOLEAN, NEW ans \in Answers,
         Transfer(there, done, silent, ans)
  PROVE  /\ faults' \in faults..MaxFaults /\ Step
         /\ W' = W /\ todo' = todo /\ pos' = pos + 1
         /\ UNCHANGED <<path, servers, clients, content, calls>>
         /\ told' \subseteq Remarks /\ full' = (full /\ done) /\ told \subseteq told'
<1>1. /\ Answer(ans) /\ Step /\ full' = (full /\ done)
      /\ told' = told \cup Execute(done \/ silent, FALSE)
      /\ UNCHANGED <<path, servers, clients, content, calls>>
  BY DEF Transfer
<1>2. told' \subseteq Remarks
  <2>1. Execute(done \/ silent, FALSE) \subseteq Remarks
    BY DEF Execute, Remarks
  <2> QED
    BY <1>1, <2>1, FileTypes
<1> QED
  BY <1>1, <1>2, Answering DEF Step, W

\* tftp and ftp, put
LEMMA PutInv ==
  ASSUME GuestInv, NEW done \in BOOLEAN, NEW silent \in BOOLEAN, NEW ans \in Answers,
         Put(done, silent, ans)
  PROVE  GuestInv'
<1>1. /\ todo # <<>> /\ W.kind = "file" /\ pos = 2
      /\ Transfer(files[W.c].tfile # 0, done, silent, ans)
      /\ files' = IF done THEN [files EXCEPT ![W.s].remote = files[W.c].tfile] ELSE files
  BY DEF Put, Doing
<1>2. /\ faults' \in faults..MaxFaults /\ Step
      /\ W' = W /\ todo' = todo /\ pos' = 3
      /\ UNCHANGED <<path, servers, clients, content, calls>>
      /\ told' \subseteq Remarks /\ full' = (full /\ done) /\ told \subseteq told'
  <2>1. (files[W.c].tfile # 0) \in BOOLEAN /\ pos + 1 = 3
    BY <1>1
  <2>2. pos' = pos + 1
    BY <1>1, <2>1, Transferring, Zenon
  <2> QED
    BY <1>1, <2>1, <2>2, Transferring, Zenon
<1>3. /\ files' \in [Guests -> [tfile : 0..content', local : 0..content', remote : 0..content']]
      /\ content' \in Nat /\ full' \in BOOLEAN
  <2>1. files[W.c].tfile \in 0..content
    BY <1>1, FileTypes
  <2> QED
    BY <1>1, <1>2, <2>1, FileTypes
<1>4. FileTravels'
  <2>1. SUFFICES ASSUME told' = {}
                 PROVE  /\ files'[W.c].tfile = content /\ files'[W.c].local # content
                        /\ full' <=> files'[W.s].remote = content
    BY <1>2 DEF FileTravels
  <2>2. /\ full /\ files[W.c].tfile = content
        /\ files[W.s].remote # content /\ files[W.c].local # content
    BY <1>1, <1>2, <2>1 DEF GuestInv, FileTravels
  <2>3. files'[W.c].tfile = files[W.c].tfile /\ files'[W.c].local = files[W.c].local
    BY <1>1, FileTypes
  <2>4. files'[W.s].remote = IF done THEN content ELSE files[W.s].remote
    BY <1>1, <2>2, FileTypes
  <2> QED
    BY <1>2, <2>2, <2>3, <2>4
<1> QED
  BY <1>1, <1>2, <1>3, <1>4, FileStep

\* tftp and ftp, get
LEMMA GetInv ==
  ASSUME GuestInv, NEW done \in BOOLEAN, NEW silent \in BOOLEAN, NEW ans \in Answers,
         Get(done, silent, ans)
  PROVE  GuestInv'
<1>1. /\ todo # <<>> /\ W.kind = "file" /\ pos = 3
      /\ Transfer(files[W.s].remote # 0, done, silent, ans)
      /\ files' = IF done THEN [files EXCEPT ![W.c].local = files[W.s].remote] ELSE files
  BY DEF Get, Doing
<1>2. /\ faults' \in faults..MaxFaults /\ Step
      /\ W' = W /\ todo' = todo /\ pos' = 4
      /\ UNCHANGED <<path, servers, clients, content, calls>>
      /\ told' \subseteq Remarks /\ full' = (full /\ done) /\ told \subseteq told'
  <2>1. (files[W.s].remote # 0) \in BOOLEAN /\ pos + 1 = 4
    BY <1>1
  <2>2. pos' = pos + 1
    BY <1>1, <2>1, Transferring, Zenon
  <2> QED
    BY <1>1, <2>1, <2>2, Transferring, Zenon
<1>3. /\ files' \in [Guests -> [tfile : 0..content', local : 0..content', remote : 0..content']]
      /\ content' \in Nat /\ full' \in BOOLEAN
  <2>1. files[W.s].remote \in 0..content
    BY <1>1, FileTypes
  <2> QED
    BY <1>1, <1>2, <2>1, FileTypes
<1>4. FileTravels'
  <2>1. SUFFICES ASSUME told' = {}
                 PROVE  /\ files'[W.c].tfile = content
                        /\ full' <=> files'[W.c].local = content
    BY <1>2 DEF FileTravels
  <2>2. /\ full <=> files[W.s].remote = content
        /\ files[W.c].tfile = content /\ files[W.c].local # content
    BY <1>1, <1>2, <2>1 DEF GuestInv, FileTravels
  <2>3. files'[W.c].tfile = files[W.c].tfile
    BY <1>1, FileTypes
  <2>4. files'[W.c].local = IF done THEN files[W.s].remote ELSE files[W.c].local
    BY <1>1, FileTypes
  <2> QED
    BY <1>2, <2>2, <2>3, <2>4
<1> QED
  BY <1>1, <1>2, <1>3, <1>4, FileStep

\* _compare_files
LEMMA CompareFilesInv ==
  ASSUME GuestInv, NEW ans \in Answers, CompareFiles(ans)
  PROVE  GuestInv'
<1> DEFINE f == files[W.c]
           same == ans = "ran" /\ f.tfile = f.local /\ f.tfile # 0
<1>1. /\ todo # <<>> /\ W.kind = "file" /\ pos = 4 /\ Answer(ans) /\ Step
      /\ told' = told \cup Execute(same, FALSE)
      /\ UNCHANGED <<path, servers, clients, files, content, full, calls>>
  BY DEF CompareFiles, Doing
<1>2. W' = W /\ todo' = todo /\ pos' = 5
  BY <1>1 DEF Step, W
<1>3. told' \subseteq Remarks
  <2>1. Execute(same, FALSE) \subseteq Remarks
    BY DEF Execute, Remarks
  <2> QED
    BY <1>1, <2>1, FileTypes
<1>4. FileTravels'
  <2>0. /\ pos' > 4 /\ pos' \notin {1, 2} /\ pos' \notin {2, 3, 4} /\ pos' \notin {2, 3}
        /\ pos' # 2 /\ pos' # 3 /\ pos' # 4
    BY <1>2
  <2>1. SUFFICES ASSUME told' = {} PROVE full
    BY <1>1, <1>2, <2>0, Zenon DEF FileTravels
  <2>2. told = {} /\ same
    BY <1>1, <2>1 DEF Execute
  <2>3. f.tfile = content /\ (full <=> f.local = content)
    BY <1>1, <2>2 DEF GuestInv, FileTravels
  <2> QED
    BY <2>2, <2>3
<1> QED
  <2>1. faults' \in faults..MaxFaults /\ pos \in 1..6
    BY <1>1, Answering
  <2> QED
    BY <1>1, <1>3, <1>4, <2>1, FileStep, FileTypes

\* rm_file
LEMMA RemoveFileInv ==
  ASSUME GuestInv, NEW ans \in Answers, RemoveFile(ans)
  PROVE  GuestInv'
<1> DEFINE fl == Removed[pos - 4][1]
           g == Removed[pos - 4][2]
           t == told \cup Execute(ans = "ran" /\ files[g][fl] # 0, FALSE)
<1>1. /\ todo # <<>> /\ W.kind = "file" /\ pos \in 5..7 /\ Answer(ans)
      /\ files' = IF ans = "ran" THEN [files EXCEPT ![g][fl] = 0] ELSE files
      /\ IF pos = 7 THEN Finish("returned", t, full) ELSE Step /\ told' = t /\ UNCHANGED full
      /\ UNCHANGED <<path, servers, clients, content, calls>>
  BY DEF RemoveFile
<1>2. g \in Guests /\ fl \in {"tfile", "local", "remote"}
  <2>1. pos - 4 \in {1, 2, 3} /\ W.c \in Guests /\ W.s \in Guests
    BY <1>1, FileTypes
  <2>2. CASE pos - 4 = 1
    BY <2>1, <2>2 DEF Removed
  <2>3. CASE pos - 4 = 2
    BY <2>1, <2>3 DEF Removed
  <2>4. CASE pos - 4 = 3
    BY <2>1, <2>4 DEF Removed
  <2> QED
    BY <2>1, <2>2, <2>3, <2>4
<1>3. files' \in [Guests -> [tfile : 0..content, local : 0..content, remote : 0..content]]
  <2>1. ASSUME NEW x \in [tfile : 0..content, local : 0..content, remote : 0..content],
               NEW k \in {"tfile", "local", "remote"}
        PROVE  [x EXCEPT ![k] = 0] \in [tfile : 0..content, local : 0..content, remote : 0..content]
    <3>1. 0 \in 0..content
      BY <1>1, FileTypes
    <3>2. CASE k = "tfile"
      BY <3>1, <3>2
    <3>3. CASE k = "local"
      BY <3>1, <3>3
    <3>4. CASE k = "remote"
      BY <3>1, <3>4
    <3> QED
      BY <3>2, <3>3, <3>4
  <2>2. files[g] \in [tfile : 0..content, local : 0..content, remote : 0..content]
    BY <1>1, <1>2, FileTypes
  <2>3. [files[g] EXCEPT ![fl] = 0] \in [tfile : 0..content, local : 0..content, remote : 0..content]
    BY <1>2, <2>1, <2>2
  <2> QED
    BY <1>1, <1>2, <2>3, FileTypes
<1>4. t \subseteq Remarks
  BY <1>1, FileTypes DEF Execute, Remarks
<1>5. t = {} => full
  <2>1. t = {} => told = {}
    OBVIOUS
  <2>2. pos > 4
    BY <1>1
  <2> QED
    BY <1>1, <2>1, <2>2, Zenon DEF GuestInv, FileTravels
<1>6. CASE pos = 7
  <2>1. faults' = 0 => \A h \in Guests : servers'[h] = {}
    BY <1>1, Past, Answering, NoneServes DEF Served
  <2>2. servers \in [Guests -> SUBSET {"iperf3", "netserver"}]
    BY DEF GuestInv, TypeOK
  <2> HIDE DEF t, g, fl
  <2>3. full \in BOOLEAN /\ ~W.exp_fail
    BY <1>1, FileTypes
  <2>4. faults' \in faults..MaxFaults
    BY <1>1, Answering
  <2>5. /\ todo # <<>> /\ Finish("returned", t, full) /\ path' = path /\ calls' = calls /\ content' = content
        /\ clients' \subseteq clients /\ servers' \in [Guests -> SUBSET {"iperf3", "netserver"}]
    BY <1>1, <1>6, <2>2
  <2> QED
    BY <1>3, <1>4, <1>5, <2>1, <2>3, <2>4, <2>5, Finishing
<1>7. CASE pos # 7
  <2>1. W' = W /\ todo' = todo /\ pos' = pos + 1
    BY <1>1, <1>7 DEF Step, W
  <2> HIDE DEF t
  <2>2. FileTravels'
    <3>1. told' = t /\ full' = full
      BY <1>1, <1>7
    <3>2. /\ pos' > 4 /\ pos' \notin {1, 2} /\ pos' \notin {2, 3, 4} /\ pos' \notin {2, 3}
          /\ pos' # 2 /\ pos' # 3 /\ pos' # 4
      BY <1>1, <2>1
    <3> QED
      BY <1>5, <3>1, <3>2, Zenon DEF FileTravels
  <2>3. faults' \in faults..MaxFaults /\ pos \in 1..6
    BY <1>1, <1>7, Answering
  <2> QED
    BY <1>1, <1>3, <1>4, <1>7, <2>2, <2>3, FileStep, FileTypes
<1> QED
  BY <1>6, <1>7

-------------------------------------------------------------------------------
(* The theorems. *)

\* A guest that cannot be dialled.
LEMMA RaiseIOErrorInv ==
  ASSUME GuestInv, RaiseIOError
  PROVE  GuestInv'
<1>1. /\ todo # <<>> /\ Fault /\ Finish("raised", told, full)
      /\ UNCHANGED <<path, servers, clients, files, content, calls>>
  BY DEF RaiseIOError
<1>2. faults' \in faults..MaxFaults /\ faults' # 0
  BY <1>1, Past, GuestWorkAssumption DEF Fault
<1>3. /\ full \in BOOLEAN /\ told \in SUBSET Remarks
      /\ files \in [Guests -> [tfile : 0..content, local : 0..content, remote : 0..content]]
      /\ servers \in [Guests -> SUBSET {"iperf3", "netserver"}]
  BY DEF GuestInv, TypeOK
<1> QED
  BY <1>1, <1>2, <1>3, Finishing

\* Clients that were left, and paths that change between keywords.
LEMMA OutsideInv ==
  ASSUME GuestInv,
         \/ \E c \in clients : Connect(c) \/ GiveUp(c)
         \/ \E l \in Links, p \in {"open", "closed", "lossy"} : PathChanges(l, p)
  PROVE  GuestInv'
<1> USE DEF GuestInv
<1>1. CASE \E c \in clients : Connect(c) \/ GiveUp(c)
  <2>1. PICK c \in clients : Connect(c) \/ GiveUp(c)
    BY <1>1
  <2>2. /\ UNCHANGED <<path, servers, files, content, todo, pos, told, full, over, calls, faults>>
        /\ UNCHANGED <<W, Link>>
    BY <2>1 DEF Connect, GiveUp, W, Link
  <2>3. c \in [at : Guests, to : Guests, on : BOOLEAN]
    BY DEF TypeOK
  <2>4. [c EXCEPT !.on = TRUE] \in [at : Guests, to : Guests, on : BOOLEAN]
    BY <2>3
  <2>5. clients' \subseteq [at : Guests, to : Guests, on : BOOLEAN]
    BY <2>1, <2>4 DEF TypeOK, Connect, GiveUp
  <2>6. TypeOK'
    BY <2>2, <2>5 DEF TypeOK
  <2>7. OwnClientsShut'
    <3>1. CASE GiveUp(c)
      BY <2>2, <3>1 DEF OwnClientsShut, GiveUp
    <3>2. CASE Connect(c)
      BY <2>2, <3>2 DEF OwnClientsShut, Connect
    <3> QED
      BY <2>1, <3>1, <3>2
  <2>8. Planned' /\ ServersInUse' /\ SilentIsFull' /\ ClientIsServed'
    BY <2>2 DEF Planned, ServersInUse, SilentIsFull, ClientIsServed
  <2>9. FileTravels'
    BY <2>2 DEF FileTravels
  <2>10. ShownFailure' /\ DenialIsReal'
    BY <2>2 DEF ShownFailure, DenialIsReal
  <2> QED
    BY <2>6, <2>7, <2>8, <2>9, <2>10
<1>2. CASE \E l \in Links, p \in {"open", "closed", "lossy"} : PathChanges(l, p)
  <2>1. PICK l \in Links, p \in {"open", "closed", "lossy"} : PathChanges(l, p)
    BY <1>2
  <2>2. /\ todo = <<>> /\ todo' = <<>> /\ path' = [path EXCEPT ![l] = p]
        /\ UNCHANGED <<servers, clients, files, content, pos, told, full, over, calls, faults>>
    BY <2>1 DEF PathChanges
  <2>3. TypeOK'
    BY <2>2 DEF TypeOK
  <2>4. Planned' /\ ServersInUse' /\ SilentIsFull' /\ FileTravels' /\ ClientIsServed'
    BY <2>2 DEF Planned, ServersInUse, SilentIsFull, FileTravels, ClientIsServed
  <2>5. OwnClientsShut' /\ ShownFailure' /\ DenialIsReal'
    BY <2>2 DEF OwnClientsShut, ShownFailure, DenialIsReal
  <2> QED
    BY <2>3, <2>4, <2>5
<1> QED
  BY <1>1, <1>2

\* GuestInv holds initially.
LEMMA InitInv == Init => GuestInv
<1> SUFFICES ASSUME Init PROVE GuestInv
  OBVIOUS
<1>1. over \in Ended
  BY DEF Init, NoWork, Ended, Remarks
<1>2. TypeOK
  BY <1>1, GuestWorkAssumption DEF Init, TypeOK, NoFiles
<1>3. Planned /\ ServersInUse /\ SilentIsFull /\ FileTravels /\ OwnClientsShut /\ ClientIsServed
  BY DEF Init, Planned, ServersInUse, SilentIsFull, FileTravels, OwnClientsShut, ClientIsServed
<1>4. ShownFailure /\ DenialIsReal
  BY DEF Init, NoWork, ShownFailure, DenialIsReal
<1> QED
  BY <1>2, <1>3, <1>4 DEF GuestInv

\* The invariant: what each command of a workload has established by the time the next one
\* runs (guest.py), and what workloads and keywords leave to one another.
THEOREM Inductive == Spec => []GuestInv
<1>1. GuestInv /\ [Next]_vars => GuestInv'
  <2> SUFFICES ASSUME GuestInv, [Next]_vars PROVE GuestInv'
    OBVIOUS
  <2>1. CASE Next
    <3>1. ASSUME NEW plan \in Plans,
                 \/ execute_ping_verification(plan) \/ execute_performance_test(plan)
                 \/ TransferFiles(plan)
                 \/ \E proto \in {"tcp", "udp"} : execute_iperf_verification(plan, proto)
          PROVE  GuestInv'
      BY <3>1, KeywordInv
    <3>2. ASSUME NEW ans \in Answers, Command(ans) PROVE GuestInv'
      BY <3>2, PingInv, RunClientInv, PutInv, GetInv, StartServerInv, StopServerInv,
         GenerateFileInv, CompareFilesInv, RemoveFileInv DEF Command
    <3> QED
      BY <2>1, <3>1, <3>2, RaiseIOErrorInv, OutsideInv DEF Next
  <2>2. CASE UNCHANGED vars
    <3>1. UNCHANGED <<W, Link>>
      BY <2>2 DEF vars, W, Link
    <3>2. TypeOK' /\ Planned' /\ ServersInUse' /\ SilentIsFull' /\ ClientIsServed'
      BY <2>2, <3>1
      DEF vars, GuestInv, TypeOK, Planned, ServersInUse, SilentIsFull, ClientIsServed
    <3>3. FileTravels' /\ OwnClientsShut' /\ ShownFailure' /\ DenialIsReal'
      BY <2>2, <3>1 DEF vars, GuestInv, FileTravels, OwnClientsShut, ShownFailure, DenialIsReal
    <3> QED
      BY <3>2, <3>3 DEF GuestInv
  <2> QED
    BY <2>1, <2>2
<1> QED
  BY InitInv, <1>1, PTL DEF Spec

\* Types.
THEOREM Typed == Spec => []TypeOK
<1>1. GuestInv => TypeOK
  BY DEF GuestInv
<1> QED
  BY Inductive, <1>1, PTL

\* A workload of an allowed pair about which nothing is said lost nothing, whatever earlier
\* workloads, timeouts and broken connections left in the guests (guest.py).
THEOREM SilenceMeansArrival == Spec => []ShownFailure
<1>1. GuestInv => ShownFailure
  BY DEF GuestInv
<1> QED
  BY Inductive, <1>1, PTL

\* A denied pair that is reported as denied has no open path, when no client of an earlier
\* keyword is about and every command of this one could be executed (guest.py).
THEOREM DenialsAreReal == Spec => []DenialIsReal
<1>1. GuestInv => DenialIsReal
  BY DEF GuestInv
<1> QED
  BY Inductive, <1>1, PTL

\* Between keywords no server runs, as long as every command could be executed, workloads
\* that raise included (guest.py).
THEOREM NoServerSurvives == Spec => []ServersStopped
<1>1. GuestInv => ServersStopped
  BY DEF GuestInv, ServersInUse, ServersStopped
<1> QED
  BY Inductive, <1>1, PTL

-------------------------------------------------------------------------------
(* VerifyTopology: TopologyInv is inductive, hence every destination is classified, no   *)
(* pair is both allowed and denied and each locality is driven, for every layout.        *)

\* A destination is in one of the three localities.
LEMMA LocalityType == \A s, e : Locality(s, e) \in Locs
  BY DEF Locality, Locs, numa_id

\* The initial state satisfies the invariant.
LEMMA TopologyInit == VtInit => TopologyInv
<1> SUFFICES ASSUME VtInit PROVE TopologyInv
  OBVIOUS
<1>1. eps \in Layouts /\ vt = NewVt /\ at = 1 /\ pc = "new"
  BY DEF VtInit
<1>2. eps \in Seq(Range(eps))
  BY <1>1, LayoutAssumption
<1>3. VtTypeOK
  BY <1>1, <1>2 DEF VtTypeOK, NewVt
<1>4. NoLoop
  BY <1>1 DEF NoLoop, NewVt, Range
<1>5. NoContradiction
  BY <1>1 DEF NoContradiction, NewVt, Pairs
<1>6. LookupProgress
  BY <1>1 DEF LookupProgress
<1> QED
  BY <1>3, <1>4, <1>5, <1>6 DEF TopologyInv


\* Appending to a list adds the element to its range, and keeps it injective when it is new.
LEMMA AppendRange ==
  ASSUME NEW S, NEW s \in Seq(S), NEW x \in S
  PROVE  /\ Append(s, x) \in Seq(S)
         /\ Range(Append(s, x)) = Range(s) \cup {x}
         /\ IsInjective(s) /\ x \notin Range(s) => IsInjective(Append(s, x))
<1> DEFINE t == Append(s, x)
<1>1. t \in Seq(S) /\ Len(t) = Len(s) + 1 /\ DOMAIN t = 1..Len(t) /\ DOMAIN s = 1..Len(s)
  OBVIOUS
<1>2. Len(s) \in Nat /\ t[Len(t)] = x /\ \A i \in DOMAIN s : i \in DOMAIN t /\ t[i] = s[i]
  OBVIOUS
<1>3. \A i \in DOMAIN t : i = Len(t) \/ i \in DOMAIN s
  BY <1>1, <1>2
<1> HIDE DEF t
<1>4. Range(t) = Range(s) \cup {x}
  BY <1>1, <1>2, <1>3 DEF Range
<1>5. IsInjective(s) /\ x \notin Range(s) => IsInjective(t)
  BY <1>1, <1>2, <1>3 DEF Range, IsInjective
<1> QED
  BY <1>1, <1>4, <1>5 DEF t

\* Lists of one element.
LEMMA OneElement ==
  /\ \A S : \A s \in Seq(S) : Len(s) <= 1 /\ s # <<>> => s[1] \in S /\ s = <<s[1]>>
  /\ \A x : DOMAIN <<x>> = {1} /\ Len(<<x>>) = 1 /\ <<x>> # <<>> /\ <<x>>[1] = x
<1>1. ASSUME NEW S, NEW s \in Seq(S), Len(s) <= 1, s # <<>>
      PROVE  s[1] \in S /\ s = <<s[1]>>
  <2>1. Len(s) = 1
    <3>1. Len(s) \in Nat /\ DOMAIN s = 1..Len(s)
      OBVIOUS
    <3>2. CASE Len(s) = 0
      BY <1>1, <3>1, <3>2
    <3> QED
      BY <1>1, <3>1, <3>2
  <2>2. 1 \in DOMAIN s
    BY <2>1
  <2>3. PICK x \in S : x = s[1]
    BY <2>2
  <2>4. PICK t \in Seq(S) : t = <<x>> /\ Len(t) = 1 /\ t[1] = x
    <3>1. <<x>> \in Seq(S)
      OBVIOUS
    <3>2. Len(<<x>>) = 1 /\ <<x>>[1] = x
      OBVIOUS
    <3> QED
      BY <3>1, <3>2
  <2>5. s = t
    <3>1. DOMAIN s = {1} /\ DOMAIN t = {1} /\ s[1] = t[1]
      BY <2>1, <2>3, <2>4
    <3>2. s = [i \in DOMAIN s |-> s[i]] /\ t = [i \in DOMAIN t |-> t[i]]
      OBVIOUS
    <3> QED
      BY <3>1, <3>2
  <2> QED
    BY <2>3, <2>4, <2>5
<1>2. ASSUME NEW x PROVE DOMAIN <<x>> = {1} /\ Len(<<x>>) = 1 /\ <<x>> # <<>> /\ <<x>>[1] = x
  <2>1. DOMAIN <<x>> = 1..1
    OBVIOUS
  <2>2. 1..1 = {1}
    OBVIOUS
  <2> QED
    BY <2>1, <2>2
<1> QED
  BY <1>1, <1>2

\* What one turn of the loops does to the list it appends to.
LEMMA AddToLemma ==
  ASSUME NEW list \in Seq(Entries), NEW found, FilledWith(list, found),
         eps \in Seq(Range(eps)), eps # <<>>, NEW e \in Range(eps), e \notin found
  PROVE  /\ AddTo(list, eps[1], e) \in Seq(Entries)
         /\ FilledWith(AddTo(list, eps[1], e), found \cup {e})
<1> DEFINE entries == IF \E i \in DOMAIN list : list[i].sep = eps[1] THEN list
                      ELSE Append(list, NewEntry(eps[1]))
           loc == Locality(eps[1], e)
<1>1. PICK b \in Entries :
        /\ entries = <<b>> /\ b.sep = eps[1]
        /\ \A l \in Locs : /\ Range(b.deps[l]) = {d \in found : Locality(eps[1], d) = l}
                           /\ IsInjective(b.deps[l])
  <2>1. CASE list = <<>>
    <3>1. eps[1] \in Range(eps)
      BY DEF Range
    <3>2. NewEntry(eps[1]) \in Entries
      BY <3>1 DEF NewEntry, Entries
    <3>3. entries = <<NewEntry(eps[1])>>
      BY <2>1
    <3>4. found = {}
      BY <2>1 DEF FilledWith
    <3> QED
      BY <3>2, <3>3, <3>4 DEF NewEntry, Range, IsInjective
  <2>2. CASE list # <<>>
    <3>2. list = <<list[1]>> /\ list[1] \in Entries
      BY <2>2, OneElement DEF FilledWith
    <3>1. DOMAIN list = {1}
      BY <3>2, OneElement, Zenon
    <3>3. entries = list
      BY <3>1 DEF FilledWith
    <3> QED
      BY <3>1, <3>2, <3>3 DEF FilledWith
  <2> QED
    BY <2>1, <2>2
<1>2. loc \in Locs
  BY LocalityType
<1>3. b = [sep |-> b.sep, deps |-> b.deps] /\ b.deps \in [Locs -> Seq(Range(eps))]
  BY DEF Entries
<1> DEFINE c == [b EXCEPT !.deps[loc] = Append(@, e)]
<1>4. /\ c \in Entries /\ c.sep = b.sep
      /\ c.deps = [b.deps EXCEPT ![loc] = Append(b.deps[loc], e)]
  <2>1. Append(b.deps[loc], e) \in Seq(Range(eps))
    BY <1>2, <1>3
  <2> QED
    BY <1>3, <2>1 DEF Entries
<1>5. AddTo(list, eps[1], e) = <<c>>
  <2>1. (CHOOSE k \in DOMAIN entries : entries[k].sep = eps[1]) = 1
    <3>1. DOMAIN entries = {1} /\ entries[1] = b
      BY <1>1, OneElement, Zenon
    <3> QED
      BY <1>1, <3>1
  <2>2. AddTo(list, eps[1], e) = [entries EXCEPT ![1].deps[loc] = Append(@, e)]
    BY <2>1 DEF AddTo
  <2>3. [<<b>> EXCEPT ![1].deps[loc] = Append(@, e)] = <<c>>
    <3>1. <<b>> \in Seq({b}) /\ <<b>>[1] = b /\ Len(<<b>>) = 1
      OBVIOUS
    <3>2. [<<b>> EXCEPT ![1].deps[loc] = Append(@, e)] = [<<b>> EXCEPT ![1] = c]
      BY <3>1
    <3> HIDE DEF c
    <3>3. [<<b>> EXCEPT ![1] = c] = <<c>>
      BY <3>1
    <3> QED
      BY <3>2, <3>3
  <2> QED
    BY <1>1, <2>2, <2>3
<1>6. ASSUME NEW l \in Locs
      PROVE  /\ Range(c.deps[l]) = {d \in found \cup {e} : Locality(eps[1], d) = l}
             /\ IsInjective(c.deps[l])
  <2>1. CASE l = loc
    <3>1. c.deps[l] = Append(b.deps[loc], e)
      BY <1>2, <1>3, <1>4, <2>1
    <3>2. b.deps[loc] \in Seq(Range(eps))
      BY <1>2, <1>3
    <3>3. e \notin Range(b.deps[loc])
      BY <1>1, <1>2
    <3>4. Range(c.deps[l]) = Range(b.deps[loc]) \cup {e} /\ IsInjective(c.deps[l])
      <4>1. IsInjective(b.deps[loc])
        BY <1>1, <1>2
      <4> HIDE DEF c, loc
      <4> QED
        BY <3>1, <3>2, <3>3, <4>1, AppendRange
    <3> QED
      BY <1>1, <1>2, <2>1, <3>4
  <2>2. CASE l # loc
    <3>1. c.deps[l] = b.deps[l]
      BY <1>2, <1>3, <1>4, <2>2
    <3> QED
      BY <1>1, <2>2, <3>1
  <2> QED
    BY <2>1, <2>2
<1> HIDE DEF c
<1>7. <<c>> \in Seq(Entries)
  BY <1>4
<1>8. FilledWith(<<c>>, found \cup {e})
  <2>1. Len(<<c>>) = 1 /\ <<c>> # <<>> /\ DOMAIN <<c>> = {1} /\ <<c>>[1] = c
    BY OneElement, Zenon
  <2>2. \A i \in DOMAIN <<c>> : <<c>>[i] = c
    BY <2>1
  <2>3. c.sep = eps[1] /\ Len(<<c>>) <= 1
    BY <1>1, <1>4, <2>1
  <2> QED
    BY <1>6, <2>1, <2>2, <2>3 DEF FilledWith
<1> QED
  BY <1>5, <1>7, <1>8


\* The elements of two lists in a row.
LEMMA ConcatRange ==
  ASSUME NEW S, NEW s \in Seq(S), NEW t \in Seq(S)
  PROVE  /\ s \o t \in Seq(S)
         /\ Range(s \o t) = Range(s) \cup Range(t)
         /\ /\ IsInjective(s) /\ IsInjective(t)
            /\ Range(s) \cap Range(t) = {}
            => IsInjective(s \o t)
<1> DEFINE u == s \o t
<1>1. /\ u \in Seq(S) /\ Len(u) = Len(s) + Len(t)
      /\ DOMAIN u = 1..Len(u) /\ DOMAIN s = 1..Len(s) /\ DOMAIN t = 1..Len(t)
      /\ Len(s) \in Nat /\ Len(t) \in Nat
  OBVIOUS
<1>2. \A i \in DOMAIN u : u[i] = IF i <= Len(s) THEN s[i] ELSE t[i - Len(s)]
  OBVIOUS
<1> HIDE DEF u
<1>3. \A i \in DOMAIN s : i \in DOMAIN u /\ u[i] = s[i]
  BY <1>1, <1>2
<1>4. \A i \in DOMAIN t : i + Len(s) \in DOMAIN u /\ u[i + Len(s)] = t[i]
  BY <1>1, <1>2
<1>5. \A i \in DOMAIN u : \/ i \in DOMAIN s /\ u[i] = s[i]
                          \/ i - Len(s) \in DOMAIN t /\ u[i] = t[i - Len(s)] /\ i > Len(s)
  BY <1>1, <1>2
<1>6. Range(u) = Range(s) \cup Range(t)
  BY <1>3, <1>4, <1>5 DEF Range
<1>7. ASSUME IsInjective(s), IsInjective(t), Range(s) \cap Range(t) = {}
      PROVE  IsInjective(u)
  <2> SUFFICES ASSUME NEW i \in DOMAIN u, NEW j \in DOMAIN u, u[i] = u[j] PROVE i = j
    BY DEF IsInjective
  <2>1. ASSUME NEW x \in DOMAIN s, NEW y \in DOMAIN t PROVE s[x] # t[y]
    BY <1>7 DEF Range
  <2>2. CASE i \in DOMAIN s /\ u[i] = s[i] /\ j \in DOMAIN s /\ u[j] = s[j]
    BY <1>7, <2>2 DEF IsInjective
  <2>3. CASE /\ i - Len(s) \in DOMAIN t /\ u[i] = t[i - Len(s)]
             /\ j - Len(s) \in DOMAIN t /\ u[j] = t[j - Len(s)]
    <3>1. i - Len(s) = j - Len(s)
      BY <1>7, <2>3 DEF IsInjective
    <3> QED
      BY <1>1, <3>1
  <2> QED
    BY <1>5, <2>1, <2>2, <2>3
<1> QED
  BY <1>1, <1>6, <1>7 DEF u

\* All destinations of an entry.
LEMMA FullDeps ==
  ASSUME NEW e \in Entries
  PROVE  /\ Range(get_full_deps(e)) = UNION {Range(e.deps[l]) : l \in Locs}
         /\ /\ \A l \in Locs : IsInjective(e.deps[l])
            /\ \A l, m \in Locs : l # m => Range(e.deps[l]) \cap Range(e.deps[m]) = {}
            => IsInjective(get_full_deps(e))
<1> DEFINE S == Range(eps)
<1>1. PICK a, b, c \in Seq(S) :
        a = e.deps["NUMA"] /\ b = e.deps["XNUMA"] /\ c = e.deps["XHOST"]
  BY DEF Entries, Locs
<1>2. get_full_deps(e) = (a \o b) \o c
  BY <1>1 DEF get_full_deps
<1>3. /\ a \o b \in Seq(S)
      /\ Range(a \o b) = Range(a) \cup Range(b)
      /\ IsInjective(a) /\ IsInjective(b) /\ Range(a) \cap Range(b) = {}
         => IsInjective(a \o b)
  BY ConcatRange
<1>4. PICK d \in Seq(S) : d = a \o b
  BY <1>3
<1>5. /\ Range(d \o c) = Range(d) \cup Range(c)
      /\ IsInjective(d) /\ IsInjective(c) /\ Range(d) \cap Range(c) = {}
         => IsInjective(d \o c)
  BY ConcatRange
<1>6. UNION {Range(e.deps[l]) : l \in Locs} = Range(a) \cup Range(b) \cup Range(c)
  BY <1>1 DEF Locs
<1>7. ASSUME \A l \in Locs : IsInjective(e.deps[l]),
             \A l, m \in Locs : l # m => Range(e.deps[l]) \cap Range(e.deps[m]) = {}
      PROVE  IsInjective(get_full_deps(e))
  <2>1. IsInjective(a) /\ IsInjective(b) /\ IsInjective(c)
    BY <1>1, <1>7 DEF Locs
  <2>2. /\ Range(a) \cap Range(b) = {}
        /\ Range(a) \cap Range(c) = {} /\ Range(b) \cap Range(c) = {}
    BY <1>1, <1>7 DEF Locs
  <2>3. IsInjective(d)
    BY <1>3, <1>4, <2>1, <2>2
  <2>4. Range(d) \cap Range(c) = {}
    BY <1>3, <1>4, <2>2
  <2> QED
    BY <1>2, <1>4, <1>5, <2>1, <2>3, <2>4
<1> QED
  BY <1>2, <1>3, <1>4, <1>5, <1>6, <1>7

\* The pairs of a list of entries.
LEMMA PairsOf ==
  ASSUME NEW list \in Seq(Entries)
  PROVE  \A p : p \in Pairs(list) <=>
                  \E i \in DOMAIN list : \E l \in Locs : \E d \in Range(list[i].deps[l]) :
                    p = <<list[i].sep, d>>
<1>1. \A i \in DOMAIN list : list[i] \in Entries
  OBVIOUS
<1>2. \A i \in DOMAIN list : Range(get_full_deps(list[i]))
                               = UNION {Range(list[i].deps[l]) : l \in Locs}
  BY <1>1, FullDeps
<1> QED
  BY <1>2 DEF Pairs

\* What verify_topology_get has filled: the pairs of the source with what it found.
LEMMA FilledPairs ==
  ASSUME NEW list \in Seq(Entries), NEW found, FilledWith(list, found)
  PROVE  /\ Pairs(list) = {<<eps[1], e>> : e \in found}
         /\ \A i \in DOMAIN list : IsInjective(get_full_deps(list[i]))
<1>1. ASSUME NEW i \in DOMAIN list
      PROVE  /\ list[i].sep = eps[1] /\ list[i] \in Entries
             /\ \A l \in Locs :
                  /\ Range(list[i].deps[l]) = {e \in found : Locality(eps[1], e) = l}
                  /\ IsInjective(list[i].deps[l])
  BY DEF FilledWith
<1>2. \A i \in DOMAIN list : IsInjective(get_full_deps(list[i]))
  <2> SUFFICES ASSUME NEW i \in DOMAIN list PROVE IsInjective(get_full_deps(list[i]))
    OBVIOUS
  <2>1. \A l, m \in Locs :
          l # m => Range(list[i].deps[l]) \cap Range(list[i].deps[m]) = {}
    <3> SUFFICES ASSUME NEW l \in Locs, NEW m \in Locs, l # m,
                        NEW e \in Range(list[i].deps[l]), e \in Range(list[i].deps[m])
                 PROVE  FALSE
      OBVIOUS
    <3>1. Locality(eps[1], e) = l
      BY <1>1
    <3>2. Locality(eps[1], e) = m
      BY <1>1
    <3> QED
      BY <3>1, <3>2
  <2> QED
    BY <1>1, <2>1, FullDeps
<1>3. ASSUME NEW p \in Pairs(list) PROVE p \in {<<eps[1], e>> : e \in found}
  BY <1>1, PairsOf
<1>4. ASSUME NEW e \in found PROVE <<eps[1], e>> \in Pairs(list)
  <2>1. list # <<>>
    BY DEF FilledWith
  <2>2. 1 \in DOMAIN list
    BY <2>1
  <2>3. Locality(eps[1], e) \in Locs
    BY LocalityType
  <2>4. e \in Range(list[1].deps[Locality(eps[1], e)])
    BY <1>1, <2>2, <2>3
  <2>5. <<eps[1], e>> = <<list[1].sep, e>>
    BY <1>1, <2>2
  <2> QED
    BY <2>2, <2>3, <2>4, <2>5, PairsOf
<1>5. Pairs(list) = {<<eps[1], e>> : e \in found}
  BY <1>3, <1>4
<1> QED
  BY <1>2, <1>5

\* While verify_topology_get is at work, and when it has ended, no pair is in both lists
\* and none is of an endpoint with itself.
LEMMA LookupSound ==
  VtTypeOK /\ LookupProgress /\ pc \in {"lookup", "get"} => NoLoop /\ NoContradiction
<1> SUFFICES ASSUME VtTypeOK, LookupProgress, pc \in {"lookup", "get"}
             PROVE  NoLoop /\ NoContradiction
  OBVIOUS
<1> DEFINE A == {e \in Found : e.vni = eps[1].vni}
           D == {e \in Found : e.vni # eps[1].vni}
<1>1. /\ vt.allow \in Seq(Entries) /\ vt.deny \in Seq(Entries)
      /\ FilledWith(vt.allow, A) /\ FilledWith(vt.deny, D)
  BY DEF VtTypeOK, LookupProgress
<1>2. A \cap D = {} /\ eps[1] \notin A /\ eps[1] \notin D
  BY DEF Found, IsDestination
<1> HIDE DEF A, D
<1>3. NoContradiction
  <2>1. /\ Pairs(vt.allow) = {<<eps[1], e>> : e \in A}
        /\ Pairs(vt.deny) = {<<eps[1], e>> : e \in D}
    BY <1>1, FilledPairs
  <2> QED
    BY <1>2, <2>1 DEF NoContradiction
<1>4. NoLoop
  <2> SUFFICES ASSUME NEW e \in Range(vt.allow) \cup Range(vt.deny), NEW l \in Locs
               PROVE  e.sep \notin Range(e.deps[l])
    BY DEF NoLoop
  <2>1. CASE e \in Range(vt.allow)
    BY <1>1, <1>2, <2>1 DEF FilledWith, Range
  <2>2. CASE e \in Range(vt.deny)
    BY <1>1, <1>2, <2>2 DEF FilledWith, Range
  <2> QED
    BY <2>1, <2>2
<1> QED
  BY <1>3, <1>4


\* The steps of verify_topology_get.
LEMMA LookupInv ==
  ASSUME TopologyInv,
         verify_topology_get \/ AddDestination \/ EndLookup
  PROVE  TopologyInv'
<1>1. /\ eps \in Layouts /\ eps \in Seq(Range(eps)) /\ IsInjective(eps)
      /\ vt \in [allow : Seq(Entries), deny : Seq(Entries)]
      /\ at \in 1..(Len(eps) + 1)
  BY LayoutAssumption DEF TopologyInv, VtTypeOK
<1>2. eps' = eps
  BY DEF verify_topology_get, AddDestination, EndLookup
<1>3. VtTypeOK' /\ LookupProgress' /\ (pc \in {"lookup", "get"})'
  <2>1. CASE verify_topology_get
    <3>1. vt' = NewVt /\ at' = 1 /\ pc' = "lookup" /\ vt' = vt
      BY <2>1 DEF verify_topology_get, TopologyInv, LookupProgress
    <3>2. VtTypeOK'
      BY <1>1, <1>2, <3>1 DEF VtTypeOK, Entries
    <3>3. (Found = {})'
      BY <1>2, <3>1 DEF Found
    <3>4. (vt.allow = <<>> /\ vt.deny = <<>>)'
      BY <3>1 DEF NewVt
    <3> QED
      BY <3>1, <3>2, <3>3, <3>4 DEF LookupProgress, FilledWith
  <2>2. CASE AddDestination
    <3> DEFINE e == eps[at]
               A == {d \in Found : d.vni = eps[1].vni}
               D == {d \in Found : d.vni # eps[1].vni}
    <3>1. /\ pc = "lookup" /\ pc' = "lookup" /\ at \in 1..Len(eps) /\ at' = at + 1
          /\ vt' = IF ~IsDestination(e) THEN vt
                   ELSE IF e.vni = eps[1].vni THEN [vt EXCEPT !.allow = AddTo(@, eps[1], e)]
                   ELSE [vt EXCEPT !.deny = AddTo(@, eps[1], e)]
      BY <1>1, <2>2 DEF AddDestination
    <3>2. FilledWith(vt.allow, A) /\ FilledWith(vt.deny, D)
      BY <3>1 DEF TopologyInv, LookupProgress
    <3>3. e \in Range(eps) /\ eps # <<>> /\ Len(eps) \in Nat /\ DOMAIN eps = 1..Len(eps)
      BY <1>1, <3>1 DEF Range
    <3>4. e \notin Found
      <4>1. ASSUME NEW k \in 1..(at - 1) PROVE eps[k] # eps[at]
        BY <1>1, <3>1, <3>3 DEF IsInjective
      <4> QED
        BY <4>1 DEF Found
    <3>5. Found' = IF IsDestination(e) THEN Found \cup {e} ELSE Found
      <4>1. {eps[k] : k \in 1..(at' - 1)} = {eps[k] : k \in 1..(at - 1)} \cup {eps[at]}
        BY <1>1, <3>1, SMTT(30)
      <4>2. Found' = {d \in {eps[k] : k \in 1..(at' - 1)} : IsDestination(d)}
        BY <1>2 DEF Found, IsDestination
      <4> QED
        BY <4>1, <4>2 DEF Found
    <3>6. /\ Entries' = Entries
          /\ \A list, found : FilledWith(list, found)' = FilledWith(list, found)
      BY <1>2 DEF Entries, FilledWith
    <3> DEFINE B == {d \in Found' : d.vni = eps[1].vni}
               E == {d \in Found' : d.vni # eps[1].vni}
    <3>7. SUFFICES /\ vt' \in [allow : Seq(Entries), deny : Seq(Entries)]
                   /\ FilledWith(vt'.allow, B) /\ FilledWith(vt'.deny, E)
      <4>1. VtTypeOK'
        BY <1>1, <1>2, <3>1, <3>3, <3>6, <3>7 DEF VtTypeOK
      <4>2. LookupProgress'
        <5>1. FilledWith(vt.allow, {d \in Found : d.vni = eps[1].vni})'
          BY <1>2, <3>7 DEF FilledWith
        <5>2. FilledWith(vt.deny, {d \in Found : d.vni # eps[1].vni})'
          BY <1>2, <3>7 DEF FilledWith
        <5> QED
          BY <3>1, <5>1, <5>2 DEF LookupProgress
      <4> QED
        BY <3>1, <4>1, <4>2
    <3>8. CASE ~IsDestination(e)
      <4>1. vt' = vt /\ A = B /\ D = E
        BY <3>1, <3>5, <3>8
      <4> QED
        BY <1>1, <3>2, <4>1
    <3>9. CASE IsDestination(e) /\ e.vni = eps[1].vni
      <4>1. vt' = [vt EXCEPT !.allow = AddTo(vt.allow, eps[1], e)]
        BY <3>1, <3>9
      <4>2. e \notin A /\ B = A \cup {e} /\ E = D
        BY <3>4, <3>5, <3>9
      <4> HIDE DEF e, A, B, D, E
      <4>3. /\ AddTo(vt.allow, eps[1], e) \in Seq(Entries)
            /\ FilledWith(AddTo(vt.allow, eps[1], e), A \cup {e})
        BY <1>1, <3>2, <3>3, <4>2, AddToLemma
      <4> QED
        BY <1>1, <3>2, <4>1, <4>2, <4>3
    <3>10. CASE IsDestination(e) /\ e.vni # eps[1].vni
      <4>1. vt' = [vt EXCEPT !.deny = AddTo(vt.deny, eps[1], e)]
        BY <3>1, <3>10
      <4>2. e \notin D /\ E = D \cup {e} /\ B = A
        BY <3>4, <3>5, <3>10
      <4> HIDE DEF e, A, B, D, E
      <4>3. /\ AddTo(vt.deny, eps[1], e) \in Seq(Entries)
            /\ FilledWith(AddTo(vt.deny, eps[1], e), D \cup {e})
        BY <1>1, <3>2, <3>3, <4>2, AddToLemma
      <4> QED
        BY <1>1, <3>2, <4>1, <4>2, <4>3
    <3> QED
      BY <3>8, <3>9, <3>10
  <2>3. CASE EndLookup
    <3>1. vt' = vt /\ at' = at /\ pc = "lookup" /\ pc' = "get" /\ at > Len(eps)
      BY <2>3 DEF EndLookup
    <3>2. VtTypeOK'
      BY <1>1, <1>2, <3>1 DEF VtTypeOK, Entries
    <3>3. at' = Len(eps') + 1
      BY <1>1, <1>2, <3>1
    <3>4. /\ FilledWith(vt.allow, {d \in Found : d.vni = eps[1].vni})
          /\ FilledWith(vt.deny, {d \in Found : d.vni # eps[1].vni})
      BY <3>1 DEF TopologyInv, LookupProgress
    <3>5. /\ Found' = Found
          /\ \A list, found : FilledWith(list, found)' = FilledWith(list, found)
      BY <1>2, <3>1 DEF Found, IsDestination, FilledWith
    <3>6. LookupProgress'
      BY <1>2, <3>1, <3>3, <3>4, <3>5 DEF LookupProgress
    <3> QED
      BY <3>1, <3>2, <3>6
  <2> QED
    BY <2>1, <2>2, <2>3
<1>4. NoLoop' /\ NoContradiction'
  BY <1>3, LookupSound, PTL
<1> QED
  BY <1>3, <1>4 DEF TopologyInv


\* The deny entries that allow_originate makes: each of a destination, back to the source.
LEMMA ReversedEntries ==
  ASSUME NEW vte \in Entries, NEW l \in Locs
  PROVE  /\ Reversed(vte, l) \in Seq(Entries)
         /\ \A e \in Range(Reversed(vte, l)) :
              /\ e.sep \in Range(vte.deps[l])
              /\ \A m \in Locs : Range(e.deps[m]) \subseteq {vte.sep}
<1>1. PICK s \in Seq(Range(eps)) : s = vte.deps[l]
  BY DEF Entries
<1>2. vte.sep \in Range(eps)
  BY DEF Entries
<1> DEFINE back == [NewEntry(vte.sep).deps EXCEPT ![l] = <<vte.sep>>]
           rev == [i \in DOMAIN s |-> [sep |-> s[i], deps |-> back]]
<1>3. back \in [Locs -> Seq(Range(eps))]
  <2>1. back = [m \in Locs |-> IF m = l THEN <<vte.sep>> ELSE <<>>]
    BY DEF NewEntry
  <2>2. <<vte.sep>> \in Seq(Range(eps)) /\ <<>> \in Seq(Range(eps))
    BY <1>2
  <2> QED
    BY <2>1, <2>2
<1>4. \A m \in Locs : back[m] = <<>> \/ back[m] = <<vte.sep>>
  BY DEF NewEntry
<1>5. \A m \in Locs : Range(back[m]) \subseteq {vte.sep}
  <2>1. Range(<<>>) = {} /\ Range(<<vte.sep>>) = {vte.sep}
    BY DEF Range
  <2> QED
    BY <1>4, <2>1
<1>6. Reversed(vte, l) = rev
  BY <1>1 DEF Reversed
<1> HIDE DEF back
<1>7. DOMAIN s = 1..Len(s) /\ Len(s) \in Nat /\ \A i \in DOMAIN s : s[i] \in Range(eps)
  OBVIOUS
<1>8. \A i \in DOMAIN s : [sep |-> s[i], deps |-> back] \in Entries
  BY <1>3, <1>7 DEF Entries
<1>9. rev \in Seq(Entries)
  BY <1>7, <1>8
<1>10. \A e \in Range(rev) : e.sep \in Range(s) /\ e.deps = back
  BY DEF Range
<1> QED
  BY <1>1, <1>5, <1>6, <1>9, <1>10

\* The keywords that turn a topology round, select from it or invert it.
LEMMA TurnInv ==
  ASSUME TopologyInv,
         \/ verify_topology_allow_originate
         \/ \E l \in Locs : verify_topology_select_pair(l)
         \/ verify_topology_change_allow_to_deny \/ verify_topology_change_deny_to_allow
  PROVE  TopologyInv'
<1>1. /\ eps \in Layouts /\ vt.allow \in Seq(Entries) /\ vt.deny \in Seq(Entries)
      /\ vt \in [allow : Seq(Entries), deny : Seq(Entries)]
      /\ at \in 1..(Len(eps) + 1)
  BY DEF TopologyInv, VtTypeOK
<1>2. /\ eps' = eps /\ at' = at
      /\ pc' \in {"originate", "deny", "allow"} \cup Locs
  BY DEF verify_topology_allow_originate, verify_topology_select_pair,
         verify_topology_change_allow_to_deny, verify_topology_change_deny_to_allow
<1>3. Entries' = Entries
  BY <1>2 DEF Entries
<1>4. ASSUME NEW e \in Range(vt.allow) \cup Range(vt.deny), NEW l \in Locs
      PROVE  e.sep \notin Range(e.deps[l])
  BY DEF TopologyInv, NoLoop
<1>5. SUFFICES /\ vt' \in [allow : Seq(Entries), deny : Seq(Entries)]
               /\ \A e \in Range(vt'.allow) \cup Range(vt'.deny) :
                    \A l \in Locs : e.sep \notin Range(e.deps[l])
               /\ Pairs(vt'.allow) \cap Pairs(vt'.deny) = {}
  <2>1. VtTypeOK'
    BY <1>1, <1>2, <1>3, <1>5 DEF VtTypeOK
  <2>2. NoLoop'
    BY <1>5 DEF NoLoop
  <2>3. NoContradiction'
    BY <1>5 DEF NoContradiction
  <2>4. LookupProgress'
    BY <1>2 DEF LookupProgress, Locs
  <2> QED
    BY <2>1, <2>2, <2>3, <2>4 DEF TopologyInv
<1>6. Pairs(<<>>) = {} /\ Range(<<>>) = {}
  BY DEF Pairs, Range
<1>7. CASE verify_topology_change_allow_to_deny
  <2>1. vt' = [allow |-> <<>>, deny |-> vt.allow]
    BY <1>7 DEF verify_topology_change_allow_to_deny
  <2> QED
    BY <1>1, <1>4, <1>6, <2>1
<1>8. CASE verify_topology_change_deny_to_allow
  <2>1. vt' = [allow |-> vt.deny, deny |-> <<>>]
    BY <1>8 DEF verify_topology_change_deny_to_allow
  <2> QED
    BY <1>1, <1>4, <1>6, <2>1
<1>9. ASSUME vt.allow # <<>>
      PROVE  /\ vt.allow[1] \in Entries
             /\ \A l \in Locs : vt.allow[1].sep \notin Range(vt.allow[1].deps[l])
  <2>1. 1 \in DOMAIN vt.allow /\ vt.allow[1] \in Entries
    BY <1>1, <1>9
  <2>2. vt.allow[1] \in Range(vt.allow)
    BY <2>1 DEF Range
  <2> QED
    BY <1>4, <2>1, <2>2
<1>10. ASSUME NEW x \in Entries
       PROVE  <<x>> \in Seq(Entries) /\ Range(<<x>>) = {x}
  BY DEF Range
<1>11. ASSUME NEW l \in Locs, verify_topology_select_pair(l)
       PROVE  /\ vt' \in [allow : Seq(Entries), deny : Seq(Entries)]
              /\ \A e \in Range(vt'.allow) \cup Range(vt'.deny) :
                   \A m \in Locs : e.sep \notin Range(e.deps[m])
              /\ Pairs(vt'.allow) \cap Pairs(vt'.deny) = {}
  <2>1. PICK vte \in Entries :
          /\ vte.deps[l] # <<>>
          /\ \A m \in Locs : vte.sep \notin Range(vte.deps[m])
          /\ vt' = [allow |-> <<[NewEntry(vte.sep) EXCEPT !.deps[l] = <<vte.deps[l][1]>>]>>,
                    deny |-> <<>>]
    BY <1>9, <1>11 DEF verify_topology_select_pair
  <2>2. PICK s \in Seq(Range(eps)) : s = vte.deps[l] /\ s # <<>>
    BY <2>1 DEF Entries
  <2>3. s[1] \in Range(eps) /\ s[1] \in Range(s) /\ vte.sep \in Range(eps)
    BY <2>2 DEF Range, Entries
  <2> DEFINE x == [sep |-> vte.sep,
                   deps |-> [m \in Locs |-> IF m = l THEN <<s[1]>> ELSE <<>>]]
  <2>4. [NewEntry(vte.sep) EXCEPT !.deps[l] = <<vte.deps[l][1]>>] = x
    BY <2>2 DEF NewEntry
  <2>5. x \in Entries
    BY <2>3 DEF Entries
  <2>6. \A m \in Locs : x.sep \notin Range(x.deps[m])
    <3>1. Range(<<s[1]>>) = {s[1]} /\ vte.sep # s[1]
      BY <2>1, <2>2, <2>3 DEF Range
    <3> QED
      BY <1>6, <3>1
  <2>7. vt' = [allow |-> <<x>>, deny |-> <<>>]
    BY <2>1, <2>4
  <2> HIDE DEF x
  <2> QED
    BY <1>6, <1>10, <2>5, <2>6, <2>7
<1>12. CASE verify_topology_allow_originate
  <2>1. PICK vte \in Entries :
          /\ \A m \in Locs : vte.sep \notin Range(vte.deps[m])
          /\ vt' = [allow |-> <<vte>>,
                    deny |-> Reversed(vte, "NUMA") \o Reversed(vte, "XNUMA")
                             \o Reversed(vte, "XHOST")]
    BY <1>9, <1>12 DEF verify_topology_allow_originate
  <2>2. PICK a, b, c \in Seq(Entries) :
          /\ a = Reversed(vte, "NUMA") /\ b = Reversed(vte, "XNUMA")
          /\ c = Reversed(vte, "XHOST")
    BY ReversedEntries DEF Locs
  <2>3. \A e \in Range(a) \cup Range(b) \cup Range(c) :
          /\ \E l \in Locs : e.sep \in Range(vte.deps[l])
          /\ \A m \in Locs : Range(e.deps[m]) \subseteq {vte.sep}
    BY <2>2, ReversedEntries DEF Locs
  <2>4. a \o b \in Seq(Entries) /\ Range(a \o b) = Range(a) \cup Range(b)
    BY ConcatRange
  <2>5. PICK d \in Seq(Entries) :
          d = (a \o b) \o c /\ Range(d) = Range(a \o b) \cup Range(c)
    <3>1. PICK f \in Seq(Entries) : f = a \o b
      BY <2>4
    <3>2. f \o c \in Seq(Entries) /\ Range(f \o c) = Range(f) \cup Range(c)
      BY ConcatRange
    <3> QED
      BY <3>1, <3>2
  <2>6. vt' = [allow |-> <<vte>>, deny |-> d]
    BY <2>1, <2>2, <2>5
  <2>7. \A e \in Range(d) : /\ e.sep # vte.sep
                            /\ \A m \in Locs : Range(e.deps[m]) \subseteq {vte.sep}
    BY <2>1, <2>3, <2>4, <2>5
  <2>8. \A p \in Pairs(<<vte>>) : p[1] = vte.sep
    <3>1. \A i \in DOMAIN <<vte>> : <<vte>>[i] = vte
      OBVIOUS
    <3>2. <<vte>> \in Seq(Entries)
      OBVIOUS
    <3>3. PICK f \in Seq(Entries) : f = <<vte>> /\ \A i \in DOMAIN f : f[i].sep = vte.sep
      BY <3>1, <3>2
    <3>4. ASSUME NEW p \in Pairs(f) PROVE p[1] = vte.sep
      <4>1. PICK i \in DOMAIN f :
              \E l \in Locs : \E d1 \in Range(f[i].deps[l]) : p = <<f[i].sep, d1>>
        BY PairsOf
      <4> QED
        BY <3>3, <4>1
    <3> QED
      BY <3>3, <3>4
  <2>9. \A p \in Pairs(d) : p[1] # vte.sep
    <3>1. \A i \in DOMAIN d : d[i].sep # vte.sep
      BY <2>7 DEF Range
    <3>2. ASSUME NEW p \in Pairs(d) PROVE p[1] # vte.sep
      <4>1. PICK i \in DOMAIN d :
              \E l \in Locs : \E d1 \in Range(d[i].deps[l]) : p = <<d[i].sep, d1>>
        BY PairsOf
      <4> QED
        BY <3>1, <4>1
    <3> QED
      BY <3>2
  <2>10. Pairs(<<vte>>) \cap Pairs(d) = {}
    BY <2>8, <2>9
  <2>11. vt'.allow = <<vte>> /\ vt'.deny = d
    BY <2>6
  <2>12. vt' \in [allow : Seq(Entries), deny : Seq(Entries)]
    BY <1>10, <2>6
  <2>13. Range(vt'.allow) \cup Range(vt'.deny) = {vte} \cup Range(d)
    BY <1>10, <2>11
  <2>14. \A e \in {vte} \cup Range(d) : \A l \in Locs : e.sep \notin Range(e.deps[l])
    BY <2>1, <2>7
  <2> QED
    BY <2>10, <2>11, <2>12, <2>13, <2>14
<1> QED
  BY <1>7, <1>8, <1>11, <1>12


\* TopologyInv is inductive.
THEOREM TopologyInductive == VtSpec => []TopologyInv
<1>1. TopologyInv /\ [VtNext]_vtVars => TopologyInv'
  <2> SUFFICES ASSUME TopologyInv, [VtNext]_vtVars PROVE TopologyInv'
    OBVIOUS
  <2>1. CASE \/ RaiseRuntimeError \/ Over \/ UNCHANGED vtVars
    <3>1. eps' = eps /\ vt' = vt /\ at' = at /\ (pc' = pc \/ pc' = "raised")
      BY <2>1 DEF RaiseRuntimeError, Over, vtVars
    <3>2. VtTypeOK'
      BY <3>1 DEF TopologyInv, VtTypeOK, Entries
    <3>3. NoLoop' /\ NoContradiction'
      BY <3>1 DEF TopologyInv, NoLoop, NoContradiction
    <3>4. LookupProgress'
      <4>1. LookupProgress
        BY DEF TopologyInv
      <4>2. CASE pc' = "raised"
        BY <4>2 DEF LookupProgress
      <4>3. CASE pc' = pc
        <5>1. Found' = Found
          BY <3>1 DEF Found, IsDestination
        <5>2. {e \in Found' : e.vni = eps'[1].vni} = {e \in Found : e.vni = eps[1].vni}
          BY <3>1, <5>1
        <5>3. {e \in Found' : e.vni # eps'[1].vni} = {e \in Found : e.vni # eps[1].vni}
          BY <3>1, <5>1
        <5>4. FilledWith(vt.allow, {e \in Found : e.vni = eps[1].vni})
                => FilledWith(vt.allow, {e \in Found : e.vni = eps[1].vni})'
          BY <3>1, <5>2 DEF FilledWith
        <5>5. FilledWith(vt.deny, {e \in Found : e.vni # eps[1].vni})
                => FilledWith(vt.deny, {e \in Found : e.vni # eps[1].vni})'
          BY <3>1, <5>3 DEF FilledWith
        <5> QED
          BY <3>1, <4>1, <4>3, <5>4, <5>5 DEF LookupProgress
      <4> QED
        BY <3>1, <4>2, <4>3
    <3> QED
      BY <3>2, <3>3, <3>4 DEF TopologyInv
  <2> QED
    BY <2>1, LookupInv, TurnInv DEF VtNext
<1>2. VtInit => TopologyInv
  BY TopologyInit
<1> QED
  BY <1>1, <1>2, PTL DEF VtSpec

\* No sequence of the keywords makes traffic both allowed and denied.
THEOREM NeverBoth == VtSpec => []NoContradiction
  BY TopologyInductive, PTL DEF TopologyInv

\* verify_topology_get has every other endpoint of the source's subnet in one list, by its
\* VNI, once, under one entry.
THEOREM EachInOneList == VtSpec => []Classified
<1>1. TopologyInv => Classified
  <2> SUFFICES ASSUME TopologyInv, pc = "get" PROVE Classified
    BY DEF Classified
  <2> DEFINE others == {e \in Range(eps) : e # eps[1] /\ e.subnet = eps[1].subnet}
             A == {o \in others : o.vni = eps[1].vni}
             D == {o \in others : o.vni # eps[1].vni}
  <2>1. /\ eps \in Seq(Range(eps)) /\ at = Len(eps) + 1
        /\ vt.allow \in Seq(Entries) /\ vt.deny \in Seq(Entries)
    BY LayoutAssumption DEF TopologyInv, VtTypeOK, LookupProgress
  <2>2. Found = others
    <3>1. Len(eps) \in Nat /\ DOMAIN eps = 1..Len(eps) /\ at - 1 = Len(eps)
      BY <2>1
    <3>2. {eps[k] : k \in 1..(at - 1)} = Range(eps)
      BY <3>1 DEF Range
    <3> QED
      BY <3>2 DEF Found, IsDestination
  <2>3. FilledWith(vt.allow, A) /\ FilledWith(vt.deny, D)
    BY <2>2 DEF TopologyInv, LookupProgress
  <2> HIDE DEF A, D
  <2>4. /\ Pairs(vt.allow) = {<<eps[1], e>> : e \in A}
        /\ \A i \in DOMAIN vt.allow : IsInjective(get_full_deps(vt.allow[i]))
    BY <2>1, <2>3, FilledPairs
  <2>5. /\ Pairs(vt.deny) = {<<eps[1], e>> : e \in D}
        /\ \A i \in DOMAIN vt.deny : IsInjective(get_full_deps(vt.deny[i]))
    BY <2>1, <2>3, FilledPairs
  <2>6. Len(vt.allow) <= 1 /\ Len(vt.deny) <= 1
    BY <2>3 DEF FilledWith
  <2>7. \A e \in Range(vt.allow) \cup Range(vt.deny) : IsInjective(get_full_deps(e))
    BY <2>4, <2>5 DEF Range
  <2> QED
    BY <2>4, <2>5, <2>6, <2>7 DEF Classified, A, D
<1> QED
  BY <1>1, TopologyInductive, PTL

\* A verification drives traffic in each locality that an entry has a destination in.
THEOREM LocalitiesDriven == VtSpec => []EachLocalityDriven
<1>1. VtTypeOK => EachLocalityDriven
  <2> SUFFICES ASSUME VtTypeOK, NEW e \in Range(vt.allow) \cup Range(vt.deny),
                      NEW l \in Locs, e.deps[l] # <<>>
               PROVE  Range(get_deps(e)) \cap Range(e.deps[l]) # {}
    BY DEF EachLocalityDriven
  <2> DEFINE S == Range(eps)
  <2>1. e \in Entries
    BY DEF VtTypeOK, Range
  <2>2. PICK a, b, c \in Seq(S) :
          a = e.deps["NUMA"] /\ b = e.deps["XNUMA"] /\ c = e.deps["XHOST"]
    BY <2>1 DEF Entries, Locs
  <2>3. ASSUME NEW s \in Seq(S)
        PROVE  /\ First(s) \in Seq(S)
               /\ s # <<>> => s[1] \in Range(First(s)) /\ s[1] \in Range(s)
    <3>1. CASE s = <<>>
      BY <3>1 DEF First
    <3>2. CASE s # <<>>
      <4>1. First(s) = <<s[1]>> /\ s[1] \in S /\ 1 \in DOMAIN s
        BY <3>2 DEF First
      <4>2. s[1] \in Range(<<s[1]>>) /\ s[1] \in Range(s)
        BY <4>1 DEF Range
      <4> QED
        BY <4>1, <4>2
    <3> QED
      BY <3>1, <3>2
  <2>4. PICK x, y, z \in Seq(S) : x = First(a) /\ y = First(b) /\ z = First(c)
    BY <2>3
  <2>5. x \o y \in Seq(S) /\ Range(x \o y) = Range(x) \cup Range(y)
    BY ConcatRange
  <2>6. PICK w \in Seq(S) : w = x \o y
    BY <2>5
  <2>7. Range(w \o z) = Range(w) \cup Range(z)
    BY ConcatRange
  <2>8. get_deps(e) = w \o z
    BY <2>2, <2>4, <2>6 DEF get_deps
  <2>9. Range(get_deps(e)) = Range(x) \cup Range(y) \cup Range(z)
    BY <2>5, <2>6, <2>7, <2>8
  <2>10. CASE l = "NUMA"
    BY <2>2, <2>3, <2>4, <2>9, <2>10
  <2>11. CASE l = "XNUMA"
    BY <2>2, <2>3, <2>4, <2>9, <2>11
  <2>12. CASE l = "XHOST"
    BY <2>2, <2>3, <2>4, <2>9, <2>12
  <2> QED
    BY <2>10, <2>11, <2>12 DEF Locs
<1> QED
  BY <1>1, TopologyInductive, PTL DEF TopologyInv

===============================================================================
