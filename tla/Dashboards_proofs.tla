---------------------------- MODULE Dashboards_proofs ---------------------------
(***************************************************************************)
(* For every value of the constants: what is said of the parts behind the   *)
(* dashboards.  Each part is proved about on its own, from its own Init and *)
(* its own steps (its formulas are named Feeds!..., Server!..., Dry!...,    *)
(* Log!...), and the theorems of the whole follow because every step of the *)
(* whole is a step of one part and leaves the others alone.                 *)
(***************************************************************************)
EXTENDS Dashboards, FiniteSetTheorems, WellFoundedInduction, TLAPS

---------------------------------------------------------------------------
(* LiveFeeds: requests that share one unlocked cache. *)

LEMMA FeedsConstants ==
  /\ FeedTtl \in Nat \ {0} /\ MaxClock \in Nat \ {0}
  /\ StaleTtl \in Nat /\ PollTime \in Nat
  BY DashboardsAssumption DEF Feeds!FeedsAssumption

\* The states a feed can be in.
LEMMA AnswersMade ==
  /\ Feeds!Error \in Feeds!Answers /\ Feeds!Pending \in Feeds!Answers
  /\ \A t \in 1..MaxClock, s \in {"LIVE", "STALE"} :
       [status |-> s, at |-> t] \in Feeds!Answers
  BY FeedsConstants DEF Feeds!Error, Feeds!Pending, Feeds!Answers

LEMMA AnswersRead ==
  ASSUME NEW a \in Feeds!Answers
  PROVE  /\ a.at \in 0..MaxClock
         /\ a.status \in {"LIVE", "STALE"} => a.at >= 1
         /\ a.status = "pending" => a = Feeds!Pending
         /\ a.status = "FEED_ERROR" => a = Feeds!Error
         /\ a.status \in {"LIVE", "STALE", "pending", "FEED_ERROR"}
<1>1. CASE a \in [status : {"LIVE", "STALE"}, at : 1..MaxClock]
  BY <1>1, FeedsConstants
<1>2. CASE a \in [status : {"pending", "FEED_ERROR"}, at : {0}]
  BY <1>2, FeedsConstants DEF Feeds!Pending, Feeds!Error
<1> QED
  BY <1>1, <1>2 DEF Feeds!Answers

LEMMA PendingIsPending ==
  /\ Feeds!Pending.status = "pending" /\ Feeds!Pending.at = 0
  /\ Feeds!Error.status = "FEED_ERROR"
  BY DEF Feeds!Pending, Feeds!Error

InUse(r)   == stage[r] # "idle"
Settled(r) == stage[r] \in {"settled", "kept"}

FeedsShape == Feeds!TypeOK /\ expires \in Nat

\* A request that is under way has begun at most PollTime ago.
Waiting == \A r \in Request : InUse(r) => began[r] >= 1 /\ clock <= began[r] + PollTime

\* What a request holds it has fetched itself, or taken from a recent last good state.
AnswersAreRecent ==
  \A r \in Request, f \in Feed :
    /\ answer[r][f].at <= clock
    /\ answer[r][f].status = "LIVE" => InUse(r) /\ began[r] <= answer[r][f].at
    /\ answer[r][f].status = "STALE" => Settled(r) /\ clock - answer[r][f].at < StaleTtl
    /\ Settled(r) => answer[r][f].status # "pending"

\* The cache expires before what it holds is too old, although the expiry may be
\* another request's; no time passes between the store of a snapshot and the one of
\* its expiry.
CacheIsRecent ==
  /\ expires <= clock + FeedTtl
  /\ \A s \in cached, f \in Feed :
       /\ s[f].status = "LIVE"  => expires - s[f].at <= FeedTtl + PollTime
       /\ s[f].status = "STALE" => expires - s[f].at < FeedTtl + StaleTtl
  /\ (\E r \in Request : stage[r] = "kept") =>
       \A s \in cached, f \in Feed :
         /\ s[f].status = "LIVE"  => clock - s[f].at <= PollTime
         /\ s[f].status = "STALE" => clock - s[f].at < StaleTtl

FeedsIInv == FeedsShape /\ Waiting /\ AnswersAreRecent /\ CacheIsRecent

LEMMA FeedsInit == Feeds!Init => FeedsIInv
<1> SUFFICES ASSUME Feeds!Init PROVE FeedsIInv
  OBVIOUS
<1> USE FeedsConstants DEF Feeds!Init, Feeds!Idle, Feeds!Pending
<1>1. FeedsShape
  BY DEF FeedsShape, Feeds!TypeOK, Feeds!Snapshot, Feeds!Answers
<1>2. Waiting /\ AnswersAreRecent /\ CacheIsRecent
  BY DEF Waiting, AnswersAreRecent, CacheIsRecent, InUse, Settled
<1> QED
  BY <1>1, <1>2 DEF FeedsIInv

LEMMA FeedsShapeStep ==
  FeedsShape /\ AnswersAreRecent /\ [Feeds!Next]_(Feeds!vars) => FeedsShape'
<1> SUFFICES ASSUME FeedsShape, AnswersAreRecent, [Feeds!Next]_(Feeds!vars) PROVE FeedsShape'
  OBVIOUS
<1> USE FeedsConstants DEF FeedsShape, Feeds!TypeOK, Feeds!Snapshot, Feeds!Goto
<1>1. ASSUME NEW r \in Request, Feeds!Poll(r) PROVE FeedsShape'
  BY <1>1 DEF Feeds!Poll
<1>2. ASSUME NEW r \in Request, NEW f \in Feed, Feeds!Fetch(r, f) PROVE FeedsShape'
  <2>1. PICK a \in Feeds!Answers : answer' = [answer EXCEPT ![r][f] = a]
    BY <1>2, AnswersMade DEF Feeds!Fetch
  <2>2. answer' \in [Request -> [Feed -> Feeds!Answers]]
    BY <2>1
  <2> QED
    BY <1>2, <2>2 DEF Feeds!Fetch
<1>3. ASSUME NEW r \in Request, Feeds!Settle(r) PROVE FeedsShape'
  <2>1. ASSUME NEW f \in Feed
        PROVE  /\ (IF answer[r][f] = Feeds!Error /\ Feeds!Recent(f)
                   THEN [status |-> "STALE", at |-> lastGood[f]]
                   ELSE answer[r][f]) \in Feeds!Answers
               /\ (IF answer[r][f] = Feeds!Error THEN lastGood[f] ELSE answer[r][f].at)
                    \in 0..clock
    <3>1. answer[r][f] \in Feeds!Answers
      OBVIOUS
    <3>2. Feeds!Recent(f) => lastGood[f] \in 1..MaxClock
      BY DEF Feeds!Recent
    <3>3. answer[r][f] # Feeds!Error => answer[r][f].status = "LIVE"
      BY <1>3, <3>1, AnswersRead DEF Feeds!Settle, AnswersAreRecent, Settled
    <3>4. answer[r][f].status = "LIVE" => answer[r][f].at \in 0..clock
      BY <3>1, AnswersRead DEF AnswersAreRecent
    <3> QED
      BY <3>1, <3>2, <3>3, <3>4, AnswersMade
  <2> QED
    BY <1>3, <2>1 DEF Feeds!Settle
<1>4. ASSUME NEW r \in Request, Feeds!Keep(r) PROVE FeedsShape'
  BY <1>4 DEF Feeds!Keep
<1>5. ASSUME NEW r \in Request, Feeds!SetExpiry(r) PROVE FeedsShape'
  BY <1>5, AnswersMade DEF Feeds!SetExpiry, Feeds!Idle
<1>6. CASE Feeds!Tick
  BY <1>6 DEF Feeds!Tick
<1>7. CASE UNCHANGED Feeds!vars
  BY <1>7 DEF Feeds!vars
<1> QED
  BY <1>1, <1>2, <1>3, <1>4, <1>5, <1>6, <1>7 DEF Feeds!Next

LEMMA WaitingStep ==
  FeedsIInv /\ [Feeds!Next]_(Feeds!vars) => Waiting'
<1> SUFFICES ASSUME FeedsIInv, [Feeds!Next]_(Feeds!vars) PROVE Waiting'
  OBVIOUS
<1> USE FeedsConstants DEF FeedsIInv, FeedsShape, Feeds!TypeOK, Feeds!Goto, Waiting, InUse
<1>1. ASSUME NEW r \in Request, Feeds!Poll(r) PROVE Waiting'
  BY <1>1 DEF Feeds!Poll
<1>2. ASSUME NEW r \in Request, NEW f \in Feed, Feeds!Fetch(r, f) PROVE Waiting'
  BY <1>2 DEF Feeds!Fetch
<1>3. ASSUME NEW r \in Request, Feeds!Settle(r) \/ Feeds!Keep(r) \/ Feeds!SetExpiry(r)
      PROVE  Waiting'
  BY <1>3 DEF Feeds!Settle, Feeds!Keep, Feeds!SetExpiry
<1>4. CASE Feeds!Tick
  BY <1>4 DEF Feeds!Tick
<1>5. CASE UNCHANGED Feeds!vars
  BY <1>5 DEF Feeds!vars
<1> QED
  BY <1>1, <1>2, <1>3, <1>4, <1>5 DEF Feeds!Next

LEMMA AnswersStep ==
  FeedsIInv /\ [Feeds!Next]_(Feeds!vars) => AnswersAreRecent'
<1> SUFFICES ASSUME FeedsIInv, [Feeds!Next]_(Feeds!vars), NEW r \in Request, NEW f \in Feed
             PROVE  AnswersAreRecent!(r, f)'
  BY DEF AnswersAreRecent
<1> USE FeedsConstants DEF FeedsIInv, FeedsShape, Feeds!TypeOK, Feeds!Snapshot, Feeds!Goto,
                           AnswersAreRecent, InUse, Settled
<1>1. ASSUME NEW q \in Request, Feeds!Poll(q) PROVE AnswersAreRecent!(r, f)'
  BY <1>1 DEF Feeds!Poll
<1>2. ASSUME NEW q \in Request, NEW g \in Feed, Feeds!Fetch(q, g)
      PROVE  AnswersAreRecent!(r, f)'
  <2>1. PICK a \in {[status |-> "LIVE", at |-> clock], [status |-> "FEED_ERROR", at |-> 0]} :
          answer' = [answer EXCEPT ![q][g] = a]
    BY <1>2 DEF Feeds!Fetch, Feeds!Error
  <2>2. answer'[r][f] = IF r = q /\ f = g THEN a ELSE answer[r][f]
    BY <2>1
  <2> QED
    BY <1>2, <2>2 DEF Feeds!Fetch
<1>3. ASSUME NEW q \in Request, Feeds!Settle(q) PROVE AnswersAreRecent!(r, f)'
  BY <1>3, AnswersRead DEF Feeds!Settle, Feeds!Recent
<1>4. ASSUME NEW q \in Request, Feeds!Keep(q) PROVE AnswersAreRecent!(r, f)'
  BY <1>4 DEF Feeds!Keep
<1>5. ASSUME NEW q \in Request, Feeds!SetExpiry(q) PROVE AnswersAreRecent!(r, f)'
  <2>1. CASE r = q
    <3>1. answer'[r][f] = Feeds!Pending /\ stage'[r] = "idle" /\ clock' = clock
      BY <1>5, <2>1 DEF Feeds!SetExpiry, Feeds!Idle
    <3> QED
      BY <3>1, PendingIsPending
  <2>2. CASE r # q
    BY <1>5, <2>2 DEF Feeds!SetExpiry
  <2> QED
    BY <2>1, <2>2
<1>6. CASE Feeds!Tick
  \* Time passes only while a request that is under way waits for a feed.
  <2>1. ~Settled(r)
    BY <1>6, AnswersRead, PendingIsPending DEF Feeds!Tick
  <2>2. answer[r][f].at \in Nat
    BY AnswersRead
  <2> QED
    BY <1>6, <2>1, <2>2 DEF Feeds!Tick
<1>7. CASE UNCHANGED Feeds!vars
  BY <1>7 DEF Feeds!vars
<1> QED
  BY <1>1, <1>2, <1>3, <1>4, <1>5, <1>6, <1>7 DEF Feeds!Next

LEMMA CacheStep == FeedsIInv /\ [Feeds!Next]_(Feeds!vars) => CacheIsRecent'
<1> SUFFICES ASSUME FeedsIInv, [Feeds!Next]_(Feeds!vars) PROVE CacheIsRecent'
  OBVIOUS
<1> USE FeedsConstants DEF FeedsIInv, FeedsShape, Feeds!TypeOK, Feeds!Snapshot, Feeds!Goto,
                           CacheIsRecent
<1>1. ASSUME NEW r \in Request, Feeds!Poll(r) PROVE CacheIsRecent'
  BY <1>1 DEF Feeds!Poll
<1>2. ASSUME NEW r \in Request, NEW f \in Feed, Feeds!Fetch(r, f) PROVE CacheIsRecent'
  BY <1>2 DEF Feeds!Fetch
<1>3. ASSUME NEW r \in Request, Feeds!Settle(r) PROVE CacheIsRecent'
  BY <1>3 DEF Feeds!Settle
<1>4. ASSUME NEW r \in Request, Feeds!Keep(r) PROVE CacheIsRecent'
  \* What the request has fetched is as old as its poll at most.
  <2>1. InUse(r) /\ cached' = {answer[r]} /\ clock' = clock /\ expires' = expires
    BY <1>4 DEF Feeds!Keep, InUse
  <2>2. ASSUME NEW f \in Feed
        PROVE  /\ answer[r][f].status = "LIVE"  => clock - answer[r][f].at <= PollTime
               /\ answer[r][f].status = "STALE" => clock - answer[r][f].at < StaleTtl
    BY <2>1, AnswersRead DEF Waiting, AnswersAreRecent
  <2>3. ASSUME NEW f \in Feed PROVE answer[r][f].at \in Nat
    BY AnswersRead
  <2> QED
    BY <2>1, <2>2, <2>3
<1>5. ASSUME NEW r \in Request, Feeds!SetExpiry(r) PROVE CacheIsRecent'
  <2>1. /\ stage[r] = "kept" /\ expires' = began[r] + FeedTtl /\ began[r] <= clock
        /\ cached' = cached /\ clock' = clock
    BY <1>5 DEF Feeds!SetExpiry
  <2>2. ASSUME NEW s \in cached, NEW f \in Feed PROVE s[f].at \in Nat
    BY AnswersRead
  <2> QED
    BY <2>1, <2>2
<1>6. CASE Feeds!Tick
  <2>1. \A r \in Request : stage[r] # "kept"
    BY <1>6, PendingIsPending DEF Feeds!Tick, AnswersAreRecent, Settled
  <2> QED
    BY <1>6, <2>1 DEF Feeds!Tick
<1>7. CASE UNCHANGED Feeds!vars
  BY <1>7 DEF Feeds!vars
<1> QED
  BY <1>1, <1>2, <1>3, <1>4, <1>5, <1>6, <1>7 DEF Feeds!Next

LEMMA FeedsInvariance == Feeds!Spec => []FeedsIInv
<1>1. FeedsIInv /\ [Feeds!Next]_(Feeds!vars) => FeedsIInv'
  BY FeedsShapeStep, WaitingStep, AnswersStep, CacheStep DEF FeedsIInv
<1> QED
  BY FeedsInit, <1>1, PTL DEF Feeds!Spec

LEMMA FeedsRecent == FeedsIInv => Feeds!ServedIsRecent
<1> SUFFICES ASSUME FeedsIInv, NEW s \in Feeds!Shown, NEW f \in Feed
             PROVE  /\ s[f].status = "LIVE"  => clock - s[f].at < FeedTtl + PollTime
                    /\ s[f].status = "STALE" => clock - s[f].at < FeedTtl + StaleTtl
  BY DEF Feeds!ServedIsRecent
<1> USE FeedsConstants DEF FeedsIInv, FeedsShape, Feeds!TypeOK, Feeds!Snapshot
<1>1. CASE s \in cached /\ clock < expires
  <2>1. s[f].at \in Nat
    BY <1>1, AnswersRead
  <2> QED
    BY <1>1, <2>1 DEF CacheIsRecent
<1>2. ASSUME NEW r \in Request, stage[r] = "kept", s = answer[r] 
      PROVE  /\ s[f].status = "LIVE"  => clock - s[f].at < FeedTtl + PollTime
             /\ s[f].status = "STALE" => clock - s[f].at < FeedTtl + StaleTtl
  <2>1. s[f].at \in Nat
    BY <1>2, AnswersRead
  <2> QED
    BY <1>2, <2>1 DEF Waiting, AnswersAreRecent, InUse
<1> QED
  BY <1>1, <1>2 DEF Feeds!Shown, Feeds!Hit

---------------------------------------------------------------------------
(* DryRunServer: a server, the runners it starts, and the files they share. *)

LEMMA ServerConstants == MaxRunners \in Nat /\ RunLimits \subseteq 1..50
  BY DashboardsAssumption DEF Server!ServerAssumption

Process == [at : Server!Phases, limit : Nat, i : Nat, done : Nat, watched : BOOLEAN]

ServerShape ==
  /\ active \in BOOLEAN /\ muddled \in BOOLEAN
  /\ proc \in [Server!Runner -> Process]
  /\ logs \in [c1 : Nat, c2 : Nat, pairs : Nat, summary : RunLimits \cup {0}]
  /\ request \in [at : {"idle", "pairs", "summary", "answered"}, c1 : Nat, c2 : Nat,
                   pairs : Nat, calm : BOOLEAN, status : {"unknown", "completed"},
                   pass : BOOLEAN]

\* The server waits for one process at most, and knows that it does.
OneWatched ==
  /\ \A r \in Server!Runner : proc[r].watched => active /\ proc[r].at # "none"
  /\ \A r, q \in Server!Runner : proc[r].watched /\ proc[q].watched => r = q

\* Where the loop of a runner is.
InBounds ==
  \A r \in Server!Runner :
    /\ proc[r].done <= proc[r].i /\ proc[r].i <= proc[r].limit
    /\ proc[r].at \in {"c2", "pair", "count"} => proc[r].i < proc[r].limit
    /\ proc[r].at \in {"build", "cards", "pairs", "summary"} => proc[r].i = 0
    /\ Server!Alive(r) => proc[r].limit \in RunLimits

\* Files that are not muddled are written by one runner at a time.
OneRunner ==
  ~muddled => \A r, q \in Server!Runner : Server!Alive(r) /\ Server!Alive(q) => r = q

\* What a runner at work has left in the files.
WrittenBy(r) ==
  LET p == proc[r] IN
  /\ p.at \in {"pairs", "summary"} => logs.c1 = 0 /\ logs.c2 = 0
  /\ p.at = "summary" => logs.pairs = 0
  /\ p.at = "scan" => /\ logs.c1 = p.done /\ logs.c2 = p.done /\ logs.pairs = p.done
                      /\ logs.summary # 0 => logs.summary = p.limit /\ p.done = p.limit
  /\ p.at = "c2" => logs.c1 = p.done + 1 /\ logs.c2 = p.done /\ logs.pairs = p.done
  /\ p.at = "pair" => logs.c1 = p.done + 1 /\ logs.c2 = p.done + 1 /\ logs.pairs = p.done
  /\ p.at = "count" =>
       logs.c1 = p.done + 1 /\ logs.c2 = p.done + 1 /\ logs.pairs = p.done + 1
  /\ p.at \in {"c2", "pair", "count"} => logs.summary = 0

\* A summary comes with as many cards of each strike and pairs as it says.
WholeRun ==
  logs.summary # 0 =>
    logs.c1 = logs.summary /\ logs.c2 = logs.summary /\ logs.pairs = logs.summary

FilesAgree ==
  ~muddled =>
    /\ \A r \in Server!Runner : WrittenBy(r)
    /\ (\A r \in Server!Runner : proc[r].at \in {"none", "build", "cards", "exited"})
         => WholeRun

\* A request that began while no runner lived reads files that do not change.
ReadsAgree ==
  request.at \in {"pairs", "summary"} /\ request.calm =>
    /\ Server!Calm
    /\ request.c1 = logs.c1 /\ request.c2 = logs.c2
    /\ request.at = "summary" => request.pairs = logs.pairs

ServerIInv ==
  /\ ServerShape /\ OneWatched /\ InBounds /\ OneRunner /\ FilesAgree /\ ReadsAgree
  /\ Server!CompletedPasses

\* The processes a step makes of another or of none.
LEMMA StartedProcess ==
  ASSUME NEW l \in Nat
  PROVE  [Server!NoProcess EXCEPT !.at = "build", !.limit = l, !.watched = TRUE] \in Process
  BY DEF Server!NoProcess, Process, Server!Phases

LEMMA ExitedProcess ==
  ASSUME NEW w \in BOOLEAN
  PROVE  [Server!NoProcess EXCEPT !.at = "exited", !.watched = w] \in Process
  BY DEF Server!NoProcess, Process, Server!Phases

LEMMA MovedProcess ==
  ASSUME NEW p \in Process, NEW a \in Server!Phases
  PROVE  [p EXCEPT !.at = a] \in Process /\ [p EXCEPT !.at = a, !.i = @ + 1] \in Process
<1> USE DEF Process
<1>1. [p EXCEPT !.at = a] \in Process
  OBVIOUS
<1>2. p.i + 1 \in Nat
  OBVIOUS
<1>3. [p EXCEPT !.at = a, !.i = @ + 1] \in Process
  BY <1>2
<1> QED
  BY <1>1, <1>3

LEMMA ServerInit == Server!Init => ServerIInv
<1> SUFFICES ASSUME Server!Init PROVE ServerIInv
  OBVIOUS
<1> USE ServerConstants DEF Server!Init, Server!NoProcess, Server!NoLogs, Server!NoRequest,
                            Server!NoSummary
<1>1. ServerShape
  BY DEF ServerShape, Process, Server!Phases
<1>2. OneWatched /\ InBounds /\ OneRunner
  BY DEF OneWatched, InBounds, OneRunner, Server!Alive
<1>3. FilesAgree /\ ReadsAgree /\ Server!CompletedPasses
  BY DEF FilesAgree, WrittenBy, WholeRun, ReadsAgree, Server!CompletedPasses
<1> QED
  BY <1>1, <1>2, <1>3 DEF ServerIInv

LEMMA ServerShapeStep ==
  ServerShape /\ InBounds /\ [Server!Next]_(Server!vars) => ServerShape'
<1> SUFFICES ASSUME ServerShape, InBounds, [Server!Next]_(Server!vars) PROVE ServerShape'
  OBVIOUS
<1> USE ServerConstants DEF ServerShape, Server!NoSummary, Server!RunnerOnly
<1>0. \A r \in Server!Runner : proc[r].watched \in BOOLEAN
  BY DEF Process
<1>1. ASSUME NEW l \in RunLimits, Server!Start(l) PROVE ServerShape'
  <2>1. muddled' \in BOOLEAN
    BY <1>1, Zenon DEF Server!Start
  <2>2. PICK c \in BOOLEAN : request' = [request EXCEPT !.calm = c]
    <3>1. (request.calm /\ request.at \in {"idle", "answered"}) \in BOOLEAN
      OBVIOUS
    <3> QED
      BY <1>1, <3>1 DEF Server!Start
  <2>3. proc' \in [Server!Runner -> Process]
    <3> DEFINE started == [Server!NoProcess EXCEPT !.at = "build", !.limit = l, !.watched = TRUE]
    <3>1. started \in Process
      <4>1. l \in Nat
        BY l \in 1..50
      <4> QED
        BY <4>1, StartedProcess
    <3>2. PICK r \in Server!Runner : proc' = [proc EXCEPT ![r] = started]
      BY <1>1 DEF Server!Start
    <3> HIDE DEF started
    <3> QED
      BY <3>1, <3>2
  <2> QED
    BY <1>1, <2>1, <2>2, <2>3 DEF Server!Start
<1>2. ASSUME NEW r \in Server!Runner, Server!WaitForRunner(r) PROVE ServerShape'
  BY <1>2 DEF Server!WaitForRunner, Process
<1>3. CASE Server!Restart
  BY <1>3 DEF Server!Restart, Server!NoRequest, Process
<1>4. CASE Server!ReadCards
  BY <1>4 DEF Server!ReadCards, Server!NoRequest, Server!Calm
<1>5. CASE Server!ReadPairs
  BY <1>5 DEF Server!ReadPairs
<1>6. CASE Server!ReadSummary
  <2>1. PICK b \in BOOLEAN, t \in {"unknown", "completed"} :
          request' = [request EXCEPT !.at = "answered", !.status = t, !.pass = b]
    <3>1. \A n : Server!Passes(n) \in BOOLEAN
      BY DEF Server!Passes
    <3> QED
      BY <1>6, <3>1 DEF Server!ReadSummary
  <2> QED
    BY <1>6, <2>1 DEF Server!ReadSummary
<1>7. ASSUME NEW r \in Server!Runner,
             Server!BuildComponents(r) \/ Server!DeleteCards(r) \/ Server!DeletePairs(r)
             \/ Server!DeleteSummary(r) \/ Server!Reject(r) \/ Server!Finish(r)
             \/ Server!Raise(r)
      PROVE  ServerShape'
  <2>1. PICK p \in Process : proc' = [proc EXCEPT ![r] = p]
    <3> DEFINE moved(a) == [proc[r] EXCEPT !.at = a]
               passed == [proc[r] EXCEPT !.at = "scan", !.i = @ + 1]
               exited == [Server!NoProcess EXCEPT !.at = "exited", !.watched = proc[r].watched]
    <3>1. \A a \in Server!Phases : moved(a) \in Process
      BY MovedProcess
    <3>2. passed \in Process /\ exited \in Process
      BY <1>0, MovedProcess, ExitedProcess DEF Server!Phases
    <3>3. \/ \E a \in Server!Phases : proc' = [proc EXCEPT ![r] = moved(a)]
          \/ proc' = [proc EXCEPT ![r] = passed]
          \/ proc' = [proc EXCEPT ![r] = exited]
      BY <1>7 DEF Server!BuildComponents, Server!DeleteCards, Server!DeletePairs,
         Server!DeleteSummary, Server!Reject, Server!Finish, Server!Raise, Server!Goto,
         Server!Exit, Server!NextPass, Server!Phases
    <3> HIDE DEF moved, passed, exited
    <3> QED
      BY <3>1, <3>2, <3>3
  <2>2. muddled' \in BOOLEAN
    BY <1>7, Zenon DEF Server!BuildComponents, Server!DeleteCards, Server!DeletePairs,
       Server!DeleteSummary, Server!Reject, Server!Finish, Server!Raise
  <2>3. logs' \in [c1 : Nat, c2 : Nat, pairs : Nat, summary : RunLimits \cup {0}]
    <3>1. CASE Server!DeleteCards(r)
      BY <3>1 DEF Server!DeleteCards
    <3>2. CASE Server!DeletePairs(r)
      BY <3>2 DEF Server!DeletePairs
    <3>3. CASE Server!DeleteSummary(r)
      BY <3>3 DEF Server!DeleteSummary
    <3>4. CASE UNCHANGED logs
      BY <3>4
    <3> QED
      BY <1>7, <3>1, <3>2, <3>3, <3>4 DEF Server!BuildComponents, Server!Reject,
         Server!Finish, Server!Raise
  <2>4. UNCHANGED <<active, request>>
    BY <1>7 DEF Server!BuildComponents, Server!DeleteCards, Server!DeletePairs,
       Server!DeleteSummary, Server!Reject, Server!Finish, Server!Raise
  <2> QED
    BY <2>1, <2>2, <2>3, <2>4
<1>8. ASSUME NEW r \in Server!Runner,
             Server!LogC1Card(r) \/ Server!LogC2Card(r) \/ Server!LogCyclePair(r)
      PROVE  ServerShape'
  <2>0. PICK p \in Process : proc' = [proc EXCEPT ![r] = p]
    <3> DEFINE moved(a) == [proc[r] EXCEPT !.at = a]
    <3>1. \A a \in Server!Phases : moved(a) \in Process
      BY MovedProcess
    <3>2. \E a \in Server!Phases : proc' = [proc EXCEPT ![r] = moved(a)]
      BY <1>8 DEF Server!LogC1Card, Server!LogC2Card, Server!LogCyclePair, Server!Goto,
         Server!Phases
    <3> HIDE DEF moved
    <3> QED
      BY <3>1, <3>2
  <2>1. CASE Server!LogC1Card(r)
    BY <2>0, <2>1 DEF Server!LogC1Card
  <2>2. CASE Server!LogC2Card(r)
    BY <2>0, <2>2 DEF Server!LogC2Card
  <2>3. CASE Server!LogCyclePair(r)
    BY <2>0, <2>3 DEF Server!LogCyclePair
  <2> QED
    BY <1>8, <2>1, <2>2, <2>3
<1>9. ASSUME NEW r \in Server!Runner, Server!Count(r) PROVE ServerShape'
  BY <1>9 DEF Server!Count, InBounds, Server!At, Server!Alive, Server!Phases, Process
<1>10. CASE UNCHANGED Server!vars
  BY <1>10 DEF Server!vars
<1> QED
  BY <1>1, <1>2, <1>3, <1>4, <1>5, <1>6, <1>7, <1>8, <1>9, <1>10
  DEF Server!Next, Server!RunnerStep

\* What every step of a runner does to the processes.
LEMMA RunnerMoves ==
  ASSUME ServerShape, NEW r \in Server!Runner, Server!RunnerStep(r)
  PROVE  /\ Server!Alive(r)
         /\ \A q \in Server!Runner \ {r} : proc'[q] = proc[q]
         /\ proc'[r].watched = proc[r].watched
         /\ proc'[r].at # "none"
         /\ UNCHANGED <<active, request>>
<1> USE DEF ServerShape, Process, Server!Alive, Server!At, Server!Goto, Server!RunnerOnly,
            Server!InLoop, Server!NextPass
<1>0. ASSUME Server!Exit(r)
      PROVE  /\ \A q \in Server!Runner \ {r} : proc'[q] = proc[q]
             /\ proc'[r].watched = proc[r].watched
             /\ proc'[r].at = "exited"
  BY <1>0 DEF Server!Exit, Server!NoProcess
<1>1. CASE Server!Finish(r) \/ Server!Raise(r)
  BY <1>0, <1>1 DEF Server!Finish, Server!Raise
<1>2. CASE Server!BuildComponents(r)
  <2>1. CASE Server!Exit(r)
    BY <1>0, <1>2, <2>1 DEF Server!BuildComponents
  <2>2. CASE Server!Goto(r, "cards")
    BY <1>2, <2>2 DEF Server!BuildComponents
  <2> QED
    BY <1>2, <2>1, <2>2 DEF Server!BuildComponents
<1>3. CASE Server!DeleteCards(r) \/ Server!DeletePairs(r) \/ Server!DeleteSummary(r)
  BY <1>3 DEF Server!DeleteCards, Server!DeletePairs, Server!DeleteSummary
<1>4. CASE Server!Reject(r) \/ Server!LogC1Card(r)
  BY <1>4 DEF Server!Reject, Server!LogC1Card
<1>5. CASE Server!LogC2Card(r) \/ Server!LogCyclePair(r)
  BY <1>5 DEF Server!LogC2Card, Server!LogCyclePair
<1>6. CASE Server!Count(r)
  BY <1>6 DEF Server!Count
<1> QED
  BY <1>1, <1>2, <1>3, <1>4, <1>5, <1>6 DEF Server!RunnerStep

LEMMA OneWatchedStep == ServerIInv /\ [Server!Next]_(Server!vars) => OneWatched'
<1> SUFFICES ASSUME ServerIInv, [Server!Next]_(Server!vars) PROVE OneWatched'
  OBVIOUS
<1> USE DEF ServerIInv, ServerShape, OneWatched, Process
<1>1. ASSUME NEW l \in RunLimits, Server!Start(l) PROVE OneWatched'
  \* No process is waited for while RUNNER_STATE says that none runs.
  BY <1>1 DEF Server!Start, Server!Accepts, Server!NoProcess
<1>2. ASSUME NEW r \in Server!Runner, Server!WaitForRunner(r) PROVE OneWatched'
  BY <1>2 DEF Server!WaitForRunner
<1>3. CASE Server!Restart
  BY <1>3 DEF Server!Restart
<1>4. CASE Server!ReadCards \/ Server!ReadPairs \/ Server!ReadSummary
  BY <1>4 DEF Server!ReadCards, Server!ReadPairs, Server!ReadSummary
<1>5. ASSUME NEW r \in Server!Runner, Server!RunnerStep(r) PROVE OneWatched'
  BY <1>5, RunnerMoves
<1>6. CASE UNCHANGED Server!vars
  BY <1>6 DEF Server!vars
<1> QED
  BY <1>1, <1>2, <1>3, <1>4, <1>5, <1>6 DEF Server!Next, Server!RunnerStep

LEMMA InBoundsStep == ServerIInv /\ [Server!Next]_(Server!vars) => InBounds'
<1> SUFFICES ASSUME ServerIInv, [Server!Next]_(Server!vars) PROVE InBounds'
  OBVIOUS
<1> USE ServerConstants DEF ServerIInv, ServerShape, InBounds, Process, Server!Alive,
        Server!At, Server!Goto
<1>1. ASSUME NEW l \in RunLimits, Server!Start(l) PROVE InBounds'
  BY <1>1 DEF Server!Start, Server!NoProcess
<1>2. ASSUME NEW r \in Server!Runner, Server!WaitForRunner(r) PROVE InBounds'
  BY <1>2 DEF Server!WaitForRunner
<1>3. CASE Server!Restart
  BY <1>3 DEF Server!Restart
<1>4. CASE Server!ReadCards \/ Server!ReadPairs \/ Server!ReadSummary
  BY <1>4 DEF Server!ReadCards, Server!ReadPairs, Server!ReadSummary
<1>5. ASSUME NEW r \in Server!Runner,
             Server!BuildComponents(r) \/ Server!Finish(r) \/ Server!Raise(r)
      PROVE  InBounds'
  <2>1. CASE Server!Exit(r)
    BY <2>1 DEF Server!Exit, Server!NoProcess
  <2>2. CASE Server!BuildComponents(r) /\ Server!Goto(r, "cards")
    BY <2>2 DEF Server!BuildComponents
  <2> QED
    BY <1>5, <2>1, <2>2 DEF Server!BuildComponents, Server!Finish, Server!Raise
<1>6. ASSUME NEW r \in Server!Runner,
             Server!DeleteCards(r) \/ Server!DeletePairs(r) \/ Server!DeleteSummary(r)
      PROVE  InBounds'
  BY <1>6 DEF Server!DeleteCards, Server!DeletePairs, Server!DeleteSummary
<1>7. ASSUME NEW r \in Server!Runner, Server!Reject(r) \/ Server!LogC1Card(r) PROVE InBounds'
  BY <1>7 DEF Server!Reject, Server!LogC1Card, Server!InLoop, Server!NextPass
<1>8. ASSUME NEW r \in Server!Runner, Server!LogC2Card(r) \/ Server!LogCyclePair(r)
      PROVE  InBounds'
  BY <1>8 DEF Server!LogC2Card, Server!LogCyclePair
<1>9. ASSUME NEW r \in Server!Runner, Server!Count(r) PROVE InBounds'
  BY <1>9 DEF Server!Count
<1>10. CASE UNCHANGED Server!vars
  BY <1>10 DEF Server!vars
<1> QED
  BY <1>1, <1>2, <1>3, <1>4, <1>5, <1>6, <1>7, <1>8, <1>9, <1>10
  DEF Server!Next, Server!RunnerStep

LEMMA OneRunnerStep == ServerIInv /\ [Server!Next]_(Server!vars) => OneRunner'
<1> SUFFICES ASSUME ServerIInv, [Server!Next]_(Server!vars) PROVE OneRunner'
  OBVIOUS
<1> USE DEF ServerIInv, ServerShape, OneRunner, Process, Server!Alive
<1>1. ASSUME NEW l \in RunLimits, Server!Start(l) PROVE OneRunner'
  \* A process that lives when another is started is one the server has forgotten.
  <2>1. PICK r \in Server!Runner :
          /\ proc' = [proc EXCEPT ![r] = [Server!NoProcess EXCEPT
                        !.at = "build", !.limit = l, !.watched = TRUE]]
          /\ muddled' = (muddled \/ \E q \in Server!Runner : Server!Alive(q) /\ ~proc[q].watched)
    BY <1>1 DEF Server!Start
  <2>2. \A q \in Server!Runner : ~proc[q].watched
    BY <1>1 DEF Server!Start, Server!Accepts, OneWatched
  <2>3. ~muddled' => \A q \in Server!Runner : ~Server!Alive(q)
    BY <2>1, <2>2
  <2>4. \A q \in Server!Runner \ {r} : proc'[q] = proc[q]
    BY <2>1
  <2> QED
    BY <2>3, <2>4
<1>2. ASSUME NEW r \in Server!Runner, Server!WaitForRunner(r) PROVE OneRunner'
  BY <1>2 DEF Server!WaitForRunner
<1>3. CASE Server!Restart
  BY <1>3 DEF Server!Restart
<1>4. CASE Server!ReadCards \/ Server!ReadPairs \/ Server!ReadSummary
  BY <1>4 DEF Server!ReadCards, Server!ReadPairs, Server!ReadSummary
<1>5. ASSUME NEW r \in Server!Runner, Server!RunnerStep(r) PROVE OneRunner'
  <2>1. CASE muddled' = muddled
    BY <1>5, <2>1, RunnerMoves
  <2>2. CASE Server!DeleteCards(r)
    BY <1>5, <2>2, RunnerMoves DEF Server!DeleteCards
  <2>3. CASE Server!Raise(r)
    BY <1>5, <2>3, RunnerMoves DEF Server!Raise
  <2> QED
    BY <1>5, <2>1, <2>2, <2>3 DEF Server!RunnerStep, Server!BuildComponents,
       Server!DeletePairs, Server!DeleteSummary, Server!Reject, Server!LogC1Card,
       Server!LogC2Card, Server!LogCyclePair, Server!Count, Server!Finish
<1>6. CASE UNCHANGED Server!vars
  BY <1>6 DEF Server!vars
<1> QED
  BY <1>1, <1>2, <1>3, <1>4, <1>5, <1>6 DEF Server!Next, Server!RunnerStep

LEMMA FilesAgreeStep == ServerIInv /\ [Server!Next]_(Server!vars) => FilesAgree'
<1> SUFFICES ASSUME ServerIInv, [Server!Next]_(Server!vars), ~muddled' PROVE FilesAgree'
  BY DEF FilesAgree
<1> DEFINE Apart(q) == proc[q].at \in {"none", "build", "cards", "exited"}
<1> USE ServerConstants DEF ServerIInv, ServerShape, Process, FilesAgree
<1>1. ASSUME NEW l \in RunLimits, Server!Start(l) PROVE FilesAgree'
  <2>1. ~muddled /\ logs' = logs
    BY <1>1 DEF Server!Start
  <2>2. \A q \in Server!Runner : proc'[q] = proc[q] \/ (proc'[q].at = "build" /\ Apart(q))
    BY <1>1 DEF Server!Start, Server!NoProcess
  <2> QED
    BY <2>1, <2>2 DEF WrittenBy, WholeRun
<1>2. ASSUME NEW r \in Server!Runner, Server!WaitForRunner(r) PROVE FilesAgree'
  BY <1>2 DEF Server!WaitForRunner, WrittenBy, WholeRun
<1>3. CASE Server!Restart
  BY <1>3 DEF Server!Restart, WrittenBy, WholeRun
<1>4. CASE Server!ReadCards \/ Server!ReadPairs \/ Server!ReadSummary
  BY <1>4 DEF Server!ReadCards, Server!ReadPairs, Server!ReadSummary, WrittenBy, WholeRun
<1>5. ASSUME NEW r \in Server!Runner, Server!RunnerStep(r) PROVE FilesAgree'
  <2>1. Server!Alive(r) /\ \A q \in Server!Runner \ {r} : proc'[q] = proc[q]
    BY <1>5, RunnerMoves
  <2>2. \A q \in Server!Runner \ {r} : ~Server!Alive(q)
    <3>1. CASE ~muddled
      BY <2>1, <3>1 DEF OneRunner
    <3>2. CASE muddled
      BY <1>5, <3>2 DEF Server!RunnerStep, Server!BuildComponents, Server!DeleteCards,
         Server!DeletePairs, Server!DeleteSummary, Server!Reject, Server!LogC1Card,
         Server!LogC2Card, Server!LogCyclePair, Server!Count, Server!Finish, Server!Raise
    <3> QED
      BY <3>1, <3>2
  <2>3. ASSUME NEW q \in Server!Runner \ {r} PROVE Apart(q)' /\ WrittenBy(q)'
    BY <2>1, <2>2 DEF WrittenBy, Server!Alive
  <2>4. WrittenBy(r)' /\ (Apart(r)' => WholeRun')
    <3> USE DEF Server!At, Server!Goto, Server!InLoop, Server!NoSummary
    <3>0. ~Server!DeleteCards(r) => WrittenBy(r) /\ (Apart(r) => WholeRun)
      BY <1>5, <2>2 DEF Server!Alive, Server!RunnerStep, Server!BuildComponents,
         Server!DeletePairs, Server!DeleteSummary, Server!Reject, Server!LogC1Card,
         Server!LogC2Card, Server!LogCyclePair, Server!Count, Server!Finish, Server!Raise
    <3>1. CASE Server!BuildComponents(r)
      <4>1. Apart(r) /\ proc'[r].at \in {"cards", "exited"} /\ logs' = logs
        <5>1. CASE Server!Exit(r)
          BY <3>1, <5>1 DEF Server!BuildComponents, Server!Exit, Server!NoProcess
        <5>2. CASE proc' = [proc EXCEPT ![r].at = "cards"]
          BY <3>1, <5>2 DEF Server!BuildComponents
        <5> QED
          BY <3>1, <5>1, <5>2 DEF Server!BuildComponents
      <4>2. ~Server!DeleteCards(r)
        BY <3>1 DEF Server!BuildComponents, Server!DeleteCards
      <4> QED
        BY <3>0, <4>1, <4>2 DEF WrittenBy, WholeRun
    <3>2. CASE Server!DeleteCards(r)
      BY <3>2 DEF Server!DeleteCards, WrittenBy
    <3>3. CASE Server!DeletePairs(r)
      BY <3>0, <3>3 DEF Server!DeletePairs, Server!DeleteCards, WrittenBy
    <3>4. CASE Server!DeleteSummary(r)
      BY <3>0, <3>4 DEF Server!DeleteSummary, Server!DeleteCards, WrittenBy, InBounds
    <3>5. CASE Server!Reject(r)
      BY <3>0, <3>5 DEF Server!Reject, Server!NextPass, Server!DeleteCards, WrittenBy
    <3>6. CASE Server!LogC1Card(r)
      BY <3>0, <3>6 DEF Server!LogC1Card, Server!DeleteCards, WrittenBy, InBounds
    <3>7. CASE Server!LogC2Card(r)
      BY <3>0, <3>7 DEF Server!LogC2Card, Server!DeleteCards, WrittenBy
    <3>8. CASE Server!LogCyclePair(r)
      BY <3>0, <3>8 DEF Server!LogCyclePair, Server!DeleteCards, WrittenBy
    <3>9. CASE Server!Count(r)
      BY <3>0, <3>9 DEF Server!Count, Server!DeleteCards, WrittenBy, InBounds
    <3>10. CASE Server!Finish(r) \/ Server!Raise(r)
      \* A summary is only there when the limit has been reached.
      <4>1. proc'[r].at = "exited" /\ logs' = logs
        BY <3>10 DEF Server!Finish, Server!Raise, Server!Exit, Server!NoProcess
      <4>2. proc[r].at \notin {"pairs", "summary"}
        BY <3>10 DEF Server!Finish, Server!Raise
      <4>3. ~Server!DeleteCards(r)
        BY <4>1 DEF Server!DeleteCards
      <4>4. WrittenBy(r) /\ (Apart(r) => WholeRun)
        BY <3>0, <4>3
      <4>5. proc[r].at \in {"build", "cards", "scan", "c2", "pair", "count"}
        BY <2>1, <4>2 DEF Server!Alive, Server!Phases
      <4>6. WholeRun
        BY <4>4, <4>5 DEF WrittenBy, WholeRun
      <4> QED
        BY <4>1, <4>6 DEF WrittenBy, WholeRun
    <3> QED
      BY <1>5, <3>1, <3>2, <3>3, <3>4, <3>5, <3>6, <3>7, <3>8, <3>9, <3>10
      DEF Server!RunnerStep
  <2> QED
    BY <2>3, <2>4
<1>6. CASE UNCHANGED Server!vars
  BY <1>6 DEF Server!vars, WrittenBy, WholeRun
<1> QED
  BY <1>1, <1>2, <1>3, <1>4, <1>5, <1>6 DEF Server!Next, Server!RunnerStep

LEMMA ReadsAgreeStep ==
  ServerIInv /\ [Server!Next]_(Server!vars) => ReadsAgree' /\ Server!CompletedPasses'
<1> SUFFICES ASSUME ServerIInv, [Server!Next]_(Server!vars)
             PROVE  ReadsAgree' /\ Server!CompletedPasses'
  OBVIOUS
<1> USE DEF ServerIInv, ServerShape, Process, ReadsAgree, Server!CompletedPasses, Server!Calm,
            Server!Alive
<1>1. ASSUME NEW l \in RunLimits, Server!Start(l)
      PROVE  ReadsAgree' /\ Server!CompletedPasses'
  \* A request in hand is no longer calm, one that is answered is left alone.
  BY <1>1 DEF Server!Start
<1>2. ASSUME NEW r \in Server!Runner, Server!WaitForRunner(r)
      PROVE  ReadsAgree' /\ Server!CompletedPasses'
  BY <1>2 DEF Server!WaitForRunner
<1>3. CASE Server!Restart
  BY <1>3 DEF Server!Restart, Server!NoRequest
<1>4. CASE Server!ReadCards
  BY <1>4 DEF Server!ReadCards, Server!NoRequest
<1>5. CASE Server!ReadPairs
  BY <1>5 DEF Server!ReadPairs
<1>6. CASE Server!ReadSummary
  <2>1. request'.at = "answered"
    BY <1>6 DEF Server!ReadSummary
  <2>2. ASSUME request.calm, logs.summary # 0 PROVE Server!Passes(logs.summary)
    <3>1. request.c1 = logs.c1 /\ request.c2 = logs.c2 /\ request.pairs = logs.pairs
      BY <1>6, <2>2 DEF Server!ReadSummary
    <3>2. WholeRun
      BY <1>6, <2>2 DEF Server!ReadSummary, FilesAgree
    <3>3. logs.summary > 0
      <4>1. logs.summary \in RunLimits
        BY <2>2
      <4> QED
        BY <4>1, ServerConstants, logs.summary \in 1..50
    <3> QED
      BY <2>2, <3>1, <3>2, <3>3 DEF WholeRun, Server!Passes
  <2>3. request'.calm /\ request'.status = "completed" =>
          request.calm /\ logs.summary # 0 /\ request'.pass = Server!Passes(logs.summary)
    BY <1>6 DEF Server!ReadSummary, Server!NoSummary
  <2> QED
    BY <2>1, <2>2, <2>3
<1>7. ASSUME NEW r \in Server!Runner, Server!RunnerStep(r)
      PROVE  ReadsAgree' /\ Server!CompletedPasses'
  \* No runner lives while a calm request is in hand.
  BY <1>7, RunnerMoves
<1>8. CASE UNCHANGED Server!vars
  BY <1>8 DEF Server!vars
<1> QED
  BY <1>1, <1>2, <1>3, <1>4, <1>5, <1>6, <1>7, <1>8 DEF Server!Next, Server!RunnerStep

LEMMA ServerInvariance == Server!Spec => []ServerIInv
<1>1. ServerIInv /\ [Server!Next]_(Server!vars) => ServerIInv'
  BY ServerShapeStep, OneWatchedStep, InBoundsStep, OneRunnerStep, FilesAgreeStep,
     ReadsAgreeStep DEF ServerIInv
<1> QED
  BY ServerInit, <1>1, PTL DEF Server!Spec

LEMMA ServerTyped == ServerIInv => Server!TypeOK
  BY DEF ServerIInv, ServerShape, Process, InBounds, Server!TypeOK, Server!NoSummary

---------------------------------------------------------------------------
(* DryRun: the orchestrator, its cycle numbers and its files. *)

LEMMA DryConstants == Block \subseteq Nat \ {0} /\ Limits \subseteq Nat \ {0}
  BY DashboardsAssumption DEF Dry!DryRunAssumption

Numbers  == [block : Block \cup {0}, cycle : Nat, global : Nat]
CardLine == [role : {"C1", "C2"}, opp : Nat, block : Block \cup {0}, cycle : Nat]
PairLine == [opp : Nat, block : Block \cup {0}, cycle : Nat, c2 : {"none", "EXECUTE", "NO_OP"}]

BeforeCards == {"reject", "c1card"}
WithC1Card  == {"build", "c2", "c2card"}
WithPair    == {"row", "count"}
InCycle     == BeforeCards \cup WithC1Card \cup {"pair"} \cup WithPair

\* Where a reset has come to: what is behind it is deleted.
RejectsGone == {"summaryfile", "index", "begin"}
BuildsGone  == {"rejectsfile"} \cup RejectsGone
PairsGone   == {"rowsfile", "buildsfile"} \cup BuildsGone
CardsGone   == {"pairsfile"} \cup PairsGone

DryShape ==
  /\ running \in BOOLEAN /\ limit \in Limits /\ completed \in Nat
  /\ summary \in {Dry!NoSummary, "completed", "stopped"}
  /\ index \in Numbers /\ cycle \in Numbers
  /\ cards \in Seq(CardLine) /\ pairs \in Seq(PairLine)
  /\ rejections \subseteq Nat /\ builds \subseteq Nat
  /\ blockRows \in [Block -> SUBSET Nat]
  /\ cand \in [block : Block \cup {0}, c1 : {"accepted", "rejected"},
               c2 : {"none", "EXECUTE", "NO_OP"}]
  /\ at \in {"idle", "start", "scan", "enter"} \cup CardsGone \cup InCycle
  /\ at = "enter" => cand.block \in Block
  /\ at \in InCycle => running /\ cycle = index /\ cycle.block \in Block
  /\ at \in CardsGone => cards = <<>>
  /\ at \in PairsGone => pairs = <<>>
  /\ at \in BuildsGone => builds = {}
  /\ at \in RejectsGone => rejections = {}

\* The number of the cycle in hand is new when it is given, and is in the files only
\* where the cycle has come to.
NumbersAreNew ==
  /\ \A n \in DOMAIN cards : cards[n].opp <= index.global
  /\ \A n \in DOMAIN pairs : pairs[n].opp <= index.global
  /\ \A g \in rejections \cup builds : g <= index.global
  /\ at \in BeforeCards => \A n \in DOMAIN cards : cards[n].opp # cycle.global
  /\ at \in WithC1Card =>
       \A n \in DOMAIN cards : cards[n].opp = cycle.global => cards[n].role = "C1"
  /\ at \in InCycle \ WithPair => \A n \in DOMAIN pairs : pairs[n].opp # cycle.global
  /\ at \in BeforeCards \cup {"build"} => cycle.global \notin builds
  /\ at \in InCycle => cycle.global \notin rejections

\* A role and a number are on one line of the card file at most.
LinesAreUnique ==
  /\ \A m, n \in DOMAIN cards :
       cards[m].role = cards[n].role /\ cards[m].opp = cards[n].opp => m = n
  /\ \A m, n \in DOMAIN pairs : pairs[m].opp = pairs[n].opp => m = n
  /\ \A n \in DOMAIN cards : cards[n].opp \notin rejections
  /\ builds \cap rejections = {}

HasLine(role, opp, block, number) ==
  \E n \in DOMAIN cards : /\ cards[n].role = role /\ cards[n].opp = opp
                          /\ cards[n].block = block /\ cards[n].cycle = number

\* The cards of every pair, unless a reset was broken off after their file was
\* deleted, and those of the cycle in hand.
CardsWritten ==
  /\ running \/ cards # <<>> => \A n \in DOMAIN pairs, role \in {"C1", "C2"} :
       HasLine(role, pairs[n].opp, pairs[n].block, pairs[n].cycle)
  /\ at \in WithC1Card \cup {"pair"} => HasLine("C1", cycle.global, cycle.block, cycle.cycle)
  /\ at = "pair" => HasLine("C2", cycle.global, cycle.block, cycle.cycle)

\* The row of the cycle's block has been written when the cycle is counted.
RowWritten ==
  at = "count" =>
    \A n \in DOMAIN pairs : pairs[n].block = cycle.block => pairs[n].opp \in blockRows[cycle.block]

DryIInv == DryShape /\ NumbersAreNew /\ LinesAreUnique /\ CardsWritten /\ RowWritten

LEMMA DryInit == Dry!Init => DryIInv
<1> SUFFICES ASSUME Dry!Init PROVE DryIInv
  OBVIOUS
<1> USE DryConstants DEF Dry!Init, BeforeCards, WithC1Card, WithPair, InCycle,
                         CardsGone, PairsGone, BuildsGone, RejectsGone
<1>1. DryShape
  <2>1. Dry!NewIndex \in Numbers
    BY DEF Dry!NewIndex, Numbers
  <2>2. Dry!NoCand \in [block : Block \cup {0}, c1 : {"accepted", "rejected"},
                       c2 : {"none", "EXECUTE", "NO_OP"}]
    BY DEF Dry!NoCand
  <2>3. cards \in Seq(CardLine) /\ pairs \in Seq(PairLine)
    OBVIOUS
  <2> QED
    BY <2>1, <2>2, <2>3 DEF DryShape
<1>2. NumbersAreNew /\ LinesAreUnique /\ CardsWritten /\ RowWritten
  BY DEF NumbersAreNew, LinesAreUnique, CardsWritten, RowWritten
<1> QED
  BY <1>1, <1>2 DEF DryIInv

\* What Append does to the lines of a file.
LEMMA Appended ==
  ASSUME NEW S, NEW file \in Seq(S), NEW line \in S
  PROVE  /\ Append(file, line) \in Seq(S)
         /\ DOMAIN file = 1..Len(file) /\ Len(file) \in Nat
         /\ DOMAIN Append(file, line) = DOMAIN file \cup {Len(file) + 1}
         /\ \A n \in DOMAIN file : Append(file, line)[n] = file[n]
         /\ Append(file, line)[Len(file) + 1] = line
         /\ Len(file) + 1 \notin DOMAIN file
  OBVIOUS

LEMMA CardMade ==
  ASSUME cycle \in Numbers, NEW role \in {"C1", "C2"}
  PROVE  /\ Dry!Card(role) \in CardLine
         /\ Dry!Card(role).role = role /\ Dry!Card(role).opp = cycle.global
         /\ Dry!Card(role).block = cycle.block /\ Dry!Card(role).cycle = cycle.cycle
  BY DEF Numbers, CardLine, Dry!Card

LEMMA LinesTyped ==
  ASSUME DryShape
  PROVE  /\ \A n \in DOMAIN cards : cards[n] \in CardLine /\ cards[n].opp \in Nat
         /\ \A n \in DOMAIN pairs : pairs[n] \in PairLine /\ pairs[n].opp \in Nat
         /\ \A g \in rejections \cup builds : g \in Nat
<1>1. \A n \in DOMAIN cards : cards[n] \in CardLine
  BY DEF DryShape
<1>2. \A n \in DOMAIN pairs : pairs[n] \in PairLine
  BY DEF DryShape
<1>3. \A g \in rejections \cup builds : g \in Nat
  BY DEF DryShape
<1> QED
  BY <1>1, <1>2, <1>3 DEF CardLine, PairLine

LEMMA DryShapeStep == DryShape /\ [Dry!Next]_(Dry!vars) => DryShape'
<1> SUFFICES ASSUME DryShape, [Dry!Next]_(Dry!vars) PROVE DryShape'
  OBVIOUS
<1> USE DEF DryShape, Dry!state, Dry!files, BeforeCards, WithC1Card, WithPair, InCycle,
            CardsGone, PairsGone, BuildsGone, RejectsGone
<1>1. ASSUME NEW l \in Limits, Dry!Run(l) PROVE DryShape'
  BY <1>1 DEF Dry!Run
<1>2. CASE Dry!AlreadyRunning \/ Dry!Return \/ Dry!Refused \/ Dry!Fail
  BY <1>2 DEF Dry!AlreadyRunning, Dry!Return, Dry!Refused, Dry!Fail
<1>3. CASE Dry!ResetFiles
  <2>1. CASE Dry!DeleteCards
    BY <2>1 DEF Dry!DeleteCards, Dry!Cleared
  <2>2. CASE Dry!DeletePairs
    BY <2>2 DEF Dry!DeletePairs, Dry!Cleared
  <2>3. CASE Dry!DeleteBlockRows
    BY <2>3 DEF Dry!DeleteBlockRows
  <2>4. CASE Dry!DeleteBuilds
    BY <2>4 DEF Dry!DeleteBuilds
  <2>5. CASE Dry!DeleteRejections
    BY <2>5 DEF Dry!DeleteRejections
  <2>6. CASE Dry!DeleteSummary
    BY <2>6 DEF Dry!DeleteSummary
  <2> QED
    BY <1>3, <2>1, <2>2, <2>3, <2>4, <2>5, <2>6 DEF Dry!ResetFiles
<1>4. CASE Dry!Begin
  BY <1>4 DEF Dry!Begin
<1>18. CASE Dry!ResetIndex
  BY <1>18 DEF Dry!ResetIndex, Dry!NewIndex, Numbers
<1>5. CASE Dry!Scan
  BY <1>5 DEF Dry!Scan
<1>6. CASE Dry!Enter
  <2>1. Dry!Numbered(cand.block) \in Numbers /\ Dry!Numbered(cand.block).block = cand.block
    BY <1>6 DEF Dry!Enter, Dry!Numbered, Numbers
  <2> QED
    BY <1>6, <2>1 DEF Dry!Enter
<1>7. CASE Dry!Reject
  BY <1>7 DEF Dry!Reject, Dry!AfterReject, Numbers
<1>8. ASSUME NEW role \in {"C1", "C2"}, cards' = Append(cards, Dry!Card(role)), at \in InCycle
      PROVE  cards' \in Seq(CardLine)
  BY <1>8, CardMade, Appended
<1>16. CASE Dry!LogC1Card
  BY <1>16, <1>8 DEF Dry!LogC1Card
<1>17. CASE Dry!LogC2Card
  BY <1>17, <1>8 DEF Dry!LogC2Card
<1>9. CASE Dry!LogPayloadBuild
  BY <1>9 DEF Dry!LogPayloadBuild, Numbers
<1>10. CASE Dry!EvaluateC2
  BY <1>10 DEF Dry!EvaluateC2
<1>11. CASE Dry!LogCyclePair
  <2>1. [opp |-> cycle.global, block |-> cycle.block, cycle |-> cycle.cycle, c2 |-> cand.c2]
          \in PairLine
    BY DEF Numbers, PairLine
  <2> QED
    BY <1>11, <2>1, Appended DEF Dry!LogCyclePair
<1>12. CASE Dry!UpdateBlockSummary
  <2>0. \A p \in Dry!ToSet(pairs) : p \in PairLine
    BY DEF Dry!ToSet
  <2>1. Dry!PairsOf(cycle.block) \subseteq Nat
    BY <2>0 DEF Dry!PairsOf, PairLine
  <2> QED
    BY <1>12, <2>1 DEF Dry!UpdateBlockSummary
<1>13. CASE Dry!Count
  <2>1. completed + 1 \in Nat
    OBVIOUS
  <2>2. CASE Dry!IsLast(completed')
    BY <1>13, <2>1, <2>2 DEF Dry!Count, Dry!Verdict
  <2>3. CASE ~Dry!IsLast(completed')
    BY <1>13, <2>1, <2>3 DEF Dry!Count
  <2> QED
    BY <2>2, <2>3
<1>14. CASE Dry!Stop
  BY <1>14 DEF Dry!Stop, Dry!Verdict, Dry!LockFree
<1>15. CASE UNCHANGED Dry!vars
  BY <1>15 DEF Dry!vars
<1> QED
  BY <1>1, <1>2, <1>3, <1>4, <1>5, <1>6, <1>7, <1>9, <1>10, <1>11, <1>12, <1>13, <1>14,
     <1>15, <1>16, <1>17, <1>18 DEF Dry!Next, Dry!RunCycle

\* Which step writes which file, from where to where.
LEMMA DryFrame ==
  ASSUME DryShape, [Dry!Next]_(Dry!vars)
  PROVE  \/ Dry!ResetFiles \/ Dry!ResetIndex \/ Dry!Begin
         \/ Dry!Enter \/ Dry!Reject \/ Dry!LogC1Card
         \/ Dry!LogPayloadBuild \/ Dry!LogC2Card \/ Dry!LogCyclePair
         \/ Dry!UpdateBlockSummary
         \/ /\ UNCHANGED <<index, cycle, cards, pairs, builds, rejections, blockRows>>
            /\ running' => running
            /\ \/ at' \in {"idle", "start", "scan", "enter"}
               \/ at' = "idle"
               \/ at = "c2" /\ at' = "c2card"
               \/ at' = at
<1> USE DEF Dry!state, Dry!files
<1>1. ASSUME NEW l \in Limits, Dry!Run(l)
      PROVE  /\ UNCHANGED <<running, index, cycle, cards, pairs, builds, rejections, blockRows>>
             /\ at' = "start"
  BY <1>1 DEF Dry!Run
<1>2. CASE Dry!AlreadyRunning \/ Dry!Return \/ Dry!Refused \/ Dry!Scan \/ Dry!Fail
  BY <1>2 DEF Dry!AlreadyRunning, Dry!Return, Dry!Refused, Dry!Scan, Dry!Fail
<1>3. CASE Dry!EvaluateC2
  BY <1>3 DEF Dry!EvaluateC2
<1>4. CASE Dry!Count
  BY <1>4 DEF Dry!Count, DryShape
<1>5. CASE Dry!Stop
  BY <1>5 DEF Dry!Stop
<1>6. CASE UNCHANGED Dry!vars
  BY <1>6 DEF Dry!vars
<1> QED
  BY <1>1, <1>2, <1>3, <1>4, <1>5, <1>6 DEF Dry!Next, Dry!RunCycle

\* A step of the reset empties a file or leaves it alone.
LEMMA ResetFrame ==
  ASSUME DryShape, Dry!ResetFiles
  PROVE  /\ UNCHANGED <<running, index, cycle>> /\ at' \in CardsGone
         /\ \/ cards' = <<>> /\ ~running' /\ UNCHANGED <<pairs, builds, rejections>>
            \/ pairs' = <<>> /\ UNCHANGED <<cards, builds, rejections>>
            \/ /\ UNCHANGED <<cards, pairs>> /\ pairs = <<>>
               /\ builds' \in {builds, {}} /\ rejections' \in {rejections, {}}
<1> USE DEF Dry!state, Dry!files, Dry!Cleared, CardsGone, PairsGone, BuildsGone, RejectsGone
<1>1. CASE Dry!DeleteCards
  BY <1>1 DEF Dry!DeleteCards
<1>2. CASE Dry!DeletePairs
  BY <1>2 DEF Dry!DeletePairs
<1>3. CASE Dry!DeleteBlockRows
  BY <1>3 DEF Dry!DeleteBlockRows, DryShape
<1>4. CASE Dry!DeleteBuilds
  BY <1>4 DEF Dry!DeleteBuilds, DryShape
<1>5. CASE Dry!DeleteRejections
  BY <1>5 DEF Dry!DeleteRejections, DryShape
<1>6. CASE Dry!DeleteSummary
  BY <1>6 DEF Dry!DeleteSummary, DryShape
<1> QED
  BY <1>1, <1>2, <1>3, <1>4, <1>5, <1>6 DEF Dry!ResetFiles

LEMMA NumbersAreNewStep ==
  DryShape /\ NumbersAreNew /\ [Dry!Next]_(Dry!vars) => NumbersAreNew'
<1> SUFFICES ASSUME DryShape, NumbersAreNew, [Dry!Next]_(Dry!vars) PROVE NumbersAreNew'
  OBVIOUS
<1> USE DEF Dry!state, Dry!files, BeforeCards, WithC1Card, WithPair, InCycle
<1>a. index.global \in Nat /\ cycle.global \in Nat
  BY DEF DryShape, Numbers
<1>b. /\ \A n \in DOMAIN cards : cards[n].opp \in Nat
      /\ \A n \in DOMAIN pairs : pairs[n].opp \in Nat
      /\ \A g \in rejections \cup builds : g \in Nat
  BY LinesTyped
<1>c. at \in InCycle => cycle.global = index.global
  BY DEF DryShape
<1>1. CASE Dry!ResetFiles
  <2> USE DEF CardsGone, PairsGone, BuildsGone, RejectsGone
  <2>1. /\ UNCHANGED index /\ at' \in CardsGone
        /\ \/ cards' = <<>> /\ UNCHANGED <<pairs, builds, rejections>>
           \/ pairs' = <<>> /\ UNCHANGED <<cards, builds, rejections>>
           \/ /\ UNCHANGED <<cards, pairs>>
              /\ builds' \in {builds, {}} /\ rejections' \in {rejections, {}}
    BY <1>1, ResetFrame
  <2> QED
    BY <2>1 DEF NumbersAreNew
<1>2. CASE Dry!ResetIndex \/ Dry!Begin
  <2>1. cards = <<>> /\ pairs = <<>> /\ builds = {} /\ rejections = {}
    BY <1>2 DEF Dry!ResetIndex, Dry!Begin, DryShape, CardsGone, PairsGone, BuildsGone, RejectsGone
  <2>2. UNCHANGED <<cards, pairs, builds, rejections>> /\ at' \notin InCycle
    BY <1>2 DEF Dry!ResetIndex, Dry!Begin
  <2> QED
    BY <2>1, <2>2 DEF NumbersAreNew
<1>3. CASE Dry!Enter
  <2>1. cycle'.global = index.global + 1 /\ index'.global = index.global + 1
    BY <1>3 DEF Dry!Enter, Dry!Numbered
  <2>2. at' \in BeforeCards /\ at = "enter"
    BY <1>3 DEF Dry!Enter
  <2>3. UNCHANGED <<cards, pairs, builds, rejections>>
    BY <1>3 DEF Dry!Enter
  <2>4. /\ \A n \in DOMAIN cards : cards[n].opp <= index.global
        /\ \A n \in DOMAIN pairs : pairs[n].opp <= index.global
        /\ \A g \in rejections \cup builds : g <= index.global
    BY <2>2 DEF NumbersAreNew
  <2>5. /\ \A n \in DOMAIN cards : cards[n].opp <= cycle'.global /\ cards[n].opp # cycle'.global
        /\ \A n \in DOMAIN pairs : pairs[n].opp <= cycle'.global /\ pairs[n].opp # cycle'.global
        /\ \A g \in rejections \cup builds : g <= cycle'.global /\ g # cycle'.global
    BY <2>1, <2>4, <1>a, <1>b
  <2> QED
    BY <2>1, <2>2, <2>3, <2>5 DEF NumbersAreNew
<1>4. CASE Dry!Reject
  BY <1>4, <1>a, <1>c DEF Dry!Reject, Dry!AfterReject, NumbersAreNew
<1>5. ASSUME NEW role \in {"C1", "C2"}, cards' = Append(cards, Dry!Card(role)), at \in InCycle
      PROVE  /\ \A n \in DOMAIN cards' :
                  \/ n \in DOMAIN cards /\ cards'[n] = cards[n]
                  \/ cards'[n].opp = cycle.global /\ cards'[n].role = role
             /\ \A n \in DOMAIN cards' : cards'[n].opp <= index.global
  <2>1. cards \in Seq(CardLine) /\ cycle \in Numbers
    BY DEF DryShape
  <2>2. \A n \in DOMAIN cards' : \/ n \in DOMAIN cards /\ cards'[n] = cards[n]
                               \/ cards'[n] = Dry!Card(role)
    BY <1>5, <2>1, CardMade, Appended
  <2>3. Dry!Card(role).opp = cycle.global /\ Dry!Card(role).role = role
    BY <2>1, CardMade
  <2>4. \A n \in DOMAIN cards : cards[n].opp <= index.global
    BY <1>5 DEF NumbersAreNew
  <2> QED
    BY <2>2, <2>3, <2>4, <1>5, <1>a, <1>c
<1>6. CASE Dry!LogC1Card
  <2>1. cards' = Append(cards, Dry!Card("C1")) /\ at = "c1card" /\ at' = "build"
    BY <1>6 DEF Dry!LogC1Card
  <2>2. \A n \in DOMAIN cards' : cards'[n].opp <= index.global
    BY <2>1, <1>5
  <2>3. \A n \in DOMAIN cards' : cards'[n].opp = cycle.global => cards'[n].role = "C1"
    BY <2>1, <1>5 DEF NumbersAreNew
  <2> QED
    BY <1>6, <2>1, <2>2, <2>3 DEF Dry!LogC1Card, NumbersAreNew
<1>7. CASE Dry!LogPayloadBuild
  BY <1>7, <1>a, <1>c DEF Dry!LogPayloadBuild, NumbersAreNew
<1>8. CASE Dry!LogC2Card
  <2>1. cards' = Append(cards, Dry!Card("C2")) /\ at = "c2card" /\ at' = "pair"
    BY <1>8 DEF Dry!LogC2Card
  <2>2. \A n \in DOMAIN cards' : cards'[n].opp <= index.global
    BY <2>1, <1>5
  <2> QED
    BY <1>8, <2>1, <2>2 DEF Dry!LogC2Card, NumbersAreNew
<1>9. CASE Dry!LogCyclePair
  <2> DEFINE line == [opp |-> cycle.global, block |-> cycle.block, cycle |-> cycle.cycle,
                      c2 |-> cand.c2]
  <2>1. pairs' = Append(pairs, line) /\ at = "pair" /\ at' = "row"
    BY <1>9 DEF Dry!LogCyclePair
  <2>2. line \in PairLine /\ line.opp = cycle.global
    BY DEF DryShape, Numbers, PairLine
  <2> HIDE DEF line
  <2>3. \A n \in DOMAIN pairs' : \/ n \in DOMAIN pairs /\ pairs'[n] = pairs[n]
                               \/ pairs'[n] = line
    BY <2>1, <2>2, Appended DEF DryShape
  <2>4. \A n \in DOMAIN pairs : pairs[n].opp <= index.global
    BY <2>1 DEF NumbersAreNew
  <2>5. \A n \in DOMAIN pairs' : pairs'[n].opp <= index.global
    BY <2>1, <2>2, <2>3, <2>4, <1>a, <1>c
  <2> QED
    BY <1>9, <2>1, <2>5 DEF Dry!LogCyclePair, NumbersAreNew
<1>10. CASE Dry!UpdateBlockSummary
  BY <1>10 DEF Dry!UpdateBlockSummary, NumbersAreNew
<1>11. CASE /\ UNCHANGED <<index, cycle, cards, pairs, builds, rejections, blockRows>>
            /\ \/ at' \in {"idle", "start", "scan", "enter"}
               \/ at' = "idle"
               \/ at = "c2" /\ at' = "c2card"
               \/ at' = at
  BY <1>11 DEF NumbersAreNew, DryShape
<1> QED
  BY <1>1, <1>2, <1>3, <1>4, <1>6, <1>7, <1>8, <1>9, <1>10, <1>11, DryFrame

\* What a step that writes a card does to the card file.
LEMMA CardAppended ==
  ASSUME DryShape, NEW role \in {"C1", "C2"}, cards' = Append(cards, Dry!Card(role))
  PROVE  \E new : /\ new \notin DOMAIN cards
                  /\ DOMAIN cards' = DOMAIN cards \cup {new}
                  /\ \A n \in DOMAIN cards : cards'[n] = cards[n]
                  /\ cards'[new].role = role /\ cards'[new].opp = cycle.global
                  /\ cards'[new].block = cycle.block /\ cards'[new].cycle = cycle.cycle
<1>1. cards \in Seq(CardLine) /\ cycle \in Numbers
  BY DEF DryShape
<1> DEFINE line == Dry!Card(role)
<1>2. /\ line \in CardLine
      /\ line.role = role /\ line.opp = cycle.global
      /\ line.block = cycle.block /\ line.cycle = cycle.cycle
  BY <1>1, CardMade
<1>3. cards' = Append(cards, line)
  OBVIOUS
<1> HIDE DEF line
<1> WITNESS Len(cards) + 1
<1> QED
  BY <1>1, <1>2, <1>3, Appended

LEMMA PairAppended ==
  ASSUME DryShape, Dry!LogCyclePair
  PROVE  \E new : /\ new \notin DOMAIN pairs
                  /\ DOMAIN pairs' = DOMAIN pairs \cup {new}
                  /\ \A n \in DOMAIN pairs : pairs'[n] = pairs[n]
                  /\ pairs'[new].opp = cycle.global
                  /\ pairs'[new].block = cycle.block /\ pairs'[new].cycle = cycle.cycle
<1> DEFINE line == [opp |-> cycle.global, block |-> cycle.block, cycle |-> cycle.cycle,
                    c2 |-> cand.c2]
<1>1. pairs' = Append(pairs, line)
  BY DEF Dry!LogCyclePair
<1>2. line \in PairLine /\ line.opp = cycle.global /\ line.block = cycle.block /\ line.cycle = cycle.cycle
  BY DEF DryShape, Numbers, PairLine
<1>3. pairs \in Seq(PairLine)
  BY DEF DryShape
<1> HIDE DEF line
<1> WITNESS Len(pairs) + 1
<1> QED
  BY <1>1, <1>2, <1>3, Appended

LEMMA LinesAreUniqueStep ==
  DryShape /\ NumbersAreNew /\ LinesAreUnique /\ [Dry!Next]_(Dry!vars) => LinesAreUnique'
<1> SUFFICES ASSUME DryShape, NumbersAreNew, LinesAreUnique, [Dry!Next]_(Dry!vars)
             PROVE  LinesAreUnique'
  OBVIOUS
<1> USE DEF Dry!state, Dry!files, BeforeCards, WithC1Card, WithPair, InCycle
<1>1. CASE Dry!ResetFiles
  <2>1. \/ cards' = <<>> /\ UNCHANGED <<pairs, builds, rejections>>
        \/ pairs' = <<>> /\ UNCHANGED <<cards, builds, rejections>>
        \/ /\ UNCHANGED <<cards, pairs>>
           /\ builds' \in {builds, {}} /\ rejections' \in {rejections, {}}
    BY <1>1, ResetFrame
  <2> QED
    BY <2>1 DEF LinesAreUnique
<1>2. CASE Dry!ResetIndex \/ Dry!Begin \/ Dry!Enter \/ Dry!UpdateBlockSummary
  BY <1>2 DEF Dry!ResetIndex, Dry!Begin, Dry!Enter, Dry!UpdateBlockSummary, LinesAreUnique
<1>3. CASE Dry!Reject
  BY <1>3 DEF Dry!Reject, LinesAreUnique, NumbersAreNew
<1>4. CASE Dry!LogC1Card
  <2>1. cards' = Append(cards, Dry!Card("C1"))
    BY <1>4 DEF Dry!LogC1Card
  <2>2. PICK new : /\ new \notin DOMAIN cards
                   /\ DOMAIN cards' = DOMAIN cards \cup {new}
                   /\ \A n \in DOMAIN cards : cards'[n] = cards[n]
                   /\ cards'[new].role = "C1" /\ cards'[new].opp = cycle.global
    BY <2>1, CardAppended
  <2>3. cycle.global \notin rejections /\ \A n \in DOMAIN cards : cards[n].opp # cycle.global
    BY <1>4 DEF Dry!LogC1Card, NumbersAreNew
  <2>4. UNCHANGED <<pairs, builds, rejections>>
    BY <1>4 DEF Dry!LogC1Card
  <2> QED
    BY <2>2, <2>3, <2>4 DEF LinesAreUnique
<1>5. CASE Dry!LogC2Card
  <2>1. cards' = Append(cards, Dry!Card("C2"))
    BY <1>5 DEF Dry!LogC2Card
  <2>2. PICK new : /\ new \notin DOMAIN cards
                   /\ DOMAIN cards' = DOMAIN cards \cup {new}
                   /\ \A n \in DOMAIN cards : cards'[n] = cards[n]
                   /\ cards'[new].role = "C2" /\ cards'[new].opp = cycle.global
    BY <2>1, CardAppended
  <2>3. /\ cycle.global \notin rejections
        /\ \A n \in DOMAIN cards : cards[n].opp = cycle.global => cards[n].role = "C1"
    BY <1>5 DEF Dry!LogC2Card, NumbersAreNew
  <2>4. UNCHANGED <<pairs, builds, rejections>>
    BY <1>5 DEF Dry!LogC2Card
  <2> QED
    BY <2>2, <2>3, <2>4 DEF LinesAreUnique
<1>6. CASE Dry!LogPayloadBuild
  BY <1>6 DEF Dry!LogPayloadBuild, LinesAreUnique, NumbersAreNew
<1>7. CASE Dry!LogCyclePair
  <2>1. PICK new : /\ new \notin DOMAIN pairs
                   /\ DOMAIN pairs' = DOMAIN pairs \cup {new}
                   /\ \A n \in DOMAIN pairs : pairs'[n] = pairs[n]
                   /\ pairs'[new].opp = cycle.global
    BY <1>7, PairAppended
  <2>2. \A n \in DOMAIN pairs : pairs[n].opp # cycle.global
    BY <1>7 DEF Dry!LogCyclePair, NumbersAreNew
  <2>3. UNCHANGED <<cards, builds, rejections>>
    BY <1>7 DEF Dry!LogCyclePair
  <2> QED
    BY <2>1, <2>2, <2>3 DEF LinesAreUnique
<1>8. CASE UNCHANGED <<index, cycle, cards, pairs, builds, rejections, blockRows>>
  BY <1>8 DEF LinesAreUnique
<1> QED
  BY <1>1, <1>2, <1>3, <1>4, <1>5, <1>6, <1>7, <1>8, DryFrame

LEMMA CardsWrittenStep ==
  DryShape /\ CardsWritten /\ [Dry!Next]_(Dry!vars) => CardsWritten'
<1> SUFFICES ASSUME DryShape, CardsWritten, [Dry!Next]_(Dry!vars) PROVE CardsWritten'
  OBVIOUS
<1> USE DEF Dry!state, Dry!files, BeforeCards, WithC1Card, WithPair, InCycle
\* A line that is in the file stays there.
<1>a. ASSUME NEW role \in {"C1", "C2"}, cards' = Append(cards, Dry!Card(role))
      PROVE  /\ \A r, o, b, c : HasLine(r, o, b, c) => HasLine(r, o, b, c)'
             /\ HasLine(role, cycle.global, cycle.block, cycle.cycle)'
                  \/ cycle' # cycle
  <2>1. PICK new : /\ new \notin DOMAIN cards
                   /\ DOMAIN cards' = DOMAIN cards \cup {new}
                   /\ \A n \in DOMAIN cards : cards'[n] = cards[n]
                   /\ cards'[new].role = role /\ cards'[new].opp = cycle.global
                   /\ cards'[new].block = cycle.block /\ cards'[new].cycle = cycle.cycle
    BY <1>a, CardAppended
  <2> QED
    BY <2>1 DEF HasLine
<1>1. CASE Dry!ResetFiles
  <2>1. /\ UNCHANGED <<running, cycle>> /\ at' \in CardsGone
        /\ \/ cards' = <<>> /\ ~running'
           \/ pairs' = <<>>
           \/ UNCHANGED <<cards, pairs>>
    BY <1>1, ResetFrame
  <2>2. at' \notin WithC1Card \cup {"pair"}
    BY <2>1 DEF CardsGone, PairsGone, BuildsGone, RejectsGone
  <2> QED
    BY <2>1, <2>2 DEF CardsWritten, HasLine
<1>2. CASE Dry!ResetIndex \/ Dry!Begin
  BY <1>2 DEF Dry!ResetIndex, Dry!Begin, CardsWritten, HasLine, DryShape,
              CardsGone, PairsGone, BuildsGone, RejectsGone
<1>3. CASE Dry!Enter
  BY <1>3 DEF Dry!Enter, CardsWritten, HasLine
<1>4. CASE Dry!Reject \/ Dry!UpdateBlockSummary
  BY <1>4 DEF Dry!Reject, Dry!AfterReject, Dry!UpdateBlockSummary, CardsWritten, HasLine
<1>5. CASE Dry!LogC1Card
  <2>1. /\ cards' = Append(cards, Dry!Card("C1")) /\ at' = "build"
        /\ UNCHANGED <<pairs, cycle>>
    BY <1>5 DEF Dry!LogC1Card
  <2>2. running
    BY <1>5 DEF Dry!LogC1Card, DryShape
  <2>3. /\ \A r, o, b, c : HasLine(r, o, b, c) => HasLine(r, o, b, c)'
        /\ HasLine("C1", cycle.global, cycle.block, cycle.cycle)'
    BY <2>1, <1>a
  <2> QED
    BY <2>1, <2>2, <2>3 DEF CardsWritten
<1>6. CASE Dry!LogPayloadBuild
  BY <1>6 DEF Dry!LogPayloadBuild, CardsWritten, HasLine
<1>7. CASE Dry!LogC2Card
  <2>1. /\ cards' = Append(cards, Dry!Card("C2")) /\ at = "c2card" /\ at' = "pair"
        /\ UNCHANGED <<pairs, cycle>>
    BY <1>7 DEF Dry!LogC2Card
  <2>2. running
    BY <1>7 DEF Dry!LogC2Card, DryShape
  <2>3. /\ \A r, o, b, c : HasLine(r, o, b, c) => HasLine(r, o, b, c)'
        /\ HasLine("C2", cycle.global, cycle.block, cycle.cycle)'
    BY <2>1, <1>a
  <2> QED
    BY <2>1, <2>2, <2>3 DEF CardsWritten
<1>8. CASE Dry!LogCyclePair
  <2>1. PICK new : /\ DOMAIN pairs' = DOMAIN pairs \cup {new}
                   /\ \A n \in DOMAIN pairs : pairs'[n] = pairs[n]
                   /\ pairs'[new].opp = cycle.global
                   /\ pairs'[new].block = cycle.block /\ pairs'[new].cycle = cycle.cycle
    BY <1>8, PairAppended
  <2>2. /\ at = "pair" /\ at' = "row"
        /\ UNCHANGED <<cards, cycle>>
    BY <1>8 DEF Dry!LogCyclePair
  <2>3. /\ HasLine("C1", cycle.global, cycle.block, cycle.cycle)
        /\ HasLine("C2", cycle.global, cycle.block, cycle.cycle)
    BY <2>2 DEF CardsWritten
  <2>4. running
    BY <2>2 DEF DryShape
  <2>5. ASSUME NEW n \in DOMAIN pairs', NEW role \in {"C1", "C2"}
        PROVE  HasLine(role, pairs'[n].opp, pairs'[n].block, pairs'[n].cycle)
    BY <2>1, <2>3, <2>4 DEF CardsWritten
  <2>6. \A r, o, b, c : HasLine(r, o, b, c)' <=> HasLine(r, o, b, c)
    BY <2>2 DEF HasLine
  <2> QED
    BY <2>2, <2>5, <2>6 DEF CardsWritten
<1>9. CASE /\ UNCHANGED <<index, cycle, cards, pairs, builds, rejections, blockRows>>
           /\ running' => running
           /\ \/ at' \in {"idle", "start", "scan", "enter"}
              \/ at' = "idle"
              \/ at = "c2" /\ at' = "c2card"
              \/ at' = at
  BY <1>9 DEF CardsWritten, HasLine
<1> QED
  BY <1>1, <1>2, <1>3, <1>4, <1>5, <1>6, <1>7, <1>8, <1>9, DryFrame

LEMMA RowWrittenStep ==
  DryShape /\ RowWritten /\ [Dry!Next]_(Dry!vars) => RowWritten'
<1> SUFFICES ASSUME DryShape, RowWritten, [Dry!Next]_(Dry!vars), at' = "count"
             PROVE  RowWritten'
  BY DEF RowWritten
<1> USE DEF Dry!state, Dry!files
<1>1. CASE Dry!UpdateBlockSummary
  <2>1. /\ blockRows' = [blockRows EXCEPT ![cycle.block] = Dry!PairsOf(cycle.block)]
        /\ at = "row" /\ UNCHANGED <<pairs, cycle>>
    BY <1>1 DEF Dry!UpdateBlockSummary
  <2>2. cycle.block \in Block /\ blockRows \in [Block -> SUBSET Nat]
    BY <2>1 DEF DryShape, InCycle, WithPair
  <2>3. \A n \in DOMAIN pairs : pairs[n] \in Dry!ToSet(pairs)
    BY DEF Dry!ToSet
  <2>4. \A n \in DOMAIN pairs : pairs[n].block = cycle.block => pairs[n].opp \in Dry!PairsOf(cycle.block)
    BY <2>3 DEF Dry!PairsOf
  <2> QED
    BY <2>1, <2>2, <2>4 DEF RowWritten
<1>2. CASE UNCHANGED <<index, cycle, cards, pairs, builds, rejections, blockRows>> /\ at' = at
  BY <1>2 DEF RowWritten
<1>3. ~Dry!ResetFiles
  BY ResetFrame DEF CardsGone, PairsGone, BuildsGone, RejectsGone
<1> QED
  BY <1>1, <1>2, <1>3, DryFrame DEF Dry!ResetIndex, Dry!Begin, Dry!Enter, Dry!Reject, Dry!AfterReject,
       Dry!LogC1Card, Dry!LogPayloadBuild, Dry!LogC2Card, Dry!LogCyclePair

LEMMA DryInvariance == Dry!Spec => []DryIInv
<1>1. DryIInv /\ [Dry!Next]_(Dry!vars) => DryIInv'
  BY DryShapeStep, NumbersAreNewStep, LinesAreUniqueStep, CardsWrittenStep, RowWrittenStep
     DEF DryIInv
<1> QED
  BY DryInit, <1>1, PTL DEF Dry!Spec

LEMMA DryTyped == DryIInv => Dry!TypeOK
<1> SUFFICES ASSUME DryIInv PROVE Dry!TypeOK
  OBVIOUS
<1>1. \A c \in Dry!ToSet(cards) : \E n \in DOMAIN cards : c = cards[n]
  BY DEF Dry!ToSet
<1>2. rejections \cap ({c.opp : c \in Dry!ToSet(cards)} \cup builds) = {}
  BY <1>1 DEF DryIInv, LinesAreUnique
<1> QED
  BY <1>2 DEF DryIInv, DryShape, Numbers, Dry!TypeOK

LEMMA DryPaired == DryIInv => Dry!PairHasBothCards
  BY DEF DryIInv, LinesAreUnique, CardsWritten, HasLine, Dry!PairHasBothCards

\* Only Count counts a cycle.
LEMMA DryListed ==
  DryIInv /\ [Dry!Next]_(Dry!vars)
  => [completed' = completed + 1 =>
        \A p \in Dry!ToSet(pairs) : p.block = cycle.block => p.opp \in blockRows[p.block]]_(Dry!vars)
<1> SUFFICES ASSUME DryIInv, Dry!Next, completed' = completed + 1,
                    NEW p \in Dry!ToSet(pairs), p.block = cycle.block
             PROVE  p.opp \in blockRows[p.block]
  OBVIOUS
<1>1. completed \in Nat
  BY DEF DryIInv, DryShape
<1>2. Dry!Count
  <2>1. ~ UNCHANGED completed
    BY <1>1
  <2> USE DEF Dry!state
  <2>2. ASSUME Dry!Begin PROVE FALSE
    BY <1>1, <2>2 DEF Dry!Begin
  <2>3. ASSUME Dry!ResetFiles PROVE FALSE
    BY <2>1, <2>3 DEF Dry!ResetFiles, Dry!DeleteCards, Dry!DeletePairs, Dry!DeleteBlockRows,
         Dry!DeleteBuilds, Dry!DeleteRejections, Dry!DeleteSummary
  <2> QED
    BY <2>1, <2>2, <2>3 DEF Dry!Next, Dry!RunCycle, Dry!Run, Dry!AlreadyRunning, Dry!ResetIndex, Dry!Scan, Dry!Return,
         Dry!Refused, Dry!Enter, Dry!Reject, Dry!LogC1Card, Dry!LogPayloadBuild, Dry!EvaluateC2,
         Dry!LogC2Card, Dry!LogCyclePair, Dry!UpdateBlockSummary, Dry!Fail, Dry!Stop
<1>3. PICK n \in DOMAIN pairs : p = pairs[n]
  BY DEF Dry!ToSet
<1> QED
  BY <1>2, <1>3 DEF Dry!Count, DryIInv, RowWritten

---------------------------------------------------------------------------
(* The scanner surface: what min and max return, and what is made of it. *)

LEMMA SurfaceConstants ==
  /\ VenueOf \in [Pool -> Venue] /\ Threshold \in Nat
  /\ IsFiniteSet(Token) /\ None \notin Summaries /\ HasC2 \in BOOLEAN
  /\ \A t \in Token : \A s \in Surfaces[t] : IsSurface(s)
  BY SurfaceAssumption, CoordinatorAssumption

LEMMA LeastOf ==
  ASSUME NEW S \in SUBSET Nat, S # {}
  PROVE  \E n \in S : \A m \in S : n <= m
<1>1. PICK n \in S : \A m \in S : <<m, n>> \notin OpToRel(<, Nat)
  BY WFMin, NatLessThanWellFounded, Zenon
<1>2. \A m \in S : ~(m < n)
  BY <1>1 DEF OpToRel
<1> QED
  BY <1>2

LEMMA FirstIsOne ==
  ASSUME NEW rows, NEW places \in SUBSET Nat, places # {}
  PROVE  \E x \in places : FirstOf(rows, places) = rows[x]
<1>1. \E x \in places : \A y \in places : x <= y
  BY LeastOf
<1> QED
  BY <1>1 DEF FirstOf

LEMMA CheapestExists ==
  ASSUME NEW S \in SUBSET Nat, S # {}, NEW price \in [S -> Nat]
  PROVE  \E x \in S : \A y \in S : price[x] <= price[y]
<1>1. PICK p \in {price[x] : x \in S} : \A q \in {price[x] : x \in S} : p <= q
  <2>1. {price[x] : x \in S} \in SUBSET Nat /\ {price[x] : x \in S} # {}
    OBVIOUS
  <2> QED
    BY <2>1, LeastOf
<1> QED
  BY <1>1

\* By the least place up to which there is no dearest row.
LEMMA DearestExists ==
  ASSUME NEW n \in Nat, NEW S \in SUBSET (1..n), S # {}, NEW price \in [S -> Nat]
  PROVE  \E x \in S : \A y \in S : price[y] <= price[x]
<1> DEFINE Dearest(k, x) == x <= k /\ \A y \in S : y <= k => price[y] <= price[x]
           Bad == {k \in Nat : (\E x \in S : x <= k) /\ ~ \E x \in S : Dearest(k, x)}
<1>0. \A x \in S : x \in Nat /\ 1 <= x /\ x <= n
  OBVIOUS
<1>1. Bad = {}
  <2>1. SUFFICES ASSUME Bad # {} PROVE FALSE
    OBVIOUS
  <2>2. PICK k \in Bad : \A m \in Bad : k <= m
    BY <2>1, LeastOf
  <2>3. k \in Nat /\ k # 0 /\ k - 1 \in Nat /\ k - 1 \notin Bad
    <3>1. k \in Nat /\ \E x \in S : x <= k
      BY <2>2
    <3>2. k # 0 /\ k - 1 \in Nat
      BY <3>1, <1>0
    <3>3. ~(k <= k - 1)
      BY <3>1
    <3> QED
      BY <2>2, <3>1, <3>2, <3>3
  <2>4. CASE ~ \E x \in S : x <= k - 1
    <3>1. k \in S /\ \A y \in S : y <= k => y = k
      BY <2>2, <2>3, <2>4
    <3>2. Dearest(k, k)
      BY <3>1
    <3> QED
      BY <2>2, <3>1, <3>2
  <2>5. CASE \E x \in S : x <= k - 1
    <3>1. PICK m \in S : Dearest(k - 1, m)
      BY <2>3, <2>5
    <3>2. CASE k \notin S
      <4>1. Dearest(k, m)
        BY <2>3, <3>1, <3>2
      <4> QED
        BY <2>2, <4>1
    <3>3. CASE k \in S /\ price[k] <= price[m]
      <4>1. Dearest(k, m)
        BY <2>3, <3>1, <3>3
      <4> QED
        BY <2>2, <4>1
    <3>4. CASE k \in S /\ ~(price[k] <= price[m])
      <4>1. price[m] \in Nat /\ price[k] \in Nat
        BY <3>4
      <4>2. ASSUME NEW y \in S, y <= k PROVE price[y] <= price[k]
        <5>1. y = k \/ y <= k - 1
          BY <4>2, <2>3
        <5>2. price[y] \in Nat
          OBVIOUS
        <5> QED
          BY <5>1, <5>2, <4>1, <3>1, <3>4
      <4>3. Dearest(k, k)
        BY <4>2, <2>3
      <4> QED
        BY <2>2, <3>4, <4>3
    <3> QED
      BY <3>2, <3>3, <3>4
  <2> QED
    BY <2>4, <2>5
<1>2. n \notin Bad /\ \A x \in S : x <= n
  <2> HIDE DEF Bad
  <2> QED
    BY <1>0, <1>1
<1>3. PICK x \in S : Dearest(n, x)
  BY <1>2
<1> QED
  BY <1>2, <1>3

LEMMA RowsTyped ==
  ASSUME NEW rows, IsSurface(rows)
  PROVE  /\ Len(rows) \in Nat /\ DOMAIN rows = 1..Len(rows)
         /\ \A x \in DOMAIN rows : /\ rows[x] \in Row /\ rows[x].pool \in Pool
                                  /\ rows[x].buy \in Nat /\ rows[x].sell \in Nat
         /\ \A x, y \in DOMAIN rows : rows[x].pool = rows[y].pool => x = y
<1>1. rows \in Seq(Row) /\ \A x, y \in DOMAIN rows : rows[x].pool = rows[y].pool => x = y
  BY DEF IsSurface
<1>2. \A x \in DOMAIN rows : rows[x] \in Row
  BY <1>1
<1> QED
  BY <1>1, <1>2 DEF Row

\* The best rows of a surface, and that a pool's row is found again by the pool.
BestAt(rows, b, s) ==
  /\ Extrema(rows) = [buy |-> rows[b], sell |-> rows[s]]
  /\ \A y \in ValidRows(rows) : rows[b].buy <= rows[y].buy /\ rows[y].sell <= rows[s].sell

LEMMA RowFound ==
  ASSUME NEW rows, IsSurface(rows), NEW x \in DOMAIN rows
  PROVE  RowOf(rows, rows[x].pool) = rows[x]
<1> DEFINE places == {y \in DOMAIN rows : rows[y].pool = rows[x].pool}
<1>1. places = {x} /\ places \in SUBSET Nat
  BY RowsTyped
<1> QED
  BY <1>1, FirstIsOne DEF RowOf

LEMMA BestExist ==
  ASSUME NEW rows, IsSurface(rows), Extrema(rows) # NoExtrema
  PROVE  \E b, s \in ValidRows(rows) : BestAt(rows, b, s)
<1> DEFINE valid == ValidRows(rows)
<1>1. valid # {}
  BY DEF Extrema
<1>2. valid \in SUBSET DOMAIN rows /\ valid \in SUBSET Nat /\ valid \in SUBSET (1..Len(rows))
      /\ Len(rows) \in Nat
  BY RowsTyped DEF ValidRows
<1>3. \A x \in valid : rows[x].buy \in Nat /\ rows[x].sell \in Nat
  BY <1>2, RowsTyped
<1> HIDE DEF valid
<1>4. \E b \in valid : BestBuy(rows, valid) = rows[b] /\ \A y \in valid : rows[b].buy <= rows[y].buy
  <2> DEFINE price == [x \in valid |-> rows[x].buy]
             best == {x \in valid : \A y \in valid : rows[x].buy <= rows[y].buy}
  <2>1. price \in [valid -> Nat]
    BY <1>3
  <2>2. PICK x \in valid : \A y \in valid : price[x] <= price[y]
    <3> HIDE DEF price
    <3> QED
      BY <1>1, <1>2, <2>1, CheapestExists
  <2>3. best # {} /\ best \in SUBSET Nat
    BY <2>2, <1>2
  <2>4. PICK b \in best : FirstOf(rows, best) = rows[b]
    BY <2>3, FirstIsOne
  <2> QED
    BY <2>4 DEF BestBuy
<1>5. \E s \in valid : BestSell(rows, valid) = rows[s] /\ \A y \in valid : rows[y].sell <= rows[s].sell
  <2> DEFINE price == [x \in valid |-> rows[x].sell]
             best == {x \in valid : \A y \in valid : rows[x].sell >= rows[y].sell}
  <2>1. price \in [valid -> Nat]
    BY <1>3
  <2>2. PICK x \in valid : \A y \in valid : price[y] <= price[x]
    <3> HIDE DEF price
    <3> QED
      BY <1>1, <1>2, <2>1, DearestExists
  <2>3. best # {} /\ best \in SUBSET Nat
    BY <2>2, <1>2, <1>3
  <2>4. PICK s \in best : FirstOf(rows, best) = rows[s]
    BY <2>3, FirstIsOne
  <2> QED
    BY <2>4, <1>3 DEF BestSell
<1>6. Extrema(rows) = [buy |-> BestBuy(rows, valid), sell |-> BestSell(rows, valid)]
  BY <1>1 DEF Extrema, valid
<1> QED
  BY <1>4, <1>5, <1>6 DEF BestAt, valid

\* A candidate has prices.
Priced(line) == line.status = "CANDIDATE" => line.buyPrice > 0 /\ line.sellPrice > 0

LEMMA SummaryTyped ==
  ASSUME NEW rows, IsSurface(rows)
  PROVE  Summary(rows) \in Summaries /\ Priced(Summary(rows))
<1>1. CASE Extrema(rows) = NoExtrema
  BY <1>1 DEF Summary, NoData, Summaries, Status, Priced
<1>2. CASE Extrema(rows) # NoExtrema
  <2>1. PICK b, s \in ValidRows(rows) : BestAt(rows, b, s)
    BY <1>2, BestExist
  <2>2. b \in DOMAIN rows /\ s \in DOMAIN rows /\ rows[b].buy > 0 /\ rows[s].sell > 0
    BY <2>1 DEF ValidRows
  <2>3. /\ Extrema(rows).buy = rows[b] /\ Extrema(rows).sell = rows[s]
    BY <2>1 DEF BestAt
  <2>4. /\ rows[b].buy \in Nat /\ rows[s].sell \in Nat
        /\ VenueOf[rows[b].pool] \in Venue /\ VenueOf[rows[s].pool] \in Venue
    BY <2>2, RowsTyped, SurfaceConstants
  <2>5. Summary(rows) =
          [status |-> IF Spread(Extrema(rows)) > 0 THEN "CANDIDATE" ELSE "NO_EDGE",
           buyVenue |-> VenueOf[rows[b].pool], buyPrice |-> rows[b].buy,
           sellVenue |-> VenueOf[rows[s].pool], sellPrice |-> rows[s].sell]
    BY <1>2, <2>3 DEF Summary
  <2> QED
    BY <2>2, <2>4, <2>5 DEF Summaries, Status, Priced
<1> QED
  BY <1>1, <1>2

\* What Intake gives C1, whenever it gives it something.
AsksBestPair(rows) ==
  LET asked == Intake(rows, FALSE)
      good == {r \in Range(rows) : r.high /\ r.buy > 0 /\ r.sell > 0}
  IN /\ {asked.buy, asked.sell} \subseteq good
     /\ \A r \in good : asked.buy.buy <= r.buy /\ r.sell <= asked.sell.sell
     /\ asked.buy.buy < asked.sell.sell

LEMMA IntakeBest ==
  ASSUME NEW rows, IsSurface(rows), NEW stale \in BOOLEAN, Intake(rows, stale) # None
  PROVE  AsksBestPair(rows)
<1>1. Extrema(rows) # NoExtrema /\ ~stale /\ ~(Spread(Extrema(rows)) <= 0)
  BY DEF Intake
<1>2. PICK b, s \in ValidRows(rows) : BestAt(rows, b, s)
  BY <1>1, BestExist
<1>3. b \in DOMAIN rows /\ s \in DOMAIN rows
  BY <1>2 DEF ValidRows
<1>4. Extrema(rows).buy = rows[b] /\ Extrema(rows).sell = rows[s]
  BY <1>2 DEF BestAt
<1> DEFINE asked == Intake(rows, FALSE)
<1>5. asked = [buy |-> rows[b], sell |-> rows[s]]
  BY <1>1, <1>3, <1>4, RowFound DEF Intake
<1>6. rows[b].buy \in Nat /\ rows[s].sell \in Nat
  BY <1>3, RowsTyped
<1>7. rows[b].buy < rows[s].sell
  BY <1>1, <1>4, <1>6 DEF Spread
<1> DEFINE good == {r \in Range(rows) : r.high /\ r.buy > 0 /\ r.sell > 0}
<1>8. \A r \in good : \E y \in ValidRows(rows) : r = rows[y]
  BY DEF Range, ValidRows
<1>9. rows[b] \in good /\ rows[s] \in good
  BY <1>2 DEF Range, ValidRows
<1>10. \A r \in good : rows[b].buy <= r.buy /\ r.sell <= rows[s].sell
  BY <1>2, <1>8 DEF BestAt
<1> HIDE DEF good, asked
<1>11. asked.buy = rows[b] /\ asked.sell = rows[s]
  BY <1>5
<1>12. AsksBestPair(rows) <=>
         /\ {asked.buy, asked.sell} \subseteq good
         /\ \A r \in good : asked.buy.buy <= r.buy /\ r.sell <= asked.sell.sell
         /\ asked.buy.buy < asked.sell.sell
  BY DEF AsksBestPair, good, asked
<1> QED
  BY <1>7, <1>9, <1>10, <1>11, <1>12

---------------------------------------------------------------------------
(* DashboardCoordinator: the layers of the dashboard. *)

\* C1 has been asked for the current token; its output has been shown.
Asked  == {"request", "compute", "c1out", "decide", "c2out"}
Behind == {"decide", "c2out"}

CoordinatorShape ==
  /\ TypeOK
  /\ found \in [Token -> Seq(Row)]
  /\ \A t \in Token : IsSurface(found[t])
  /\ \A t \in Token : prev[t] # None => Priced(prev[t])

Candidate(t) == prev[t] # None /\ prev[t].status = "CANDIDATE"

\* What LayersAgree says of the tokens at rest holds of the current one as well, until
\* C1's output for its new summary has been shown.
LayersMatch ==
  /\ \A t \in Token \ skewed :
       /\ Candidate(t)
       /\ pc \in Behind => t # Token1
       => shown[t] # None /\ Matches(shown[t], prev[t])
  /\ pc \in Behind => shown[Token1] = Summary(Rows)

CoordinatorIInv == CoordinatorShape /\ IntakeIsBestPair /\ LayersMatch

LEMMA CoordinatorInit == Init => CoordinatorIInv
<1> SUFFICES ASSUME Init PROVE CoordinatorIInv
  OBVIOUS
<1>1. IsSurface(<<>>) /\ <<>> \in Seq(Row) /\ <<>> \in Seq(Token)
  BY DEF IsSurface
<1>2. CoordinatorShape
  BY <1>1 DEF Init, CoordinatorShape, TypeOK, Stage
<1> QED
  BY <1>2 DEF Init, CoordinatorIInv, IntakeIsBestPair, LayersMatch, Candidate, Behind

\* The token in hand while there is one.
LEMMA InHand ==
  ASSUME CoordinatorShape, pc \notin {"scan", "sleep"}
  PROVE  /\ Token1 \in Token /\ IsSurface(Rows)
         /\ Summary(Rows) \in Summaries /\ Summary(Rows) # None /\ Priced(Summary(Rows))
         /\ todo # <<>> /\ Tail(todo) \in Seq(Token)
         /\ Tail(todo) = <<>> <=> Len(todo) = 1
<1>1. todo \in Seq(Token) /\ todo # <<>>
  BY DEF CoordinatorShape, TypeOK
<1>2. /\ Head(todo) \in Token /\ Tail(todo) \in Seq(Token)
      /\ Tail(todo) = <<>> <=> Len(todo) = 1
  <2>1. Len(todo) \in Nat /\ Len(todo) # 0
    BY <1>1
  <2>2. Head(todo) \in Token /\ Tail(todo) \in Seq(Token) /\ Len(Tail(todo)) = Len(todo) - 1
    BY <1>1, <2>1
  <2>3. Tail(todo) = <<>> <=> Len(Tail(todo)) = 0
    BY <2>2
  <2> QED
    BY <2>1, <2>2, <2>3
<1>3. IsSurface(Rows)
  BY <1>2 DEF CoordinatorShape, Rows, Token1
<1> QED
  BY <1>1, <1>2, <1>3, SummaryTyped, SurfaceConstants DEF Token1

LEMMA ShapeWhenDone ==
  ASSUME CoordinatorShape, pc \notin {"scan", "sleep"}, Done,
         shown' \in [Token -> Summaries \cup {None}], skewed' \subseteq Token
  PROVE  CoordinatorShape' /\ pc' \in {"sleep", "rows"}
<1> DEFINE sum == Summary(Rows)
<1>1. /\ Token1 \in Token /\ sum \in Summaries /\ Priced(sum)
      /\ Tail(todo) \in Seq(Token)
      /\ Tail(todo) = <<>> <=> Len(todo) = 1
  BY InHand
<1>2. /\ prev' = [prev EXCEPT ![Token1] = sum]
      /\ todo' = Tail(todo)
      /\ found' = [found EXCEPT ![Token1] = <<>>]
      /\ pc' = IF Len(todo) = 1 THEN "sleep" ELSE "rows"
  BY DEF Done, Forget
<1> HIDE DEF sum
<1>3. prev \in [Token -> Summaries \cup {None}] /\ \A t \in Token : prev[t] # None => Priced(prev[t])
  BY DEF CoordinatorShape, TypeOK
<1>4. /\ prev' \in [Token -> Summaries \cup {None}]
      /\ \A t \in Token : prev'[t] # None => Priced(prev'[t])
  BY <1>1, <1>2, <1>3
<1>5. IsSurface(<<>>) /\ <<>> \in Seq(Row)
  BY DEF IsSurface
<1>6. found' \in [Token -> Seq(Row)] /\ \A t \in Token : IsSurface(found'[t])
  BY <1>1, <1>2, <1>5 DEF CoordinatorShape
<1>7. /\ pc' \in Stage /\ todo' \in Seq(Token) /\ pc' \in {"sleep", "rows"}
      /\ (todo' = <<>>) <=> pc' \in {"scan", "sleep"}
  BY <1>1, <1>2 DEF Stage
<1>8. TypeOK'
  BY <1>4, <1>7 DEF TypeOK
<1> QED
  BY <1>4, <1>6, <1>7, <1>8 DEF CoordinatorShape

LEMMA SequencesOfSet ==
  ASSUME NEW S \in SUBSET Token, NEW q \in SetToSeqs(S)
  PROVE  q \in Seq(Token) /\ (q = <<>> <=> S = {})
<1>1. IsFiniteSet(S)
  BY SurfaceConstants, FS_Subset
<1>2. Cardinality(S) \in Nat /\ (Cardinality(S) = 0 <=> S = {})
  BY <1>1, FS_CardinalityType, FS_EmptySet
<1>3. q \in [1..Cardinality(S) -> S]
  BY DEF SetToSeqs
<1> DEFINE n == Cardinality(S)
<1>4. n \in Nat /\ (n = 0 <=> S = {}) /\ q \in [1..n -> S]
  BY <1>2, <1>3
<1> HIDE DEF n
<1>5. q \in Seq(S) /\ Len(q) = n
  BY <1>4
<1>6. q \in Seq(Token)
  BY <1>5
<1> QED
  BY <1>4, <1>5, <1>6

LEMMA CoordinatorShapeStep == CoordinatorShape /\ [Next]_vars => CoordinatorShape'
<1> SUFFICES ASSUME CoordinatorShape, [Next]_vars PROVE CoordinatorShape'
  OBVIOUS
<1>1. CASE Scan
  <2>1. PICK seen \in SUBSET Token :
          /\ todo' \in SetToSeqs(seen)
          /\ found' \in {f \in [Token -> UNION {Surfaces[t] : t \in Token} \cup {<<>>}] :
               \A t \in Token : IF t \in seen THEN f[t] \in Surfaces[t] ELSE f[t] = <<>>}
          /\ pc' = IF seen = {} THEN "sleep" ELSE "rows"
    BY <1>1 DEF Scan
  <2>2. todo' \in Seq(Token) /\ (todo' = <<>> <=> seen = {})
    BY <2>1, SequencesOfSet
  <2>3. IsSurface(<<>>)
    BY DEF IsSurface
  <2>4. \A t \in Token : IsSurface(found'[t])
    BY <2>1, <2>3, SurfaceConstants
  <2>5. found' \in [Token -> Seq(Row)]
    <3>1. found' \in [Token -> UNION {Surfaces[t] : t \in Token} \cup {<<>>}]
      BY <2>1
    <3>2. \A t \in Token : found'[t] \in Seq(Row)
      BY <2>4 DEF IsSurface
    <3> QED
      BY <3>1, <3>2
  <2>6. /\ pc' \in Stage
        /\ (todo' = <<>>) <=> pc' \in {"scan", "sleep"}
    BY <2>1, <2>2 DEF Stage
  <2> QED
    BY <1>1, <2>2, <2>4, <2>5, <2>6 DEF Scan, CoordinatorShape, TypeOK
<1>2. CASE CycleRaises
  <2>1. IsSurface(<<>>) /\ <<>> \in Seq(Row) /\ <<>> \in Seq(Token)
    BY DEF IsSurface
  <2>2. pc \in {"decide", "c2out"} => Token1 \in Token
    BY InHand
  <2>3. /\ pc' = "sleep" /\ todo' = <<>> /\ found' = [t \in Token |-> <<>>]
        /\ UNCHANGED <<prev, shown>>
        /\ skewed' = IF pc \in {"decide", "c2out"} THEN skewed \cup {Token1} ELSE skewed
    BY <1>2 DEF CycleRaises, EndCycle
  <2> QED
    BY <2>1, <2>2, <2>3 DEF CoordinatorShape, TypeOK, Stage
<1>3. CASE BroadcastRows \/ BroadcastRequest \/ Sleep
  BY <1>3 DEF BroadcastRows, BroadcastRequest, Sleep, CoordinatorShape, TypeOK, Stage
<1>4. CASE BroadcastSummary
  <2>1. pc = "summary" /\ shown' = shown /\ Token1 \in Token
    BY <1>4, InHand DEF BroadcastSummary
  <2>2. CASE pc' = "request" /\ UNCHANGED <<todo, found, prev, skewed>>
    BY <2>1, <2>2 DEF CoordinatorShape, TypeOK, Stage
  <2>3. CASE Done /\ skewed' = IF Due THEN skewed \cup {Token1} ELSE skewed
    BY <2>1, <2>3, ShapeWhenDone DEF CoordinatorShape, TypeOK
  <2> QED
    BY <1>4, <2>2, <2>3 DEF BroadcastSummary
<1>5. CASE Compute
  <2>1. pc = "compute" /\ shown' = shown /\ Token1 \in Token
    BY <1>5, InHand DEF Compute
  <2>2. CASE pc' = "c1out" /\ UNCHANGED <<todo, found, prev, skewed>>
    BY <2>1, <2>2 DEF CoordinatorShape, TypeOK, Stage
  <2>3. CASE Done /\ skewed' = skewed \cup {Token1}
    BY <2>1, <2>3, ShapeWhenDone DEF CoordinatorShape, TypeOK
  <2> QED
    BY <1>5, <2>2, <2>3 DEF Compute
<1>6. CASE BroadcastC1
  <2>1. /\ pc = "c1out" /\ Token1 \in Token /\ Summary(Rows) \in Summaries
        /\ shown' = [shown EXCEPT ![Token1] = Summary(Rows)]
        /\ skewed' = skewed \ {Token1}
    BY <1>6, InHand DEF BroadcastC1
  <2>2. shown' \in [Token -> Summaries \cup {None}] /\ skewed' \subseteq Token
    <3> DEFINE sum == Summary(Rows)
    <3>1. shown' = [shown EXCEPT ![Token1] = sum] /\ sum \in Summaries
      BY <2>1
    <3> HIDE DEF sum
    <3> QED
      BY <2>1, <3>1 DEF CoordinatorShape, TypeOK
  <2>3. CASE pc' = "decide" /\ UNCHANGED <<todo, found, prev>>
    BY <2>1, <2>2, <2>3 DEF CoordinatorShape, TypeOK, Stage
  <2>4. CASE Done
    BY <2>1, <2>2, <2>4, ShapeWhenDone
  <2> QED
    BY <1>6, <2>3, <2>4 DEF BroadcastC1
<1>7. CASE Decide
  <2>1. pc = "decide" /\ UNCHANGED <<shown, skewed>>
    BY <1>7 DEF Decide
  <2>2. CASE pc' = "c2out" /\ UNCHANGED <<todo, found, prev>>
    BY <2>1, <2>2 DEF CoordinatorShape, TypeOK, Stage
  <2>3. CASE Done
    BY <2>1, <2>3, ShapeWhenDone DEF CoordinatorShape, TypeOK
  <2> QED
    BY <1>7, <2>2, <2>3 DEF Decide
<1>8. CASE BroadcastC2
  BY <1>8, ShapeWhenDone DEF BroadcastC2, CoordinatorShape, TypeOK
<1>9. CASE UNCHANGED vars
  BY <1>9 DEF vars, CoordinatorShape, TypeOK
<1> QED
  BY <1>1, <1>2, <1>3, <1>4, <1>5, <1>6, <1>7, <1>8, <1>9 DEF Next

LEMMA IntakeStep ==
  CoordinatorShape /\ IntakeIsBestPair /\ [Next]_vars => IntakeIsBestPair'
<1> SUFFICES ASSUME CoordinatorShape, IntakeIsBestPair, [Next]_vars, pc' \in Asked
             PROVE  AsksBestPair(Rows)'
  BY DEF IntakeIsBestPair, AsksBestPair, Asked
<1>1. pc \in Asked => AsksBestPair(Rows)
  BY DEF IntakeIsBestPair, AsksBestPair, Asked
<1>2. UNCHANGED <<todo, found>> => Rows' = Rows
  BY DEF Rows, Token1
<1>3. CASE pc \in Asked /\ UNCHANGED <<todo, found>>
  <2>1. AsksBestPair(Rows) /\ Rows' = Rows
    BY <1>1, <1>2, <1>3
  <2> QED
    BY <2>1 DEF AsksBestPair
<1>4. CASE pc = "summary" /\ BroadcastSummary
  <2>1. PICK stale \in BOOLEAN : Intake(Rows, stale) # None /\ UNCHANGED <<todo, found>>
    BY <1>4 DEF BroadcastSummary, Done, Asked
  <2>2. AsksBestPair(Rows)
    BY <1>4, <2>1, InHand, IntakeBest
  <2>3. Rows' = Rows
    BY <1>2, <2>1
  <2> QED
    BY <2>2, <2>3 DEF AsksBestPair
<1> QED
  BY <1>3, <1>4 DEF Next, vars, Asked, Scan, CycleRaises, EndCycle, BroadcastRows, BroadcastSummary,
       BroadcastRequest, Compute, BroadcastC1, Decide, BroadcastC2, Sleep, Done

\* A summary that does not make C1 due matches the one before it.
LEMMA UndueMatches ==
  ASSUME NEW a \in Summaries \cup {None}, NEW b \in Summaries, a # None => Priced(a), Priced(b),
         ~ShouldRecompute(a, b), b.status = "CANDIDATE"
  PROVE  a # None /\ a.status = "CANDIDATE" /\ Matches(a, b)
<1>1. /\ a # None /\ a \in Summaries /\ a.status = b.status
      /\ a.buyVenue = b.buyVenue /\ a.sellVenue = b.sellVenue
      /\ ~Moved(a.buyPrice, b.buyPrice) /\ ~Moved(a.sellPrice, b.sellPrice)
  BY DEF ShouldRecompute
<1>2. /\ a.buyPrice \in Nat /\ a.sellPrice \in Nat /\ b.buyPrice \in Nat /\ b.sellPrice \in Nat
  BY <1>1 DEF Summaries
<1>3. a.buyPrice > 0 /\ a.sellPrice > 0 /\ b.buyPrice > 0 /\ b.sellPrice > 0
  BY <1>1 DEF Priced
<1>4. ASSUME Threshold = 0 PROVE a = b
  <2>1. a.buyPrice = b.buyPrice
    BY <1>1, <1>2, <1>3, <1>4 DEF Moved
  <2>2. a.sellPrice = b.sellPrice
    BY <1>1, <1>2, <1>3, <1>4 DEF Moved
  <2> QED
    BY <1>1, <2>1, <2>2 DEF Summaries
<1> QED
  BY <1>1, <1>4 DEF Matches

LEMMA MatchesTransitively ==
  ASSUME NEW a, NEW b, NEW c, Matches(a, b), Matches(b, c)
  PROVE  Matches(a, c)
  BY DEF Matches

\* The token is done: what was said of the others is said of them still.
LEMMA LayersWhenDone ==
  ASSUME CoordinatorShape, LayersMatch, pc \notin {"scan", "sleep"}, Done, UNCHANGED shown,
         skewed \subseteq skewed',
         \/ Token1 \in skewed'
         \/ Summary(Rows).status # "CANDIDATE"
         \/ shown[Token1] # None /\ Matches(shown[Token1], Summary(Rows))
  PROVE  LayersMatch'
<1> DEFINE sum == Summary(Rows)
<1>1. /\ prev' = [prev EXCEPT ![Token1] = sum] /\ pc' \notin Behind
      /\ Token1 \in Token
  BY InHand DEF Done, Behind
<1>2. \/ Token1 \in skewed'
      \/ sum.status # "CANDIDATE"
      \/ shown[Token1] # None /\ Matches(shown[Token1], sum)
  OBVIOUS
<1> HIDE DEF sum
<1>3. ASSUME NEW t \in Token \ skewed', prev'[t] # None, prev'[t].status = "CANDIDATE"
      PROVE  shown'[t] # None /\ Matches(shown'[t], prev'[t])
  <2>1. CASE t = Token1
    <3>1. prev'[t] = sum
      BY <1>1, <2>1 DEF CoordinatorShape, TypeOK
    <3> QED
      BY <1>2, <1>3, <2>1, <3>1
  <2>2. CASE t # Token1
    <3>1. prev'[t] = prev[t]
      BY <1>1, <2>2 DEF CoordinatorShape, TypeOK
    <3>2. t \in Token \ skewed
      OBVIOUS
    <3> QED
      BY <1>3, <2>2, <3>1, <3>2 DEF LayersMatch, Candidate
  <2> QED
    BY <2>1, <2>2
<1> QED
  BY <1>1, <1>3 DEF LayersMatch, Candidate, Matches

\* A step that keeps the layers, and that the token is not behind C1's output after.
LEMMA LayersKept ==
  ASSUME LayersMatch, UNCHANGED <<prev, shown>>, skewed \subseteq skewed', pc' \notin Behind,
         pc \in Behind => Token1 \in skewed'
  PROVE  LayersMatch'
  BY DEF LayersMatch, Candidate, Matches

LEMMA LayersStep == CoordinatorShape /\ LayersMatch /\ [Next]_vars => LayersMatch'
<1> SUFFICES ASSUME CoordinatorShape, LayersMatch, [Next]_vars PROVE LayersMatch'
  OBVIOUS
<1>1. CASE Scan \/ BroadcastRows \/ BroadcastRequest \/ Sleep
  BY <1>1, LayersKept DEF Scan, BroadcastRows, BroadcastRequest, Sleep, Behind
<1>2. CASE CycleRaises
  BY <1>2, LayersKept DEF CycleRaises, EndCycle, Behind
<1>3. CASE BroadcastSummary
  <2>1. pc = "summary" /\ UNCHANGED shown
    BY <1>3 DEF BroadcastSummary
  <2>2. CASE pc' = "request" /\ UNCHANGED <<todo, found, prev, skewed>>
    BY <2>1, <2>2, LayersKept DEF Behind
  <2>3. CASE Done /\ Due /\ skewed' = skewed \cup {Token1}
    BY <2>1, <2>3, LayersWhenDone
  <2>4. CASE Done /\ ~Due /\ skewed' = skewed
    <3> DEFINE sum == Summary(Rows)
    <3>1. /\ sum \in Summaries /\ Priced(sum) /\ Token1 \in Token
      BY <2>1, InHand
    <3>2. CASE sum.status # "CANDIDATE"
      BY <2>1, <2>4, <3>2, LayersWhenDone
    <3>3. CASE sum.status = "CANDIDATE" /\ Token1 \notin skewed
      <4>1. ~ShouldRecompute(prev[Token1], sum)
        BY <2>4, <3>3 DEF Due
      <4>2. prev[Token1] \in Summaries \cup {None} /\ prev[Token1] # None => Priced(prev[Token1])
        BY <3>1 DEF CoordinatorShape, TypeOK
      <4>3. prev[Token1] # None /\ prev[Token1].status = "CANDIDATE" /\ Matches(prev[Token1], sum)
        <5> HIDE DEF sum
        <5> QED
          BY <3>1, <3>3, <4>1, <4>2, UndueMatches DEF CoordinatorShape, TypeOK
      <4>4. shown[Token1] # None /\ Matches(shown[Token1], prev[Token1])
        BY <2>1, <3>1, <3>3, <4>3 DEF LayersMatch, Candidate, Behind
      <4>5. Matches(shown[Token1], sum)
        BY <4>3, <4>4, MatchesTransitively
      <4> QED
        BY <2>1, <2>4, <4>4, <4>5, LayersWhenDone
    <3>4. CASE Token1 \in skewed
      BY <2>1, <2>4, <3>4, LayersWhenDone
    <3> QED
      BY <3>2, <3>3, <3>4
  <2> QED
    BY <1>3, <2>2, <2>3, <2>4 DEF BroadcastSummary
<1>4. CASE Compute
  <2>1. pc = "compute" /\ UNCHANGED shown
    BY <1>4 DEF Compute
  <2>2. CASE pc' = "c1out" /\ UNCHANGED <<todo, found, prev, skewed>>
    BY <2>1, <2>2, LayersKept DEF Behind
  <2>3. CASE Done /\ skewed' = skewed \cup {Token1}
    BY <2>1, <2>3, LayersWhenDone
  <2> QED
    BY <1>4, <2>2, <2>3 DEF Compute
<1>5. CASE BroadcastC1
  <2> DEFINE sum == Summary(Rows)
  <2>1. /\ pc = "c1out" /\ Token1 \in Token /\ sum \in Summaries /\ sum # None
        /\ shown' = [shown EXCEPT ![Token1] = sum]
        /\ skewed' = skewed \ {Token1}
    BY <1>5, InHand DEF BroadcastC1
  <2>2. shown'[Token1] = sum /\ \A t \in Token : t # Token1 => shown'[t] = shown[t]
    <3> HIDE DEF sum
    <3> QED
      BY <2>1 DEF CoordinatorShape, TypeOK
  <2>3. \A t \in Token \ skewed : Candidate(t) => shown[t] # None /\ Matches(shown[t], prev[t])
    BY <2>1 DEF LayersMatch, Behind
  <2>4. Matches(sum, sum)
    BY DEF Matches
  <2>5. CASE pc' = "decide" /\ UNCHANGED <<todo, found, prev>>
    <3>1. Rows' = Rows /\ Token1' = Token1
      BY <2>5 DEF Rows, Token1
    <3>2. Summary(Rows)' = sum
      BY <3>1 DEF Summary
    <3>3. ASSUME NEW t \in Token \ skewed', Candidate(t), t # Token1
          PROVE  shown'[t] # None /\ Matches(shown'[t], prev[t])
      BY <2>1, <2>2, <2>3, <3>3
    <3> HIDE DEF sum
    <3> QED
      BY <2>2, <2>5, <3>1, <3>2, <3>3 DEF LayersMatch, Candidate, Behind, Matches
  <2>6. CASE Done
    <3>1. prev' = [prev EXCEPT ![Token1] = sum] /\ pc' \notin Behind
      BY <2>6 DEF Done, Behind
    <3>2. ASSUME NEW t \in Token \ skewed', prev'[t] # None, prev'[t].status = "CANDIDATE"
          PROVE  shown'[t] # None /\ Matches(shown'[t], prev'[t])
      <4> HIDE DEF sum
      <4>1. CASE t = Token1
        <5>1. prev'[t] = sum
          BY <3>1, <4>1 DEF CoordinatorShape, TypeOK
        <5> QED
          BY <2>1, <2>2, <2>4, <4>1, <5>1
      <4>2. CASE t # Token1
        <5>1. prev'[t] = prev[t]
          BY <3>1, <4>2 DEF CoordinatorShape, TypeOK
        <5> QED
          BY <2>1, <2>2, <2>3, <3>2, <4>2, <5>1 DEF Candidate
      <4> QED
        BY <4>1, <4>2
    <3> QED
      BY <3>1, <3>2 DEF LayersMatch, Candidate, Matches
  <2> QED
    BY <1>5, <2>5, <2>6 DEF BroadcastC1
<1>6. CASE Decide \/ BroadcastC2
  <2>1. pc \in Behind /\ UNCHANGED <<shown, skewed>> /\ Token1 \in Token
        /\ Summary(Rows) # None
    BY <1>6, InHand DEF Decide, BroadcastC2, Behind
  <2>2. shown[Token1] = Summary(Rows)
    BY <2>1 DEF LayersMatch
  <2>3. CASE pc' = "c2out" /\ UNCHANGED <<todo, found, prev>>
    <3>1. Rows' = Rows /\ Token1' = Token1
      BY <2>3 DEF Rows, Token1
    <3>2. Summary(Rows)' = Summary(Rows)
      BY <3>1 DEF Summary
    <3> QED
      BY <2>1, <2>2, <2>3, <3>1, <3>2 DEF LayersMatch, Candidate, Behind, Matches
  <2>4. CASE Done
    <3>1. Matches(shown[Token1], Summary(Rows))
      BY <2>2 DEF Matches
    <3> QED
      BY <2>1, <2>2, <2>4, <3>1, LayersWhenDone DEF Behind
  <2> QED
    BY <1>6, <2>3, <2>4 DEF Decide, BroadcastC2
<1>7. CASE UNCHANGED vars
  <2>1. Rows' = Rows /\ Token1' = Token1
    BY <1>7 DEF vars, Rows, Token1
  <2>2. Summary(Rows)' = Summary(Rows)
    BY <2>1 DEF Summary
  <2> QED
    BY <1>7, <2>1, <2>2 DEF vars, LayersMatch, Candidate, Matches
<1> QED
  BY <1>1, <1>2, <1>3, <1>4, <1>5, <1>6, <1>7 DEF Next

LEMMA CoordinatorInvariance == Spec => []CoordinatorIInv
<1>1. CoordinatorIInv /\ [Next]_vars => CoordinatorIInv'
  BY CoordinatorShapeStep, IntakeStep, LayersStep DEF CoordinatorIInv
<1> QED
  BY CoordinatorInit, <1>1, PTL DEF Spec

LEMMA CoordinatorAgrees == CoordinatorIInv => LayersAgree
<1> SUFFICES ASSUME CoordinatorIInv, NEW t \in Token \ skewed,
                    prev[t] # None /\ prev[t].status = "CANDIDATE",
                    todo = <<>> \/ t # Token1
             PROVE  shown[t] # None /\ Matches(shown[t], prev[t])
  BY DEF LayersAgree
<1>1. todo = <<>> => pc \notin Behind
  BY DEF CoordinatorIInv, CoordinatorShape, TypeOK, Behind
<1> QED
  BY <1>1 DEF CoordinatorIInv, LayersMatch, Candidate

---------------------------------------------------------------------------
(* DnaCardLog: the files of the card logger, rewritten without its lock.    *)
(* What a rewrite computes is a recursion over the lines of a file: what is *)
(* said of it is shown by induction, as a set of numbers that every number  *)
(* is in.                                                                   *)

LEMMA LogConstants == IsFiniteSet(Thread) /\ MaxCards \in Nat
<1>1. Log!IsFiniteSet(Thread) = IsFiniteSet(Thread)
  BY DEF Log!IsFiniteSet, IsFiniteSet
<1> QED
  BY <1>1, DashboardsAssumption DEF Log!LogAssumption

LEMMA LeastNat ==
  ASSUME NEW T, T \subseteq Nat, T # {}
  PROVE  \E x \in T : \A y \in T : ~(y < x)
<1>1. PICK x \in T : \A y \in T : ~(<<y, x>> \in OpToRel(<, Nat))
  BY NatLessThanWellFounded, WFMin
<1> QED
  BY <1>1 DEF OpToRel

LEMMA NatInduct ==
  ASSUME NEW T, 0 \in T, \A k \in Nat : k \in T => k + 1 \in T
  PROVE  Nat \subseteq T
<1> DEFINE U == Nat \ T
<1> SUFFICES ASSUME U # {} PROVE FALSE
  OBVIOUS
<1>1. PICK x \in U : \A y \in U : ~(y < x)
  BY LeastNat
<1>2. x # 0 /\ x - 1 \in Nat /\ x - 1 \notin U
  BY <1>1
<1> QED
  BY <1>1, <1>2

\* What Others computes, as the table of its prefixes.
Table(f, b, file) ==
  f = [n \in 0..Len(file) |->
        IF n = 0 THEN <<>>
        ELSE IF file[n].block = b THEN f[n - 1] ELSE Append(f[n - 1], file[n])]

LEMMA OthersTable ==
  ASSUME NEW R, NEW b, NEW file \in Seq(R)
  PROVE  \E f : /\ f[0] = <<>>
                /\ \A n \in 1..Len(file) :
                     f[n] = IF file[n].block = b THEN f[n - 1] ELSE Append(f[n - 1], file[n])
                /\ Log!Others(b, file) = f[Len(file)]
<1> DEFINE N == Len(file)
<1> DEFINE Filled(f, m) ==
        /\ f = [n \in 0..m |-> f[n]] /\ f[0] = <<>>
        /\ \A n \in 1..m : f[n] = IF file[n].block = b THEN f[n - 1] ELSE Append(f[n - 1], file[n])
           T == {m \in Nat : \E f : Filled(f, m)}
<1>1. 0 \in T
  <2> DEFINE g == [n \in 0..0 |-> <<>>]
  <2>1. Filled(g, 0)
    OBVIOUS
  <2> HIDE DEF g, Filled
  <2> QED
    BY <2>1
<1>2. ASSUME NEW m \in Nat, m \in T PROVE m + 1 \in T
  <2>1. PICK f : Filled(f, m)
    BY <1>2
  <2> DEFINE last == IF file[m + 1].block = b THEN f[m] ELSE Append(f[m], file[m + 1])
             g == [n \in 0..(m + 1) |-> IF n = m + 1 THEN last ELSE f[n]]
  <2> HIDE DEF last
  <2>2. g[m + 1] = last /\ \A n \in 0..m : g[n] = f[n]
    OBVIOUS
  <2>6. g = [n \in 0..(m + 1) |-> g[n]]
    OBVIOUS
  <2> HIDE DEF g
  <2>3. ASSUME NEW n \in 1..(m + 1)
        PROVE  g[n] = IF file[n].block = b THEN g[n - 1] ELSE Append(g[n - 1], file[n])
    <3>1. CASE n = m + 1
      <4>1. g[m] = f[m]
        BY <2>2
      <4> QED
        BY <2>2, <3>1, <4>1 DEF last
    <3>2. CASE n \in 1..m
      <4>1. n \in 0..m /\ n - 1 \in 0..m
        BY <3>2
      <4>2. g[n] = f[n] /\ g[n - 1] = f[n - 1]
        BY <2>2, <4>1
      <4> QED
        BY <2>1, <3>2, <4>2
    <3> QED
      BY <3>1, <3>2
  <2>4. g[0] = <<>>
    BY <2>1, <2>2
  <2>5. Filled(g, m + 1)
    BY <2>3, <2>4, <2>6
  <2> QED
    BY <2>5
<1> HIDE DEF T
<1>3. N \in T
  BY <1>1, <1>2, NatInduct
<1>4. PICK f : Filled(f, N)
  BY <1>3 DEF T
<1>5. ASSUME NEW n \in 0..N
      PROVE  f[n] = IF n = 0 THEN <<>>
                    ELSE IF file[n].block = b THEN f[n - 1] ELSE Append(f[n - 1], file[n])
  <2>1. CASE n = 0
    BY <1>4, <2>1
  <2>2. CASE n \in 1..N
    BY <1>4, <2>2
  <2> QED
    BY <2>1, <2>2
<1>6. Table(f, b, file)
  BY <1>4, <1>5 DEF Table
<1> DEFINE kept == CHOOSE g : Table(g, b, file)
<1>7. Table(kept, b, file)
  BY <1>6
<1>8. Log!Others(b, file) = kept[Len(file)]
  BY DEF Log!Others, Table
<1> HIDE DEF kept
<1>9. kept[0] = <<>>
  BY <1>7 DEF Table
<1>10. ASSUME NEW n \in 1..Len(file)
       PROVE  kept[n] = IF file[n].block = b THEN kept[n - 1] ELSE Append(kept[n - 1], file[n])
  <2>1. n \in 0..Len(file) /\ n # 0
    OBVIOUS
  <2>2. kept[n] = IF n = 0 THEN <<>>
                  ELSE IF file[n].block = b THEN kept[n - 1] ELSE Append(kept[n - 1], file[n])
    BY <1>7, <2>1, Zenon DEF Table
  <2> QED
    BY <2>1, <2>2
<1> QED
  BY <1>8, <1>9, <1>10

LEMMA Greatest ==
  ASSUME NEW N \in Nat, NEW S \in SUBSET (1..N), S # {}
  PROVE  \E x \in S : \A y \in S : y <= x
<1> DEFINE Bounds == {k \in Nat : \A y \in S : y <= k}
<1>1. N \in Bounds
  OBVIOUS
<1>2. PICK k \in Bounds : \A j \in Bounds : ~(j < k)
  BY <1>1, LeastNat
<1>3. k \in S
  <2> SUFFICES ASSUME k \notin S PROVE FALSE
    OBVIOUS
  <2>1. PICK y \in S : TRUE
    OBVIOUS
  <2>2. y <= k /\ y \in Nat /\ y > 0
    BY <1>2, <2>1
  <2>3. k - 1 \in Bounds
    BY <1>2, <2>2
  <2> QED
    BY <1>2, <2>3
<1> QED
  BY <1>2, <1>3

\* A record without a torn line.
Rec == [torn : {FALSE}, block : CardBlock, total : Nat]

LEMMA MaxOf ==
  ASSUME NEW b, NEW s \in Seq(Rec), NEW n \in Log!Of(b, s), \A m \in Log!Of(b, s) : m <= n
  PROVE  Log!TotalIn(b, s) = s[n].total
<1>1. n \in Nat /\ \A m \in Log!Of(b, s) : m \in Nat
  BY DEF Log!Of
<1>2. Log!Max(Log!Of(b, s)) = n
  <2> DEFINE S == Log!Of(b, s)
  <2> HIDE DEF S
  <2>1. n \in S /\ \A m \in S : m <= n /\ m \in Nat
    BY <1>1 DEF S
  <2>2. Log!Max(S) \in S /\ \A m \in S : Log!Max(S) >= m
    BY <1>1, <2>1 DEF Log!Max
  <2>3. Log!Max(S) = n
    <3>1. Log!Max(S) \in Nat /\ Log!Max(S) <= n /\ Log!Max(S) >= n
      BY <2>1, <2>2
    <3> QED
      BY <1>1, <3>1
  <2> QED
    BY <2>3 DEF S
<1> QED
  BY <1>2 DEF Log!TotalIn

LEMMA TotalKnown ==
  ASSUME NEW b, NEW s \in Seq(Rec)
  PROVE  \/ Log!Of(b, s) = {} /\ Log!TotalIn(b, s) = 0
         \/ \E n \in 1..Len(s) : /\ s[n].block = b /\ Log!TotalIn(b, s) = s[n].total
                                /\ \A m \in Log!Of(b, s) : m <= n
<1>1. CASE Log!Of(b, s) = {}
  BY <1>1 DEF Log!TotalIn
<1>2. CASE Log!Of(b, s) # {}
  <2>1. Log!Of(b, s) \in SUBSET (1..Len(s))
    BY DEF Log!Of
  <2>2. PICK n \in Log!Of(b, s) : \A m \in Log!Of(b, s) : m <= n
    <3> DEFINE S == Log!Of(b, s)
    <3>1. S \in SUBSET (1..Len(s)) /\ S # {} /\ Len(s) \in Nat
      BY <1>2, <2>1
    <3> HIDE DEF S
    <3>2. \E n \in S : \A m \in S : m <= n
      BY <3>1, Greatest
    <3> QED
      BY <3>2 DEF S
  <2> QED
    BY <2>1, <2>2, MaxOf DEF Log!Of
<1> QED
  BY <1>1, <1>2

LEMMA TotalAppend ==
  ASSUME NEW b, NEW s \in Seq(Rec), NEW r \in Rec
  PROVE  Log!TotalIn(b, Append(s, r)) = IF r.block = b THEN r.total ELSE Log!TotalIn(b, s)
<1> DEFINE t == Append(s, r)
<1>1. t \in Seq(Rec) /\ Len(t) = Len(s) + 1 /\ t[Len(s) + 1] = r /\ \A n \in 1..Len(s) : t[n] = s[n]
  OBVIOUS
<1> HIDE DEF t
<1>2. CASE r.block = b
  <2>1. Len(s) + 1 \in Log!Of(b, t) /\ \A m \in Log!Of(b, t) : m <= Len(s) + 1
    BY <1>1, <1>2 DEF Log!Of
  <2>2. Log!TotalIn(b, t) = t[Len(s) + 1].total
    BY <1>1, <2>1, MaxOf
  <2> QED
    BY <1>1, <1>2, <2>2 DEF t
<1>3. CASE r.block # b
  <2>1. Log!Of(b, t) = Log!Of(b, s)
    BY <1>1, <1>3 DEF Log!Of
  <2>2. CASE Log!Of(b, s) = {}
    BY <1>3, <2>1, <2>2 DEF Log!TotalIn, t
  <2>3. ASSUME NEW n \in 1..Len(s), s[n].block = b, Log!TotalIn(b, s) = s[n].total,
               \A m \in Log!Of(b, s) : m <= n
        PROVE  Log!TotalIn(b, t) = Log!TotalIn(b, s)
    <3>1. n \in Log!Of(b, t)
      BY <2>1, <2>3 DEF Log!Of
    <3> QED
      BY <1>1, <2>1, <2>3, <3>1, MaxOf
  <2> QED
    BY <1>3, <2>2, <2>3, TotalKnown DEF t
<1> QED
  BY <1>2, <1>3

LEMMA OthersKept ==
  ASSUME NEW b, NEW s \in Seq(Rec)
  PROVE  /\ Log!Others(b, s) \in Seq(Rec)
         /\ \A c : c # b => Log!TotalIn(c, Log!Others(b, s)) = Log!TotalIn(c, s)
         /\ \A x \in 1..Len(Log!Others(b, s)) :
              \E j \in 1..Len(s) : Log!Others(b, s)[x] = s[j]
<1>1. PICK f : /\ f[0] = <<>>
               /\ \A n \in 1..Len(s) :
                    f[n] = IF s[n].block = b THEN f[n - 1] ELSE Append(f[n - 1], s[n])
               /\ Log!Others(b, s) = f[Len(s)]
  BY OthersTable
<1>2. f[0] = <<>>
  BY <1>1
<1>3. ASSUME NEW n \in 1..Len(s)
      PROVE  f[n] = IF s[n].block = b THEN f[n - 1] ELSE Append(f[n - 1], s[n])
  BY <1>1
<1> DEFINE Kept(k) ==
     /\ f[k] \in Seq(Rec)
     /\ \A c : c # b => Log!TotalIn(c, f[k]) = Log!TotalIn(c, SubSeq(s, 1, k))
     /\ \A x \in 1..Len(f[k]) : \E j \in 1..Len(s) : f[k][x] = s[j]
           T == {k \in Nat : k <= Len(s) => Kept(k)}
<1>4. 0 \in T
  <2>1. SubSeq(s, 1, 0) = <<>> /\ f[0] \in Seq(Rec) /\ Len(f[0]) = 0
    BY <1>2
  <2>2. \A c : Log!TotalIn(c, f[0]) = Log!TotalIn(c, SubSeq(s, 1, 0))
    BY <1>2, <2>1
  <2> QED
    BY <2>1, <2>2
<1>5. ASSUME NEW k \in Nat, k \in T PROVE k + 1 \in T
  <2> SUFFICES ASSUME k + 1 <= Len(s) PROVE Kept(k + 1)
    OBVIOUS
  <2>1. Kept(k)
    BY <1>5
  <2>2. SubSeq(s, 1, k + 1) = Append(SubSeq(s, 1, k), s[k + 1]) /\ SubSeq(s, 1, k) \in Seq(Rec)
        /\ s[k + 1] \in Rec /\ k + 1 \in 1..Len(s) /\ (k + 1) - 1 = k
    OBVIOUS
  <2> HIDE DEF T
  <2>7. f[k + 1] = IF s[k + 1].block = b THEN f[k] ELSE Append(f[k], s[k + 1])
    BY <1>3, <2>2
  <2>3. CASE s[k + 1].block = b
    <3>1. f[k + 1] = f[k]
      BY <2>3, <2>7
    <3>2. ASSUME NEW c, c # b
          PROVE  Log!TotalIn(c, SubSeq(s, 1, k + 1)) = Log!TotalIn(c, SubSeq(s, 1, k))
      <4> DEFINE front == SubSeq(s, 1, k)
      <4>1. front \in Seq(Rec) /\ SubSeq(s, 1, k + 1) = Append(front, s[k + 1])
        BY <2>2
      <4> HIDE DEF front
      <4>2. Log!TotalIn(c, Append(front, s[k + 1])) = Log!TotalIn(c, front)
        BY <2>2, <2>3, <3>2, <4>1, TotalAppend
      <4> QED
        BY <4>1, <4>2 DEF front
    <3> QED
      BY <2>1, <3>1, <3>2
  <2>4. CASE s[k + 1].block # b
    <3>1. f[k + 1] = Append(f[k], s[k + 1])
      BY <2>4, <2>7
    <3>2. ASSUME NEW c, c # b
          PROVE  Log!TotalIn(c, f[k + 1]) = Log!TotalIn(c, SubSeq(s, 1, k + 1))
      <4> DEFINE front == SubSeq(s, 1, k)
      <4>1. front \in Seq(Rec) /\ SubSeq(s, 1, k + 1) = Append(front, s[k + 1])
            /\ Log!TotalIn(c, f[k]) = Log!TotalIn(c, front) /\ f[k] \in Seq(Rec)
        BY <2>1, <2>2, <3>2
      <4> HIDE DEF front, Kept
      <4>2. Log!TotalIn(c, Append(front, s[k + 1]))
              = IF s[k + 1].block = c THEN s[k + 1].total ELSE Log!TotalIn(c, front)
        BY <2>2, <4>1, TotalAppend
      <4>3. Log!TotalIn(c, Append(f[k], s[k + 1]))
              = IF s[k + 1].block = c THEN s[k + 1].total ELSE Log!TotalIn(c, f[k])
        BY <2>2, <4>1, TotalAppend
      <4> QED
        BY <3>1, <4>1, <4>2, <4>3
    <3>3. f[k + 1] \in Seq(Rec) /\ Len(f[k + 1]) = Len(f[k]) + 1
      BY <2>1, <2>2, <3>1
    <3>4. \A x \in 1..Len(f[k + 1]) : \E j \in 1..Len(s) : f[k + 1][x] = s[j]
      <4> SUFFICES ASSUME NEW x \in 1..Len(f[k + 1]) PROVE \E j \in 1..Len(s) : f[k + 1][x] = s[j]
        OBVIOUS
      <4>1. CASE x = Len(f[k]) + 1
        BY <2>1, <3>1, <4>1
      <4>2. CASE x \in 1..Len(f[k])
        BY <2>1, <2>2, <3>1, <4>2
      <4> QED
        BY <2>1, <3>3, <4>1, <4>2
    <3> QED
      BY <3>2, <3>3, <3>4
  <2> QED
    BY <2>3, <2>4
<1> HIDE DEF T
<1>6. Len(s) \in T
  BY <1>4, <1>5, NatInduct
<1>7. SubSeq(s, 1, Len(s)) = s
  OBVIOUS
<1>8. Kept(Len(s))
  BY <1>6 DEF T
<1> HIDE DEF Kept
<1>9. Kept(Len(s)) => Log!Others(b, s) = f[Len(s)]
  BY <1>1
<1> QED
  BY <1>7, <1>8, <1>9 DEF Kept

\* A cycle counted for one block leaves the totals of the others.
LEMMA CountedOnce ==
  ASSUME NEW b \in CardBlock, NEW s \in Seq(Rec)
  PROVE  /\ Log!Counted(b, s) \in Seq(Rec) /\ Len(Log!Counted(b, s)) > 0
         /\ Log!TotalIn(b, s) \in Nat
         /\ Log!TotalIn(b, Log!Counted(b, s)) = Log!TotalIn(b, s) + 1
         /\ \A c : c # b => Log!TotalIn(c, Log!Counted(b, s)) = Log!TotalIn(c, s)
         /\ \A x \in 1..Len(Log!Counted(b, s)) :
              \/ Log!Counted(b, s)[x] = Log!Record(b, Log!TotalIn(b, s) + 1)
              \/ \E j \in 1..Len(s) : Log!Counted(b, s)[x] = s[j]
<1>1. Log!TotalIn(b, s) \in Nat
  <2>1. \A n \in 1..Len(s) : s[n].total \in Nat
    <3>1. \A n \in 1..Len(s) : s[n] \in Rec
      OBVIOUS
    <3> QED
      BY <3>1 DEF Rec
  <2> QED
    BY <2>1, TotalKnown
<1> DEFINE others == Log!Others(b, s)
           record == Log!Record(b, Log!TotalIn(b, s) + 1)
<1>2. record \in Rec /\ record.block = b /\ record.total = Log!TotalIn(b, s) + 1
  BY <1>1 DEF Log!Record, Rec
<1>3. /\ others \in Seq(Rec)
      /\ \A c : c # b => Log!TotalIn(c, others) = Log!TotalIn(c, s)
      /\ \A x \in 1..Len(others) : \E j \in 1..Len(s) : others[x] = s[j]
  BY OthersKept
<1>4. Log!Counted(b, s) = Append(others, record)
  BY DEF Log!Counted
<1> HIDE DEF others, record
<1>5. /\ Append(others, record) \in Seq(Rec) /\ Len(Append(others, record)) = Len(others) + 1
      /\ \A x \in 1..Len(others) : Append(others, record)[x] = others[x]
      /\ Append(others, record)[Len(others) + 1] = record
  BY <1>2, <1>3
<1>6. \A x \in 1..Len(Append(others, record)) :
        \/ Append(others, record)[x] = record
        \/ \E j \in 1..Len(s) : Append(others, record)[x] = s[j]
  <2> SUFFICES ASSUME NEW x \in 1..Len(Append(others, record))
               PROVE  \/ Append(others, record)[x] = record
                      \/ \E j \in 1..Len(s) : Append(others, record)[x] = s[j]
    OBVIOUS
  <2>1. x \in 1..Len(others) \/ x = Len(others) + 1
    BY <1>3, <1>5
  <2> QED
    BY <1>3, <1>5, <2>1
<1>7. Log!TotalIn(b, Append(others, record)) = Log!TotalIn(b, s) + 1
  BY <1>2, <1>3, TotalAppend
<1>8. ASSUME NEW c, c # b
      PROVE  Log!TotalIn(c, Append(others, record)) = Log!TotalIn(c, s)
  BY <1>2, <1>3, <1>8, TotalAppend
<1> QED
  BY <1>1, <1>3, <1>4, <1>5, <1>6, <1>7, <1>8 DEF record

Rewriting == {"truncateBlocks", "writeBlocks"}

\* The threads whose pair is in its file and whose cycle is not counted yet.
Reading(b) == {t \in Thread : doing[t] = "readBlocks" /\ card[t].block = b}

\* What is left of a block's pairs when the cycles still to count are set aside.
Left(b) == Log!PairsOf(b) - Cardinality(Reading(b))

Fits(r, b, n) == r # Log!Torn /\ r.block = b => r.total <= n

\* No record, of the file or about to be written, counts a cycle that is still to count.
Credited ==
  \A b \in CardBlock :
    /\ Left(b) >= 0
    /\ \A n \in 1..Len(blockFile) : Fits(blockFile[n], b, Left(b))
    /\ \A t \in Thread : doing[t] \in Rewriting =>
         \A n \in 1..Len(buffer[t]) : Fits(buffer[t][n], b, Left(b))

\* What one thread at a time finds and leaves.
Undisturbed ==
  /\ \A t, u \in Thread : doing[t] # "idle" /\ doing[u] # "idle" => t = u
  /\ \A n \in 1..Len(cardFile) : cardFile[n] # Log!Torn
  /\ \A n \in 1..Len(blockFile) : blockFile[n] # Log!Torn
  /\ \A t \in Thread :
       /\ doing[t] = "write" => cardFile = <<>>
       /\ doing[t] = "writeBlocks" => blockFile = <<>>
       /\ doing[t] \in {"truncate", "write"} \cup Rewriting => Len(buffer[t]) > 0

\* The totals are in the file, or with the thread that rewrites it.
Exact ==
  \A b \in CardBlock :
    /\ (\A t \in Thread : doing[t] \notin Rewriting) => Log!TotalIn(b, blockFile) = Left(b)
    /\ \A t \in Thread : doing[t] \in Rewriting => Log!TotalIn(b, buffer[t]) = Left(b)

LogIInv == Log!TypeOK /\ Credited /\ (~overlapped => Undisturbed /\ Exact)

LEMMA TornIsNoRecord == Log!Torn \notin Rec /\ Log!BlockLine \ {Log!Torn} = Rec
<1>1. \A r \in Rec : r.torn = FALSE
  BY DEF Rec
<1>2. Log!Torn.torn = TRUE
  BY DEF Log!Torn
<1>3. Log!Torn \notin Rec
  BY <1>1, <1>2
<1>4. Log!BlockLine = {Log!Torn} \cup Rec
  BY DEF Log!BlockLine, Rec
<1> QED
  BY <1>3, <1>4

LEMMA WholeRecords ==
  ASSUME NEW s \in Seq(Log!BlockLine), \A n \in 1..Len(s) : s[n] # Log!Torn
  PROVE  s \in Seq(Rec)
<1> DEFINE L == Log!BlockLine
<1>4. s \in Seq(L) /\ \A r \in L : r = Log!Torn \/ r \in Rec
  BY TornIsNoRecord
<1> HIDE DEF L
<1>1. \A n \in 1..Len(s) : s[n] \in Rec
  BY <1>4
<1>2. \A n \in DOMAIN s : s[n] \in Rec
  BY <1>1
<1>3. s = [n \in 1..Len(s) |-> s[n]] /\ Len(s) \in Nat
  OBVIOUS
<1> QED
  BY <1>1, <1>3

LEMMA TornIn ==
  ASSUME NEW S, NEW s \in Seq(S)
  PROVE  Log!Torn \in Log!ToSet(s) <=> \E n \in 1..Len(s) : s[n] = Log!Torn
  BY DEF Log!ToSet

LEMMA ReadingFinite ==
  ASSUME NEW b
  PROVE  IsFiniteSet(Reading(b)) /\ Cardinality(Reading(b)) \in Nat
<1>1. Reading(b) \subseteq Thread
  BY DEF Reading
<1>2. IsFiniteSet(Reading(b))
  BY <1>1, LogConstants, FS_Subset
<1> QED
  BY <1>2, FS_CardinalityType

\* The pairs of a block, and a pair added.
Places(s, b) == {n \in DOMAIN s : s[n].block = b}

LEMMA PlacesFinite ==
  ASSUME NEW S, NEW s \in Seq(S), NEW b
  PROVE  IsFiniteSet(Places(s, b)) /\ Cardinality(Places(s, b)) \in Nat
<1>1. Len(s) \in Nat /\ DOMAIN s = 1..Len(s)
  OBVIOUS
<1>2. IsFiniteSet(1..Len(s))
  BY <1>1, FS_Interval
<1>3. Places(s, b) \subseteq 1..Len(s)
  BY <1>1 DEF Places
<1> QED
  BY <1>2, <1>3, FS_Subset, FS_CardinalityType

LEMMA LogCardinality == \A S : Log!Cardinality(S) = Cardinality(S)
  BY DEF Log!Cardinality, Cardinality

LEMMA PairsCounted ==
  ASSUME Log!TypeOK, NEW b
  PROVE  Log!PairsOf(b) = Cardinality(Places(pairFile, b)) /\ Log!PairsOf(b) \in Nat
<1>1. Log!PairsOf(b) = Cardinality(Places(pairFile, b))
  BY LogCardinality DEF Log!PairsOf, Log!Quantify, Places
<1>2. pairFile \in Seq(Log!Cycle)
  BY DEF Log!TypeOK
<1> QED
  BY <1>1, <1>2, PlacesFinite

LEMMA PairsGrow ==
  ASSUME Log!TypeOK, NEW c \in Log!Cycle, pairFile' = Append(pairFile, c), NEW b
  PROVE  Log!PairsOf(b)' = Log!PairsOf(b) + (IF c.block = b THEN 1 ELSE 0)
<1> DEFINE n == Len(pairFile) + 1
           before == Places(pairFile, b)
           after == Places(pairFile', b)
<1>1. /\ n \in Nat /\ DOMAIN pairFile = 1..(n - 1) /\ DOMAIN pairFile' = 1..n /\ pairFile'[n] = c
      /\ \A k \in 1..(n - 1) : pairFile'[k] = pairFile[k]
  BY DEF Log!TypeOK
<1>2. IsFiniteSet(before) /\ Cardinality(before) \in Nat
  BY PlacesFinite DEF Log!TypeOK
<1>3. Log!PairsOf(b) = Cardinality(before) /\ Log!PairsOf(b)' = Cardinality(after)
  BY LogCardinality DEF Log!PairsOf, Log!Quantify, Places
<1>4. CASE c.block = b
  <2>1. after = before \cup {n} /\ n \notin before
    <3> HIDE DEF n
    <3> QED
      BY <1>1, <1>4 DEF Places
  <2>2. Cardinality(before \cup {n}) = Cardinality(before) + 1
    BY <1>2, <2>1, FS_AddElement
  <2> QED
    BY <1>3, <1>4, <2>1, <2>2
<1>5. CASE c.block # b
  <2>1. after = before
    <3> HIDE DEF n
    <3> QED
      BY <1>1, <1>5 DEF Places
  <2> QED
    BY <1>2, <1>3, <1>5, <2>1
<1> QED
  BY <1>4, <1>5

\* A thread's step changes who is reading only where it begins or ends to read.
LEMMA ReadingMoves ==
  ASSUME Log!TypeOK, NEW t \in Thread, NEW step, Log!Goto(t, step),
         \A u \in Thread : u # t => card'[u] = card[u], NEW b
  PROVE  /\ step # "readBlocks" /\ doing[t] # "readBlocks" => Reading(b)' = Reading(b)
         /\ step # "readBlocks" /\ doing[t] = "readBlocks" =>
              Cardinality(Reading(b)')
                = Cardinality(Reading(b)) - (IF card[t].block = b THEN 1 ELSE 0)
         /\ step = "readBlocks" /\ doing[t] # "readBlocks" /\ card'[t] = card[t] =>
              Cardinality(Reading(b)')
                = Cardinality(Reading(b)) + (IF card[t].block = b THEN 1 ELSE 0)
<1>1. doing'[t] = step /\ \A u \in Thread : u # t => doing'[u] = doing[u]
  BY DEF Log!TypeOK, Log!Goto
<1>2. IsFiniteSet(Reading(b)) /\ Cardinality(Reading(b)) \in Nat
  BY ReadingFinite
<1>3. ASSUME step # "readBlocks", doing[t] # "readBlocks" PROVE Reading(b)' = Reading(b)
  BY <1>1, <1>3 DEF Reading
<1>4. ASSUME step # "readBlocks", doing[t] = "readBlocks"
      PROVE  Cardinality(Reading(b)')
                = Cardinality(Reading(b)) - (IF card[t].block = b THEN 1 ELSE 0)
  <2>1. Reading(b)' = Reading(b) \ {t} /\ (t \in Reading(b) <=> card[t].block = b)
    BY <1>1, <1>4 DEF Reading
  <2>2. Cardinality(Reading(b) \ {t})
          = IF t \in Reading(b) THEN Cardinality(Reading(b)) - 1 ELSE Cardinality(Reading(b))
    BY <1>2, FS_RemoveElement
  <2> QED
    BY <1>2, <2>1, <2>2
<1>5. ASSUME step = "readBlocks", doing[t] # "readBlocks", card'[t] = card[t]
      PROVE  Cardinality(Reading(b)')
                = Cardinality(Reading(b)) + (IF card[t].block = b THEN 1 ELSE 0)
  <2>1. t \notin Reading(b)
        /\ Reading(b)' = IF card[t].block = b THEN Reading(b) \cup {t} ELSE Reading(b)
    BY <1>1, <1>5 DEF Reading
  <2>2. Cardinality(Reading(b) \cup {t}) = Cardinality(Reading(b)) + 1
    BY <1>2, <2>1, FS_AddElement
  <2> QED
    BY <1>2, <2>1, <2>2
<1> QED
  BY <1>3, <1>4, <1>5

LEMMA LogInit == Log!Init => LogIInv
<1> SUFFICES ASSUME Log!Init PROVE LogIInv
  OBVIOUS
<1>1. Log!TypeOK
  <2>1. cardFile \in Seq(Log!CardLine) /\ pairFile \in Seq(Log!Cycle) /\ blockFile \in Seq(Log!BlockLine)
    BY DEF Log!Init
  <2>2. counter \in Nat /\ overlapped \in BOOLEAN /\ DOMAIN card = Thread /\ DOMAIN buffer = Thread
        /\ \A t \in Thread : doing[t] = "idle"
    BY DEF Log!Init
  <2>3. doing \in [Thread -> {"idle", "c1", "c2", "read", "truncate", "write", "pair",
                             "readBlocks", "truncateBlocks", "writeBlocks"}]
    BY DEF Log!Init
  <2> QED
    BY <2>1, <2>2, <2>3 DEF Log!TypeOK
<1>2. ASSUME NEW b PROVE Cardinality(Reading(b)) = 0 /\ Log!PairsOf(b) = 0
  <2>1. Reading(b) = {} /\ Places(pairFile, b) = {}
    BY DEF Log!Init, Reading, Places
  <2> QED
    BY <1>1, <2>1, PairsCounted, FS_EmptySet
<1>3. Credited
  BY <1>2 DEF Log!Init, Credited, Rewriting, Left
<1>4. Undisturbed
  BY DEF Log!Init, Undisturbed, Rewriting
<1>5. ASSUME NEW b PROVE Log!TotalIn(b, blockFile) = 0
  BY DEF Log!Init, Log!TotalIn, Log!Of
<1> QED
  BY <1>1, <1>2, <1>3, <1>4, <1>5 DEF LogIInv, Exact, Log!Init, Rewriting, Left

\* A file written over is a sequence of whole and torn lines.
LEMMA OverwrittenTyped ==
  ASSUME NEW S, Log!Torn \in S, NEW lines \in Seq(S), NEW old \in Seq(S),
         NEW new \in Log!Overwritten(lines, old)
  PROVE  new \in Seq(S)
<1> DEFINE Rest(k) == SubSeq(old, k + 1, Len(old))
<1>1. \A k \in Nat : Rest(k) \in Seq(S)
  OBVIOUS
<1>2. <<Log!Torn>> \in Seq(S)
  OBVIOUS
<1>3. Len(lines) \in Nat /\ Len(old) \in Nat
  OBVIOUS
<1>4. PICK tail : /\ new = lines \o tail
                  /\ \/ tail = Rest(Len(lines))
                     \/ \E k \in 0..Len(old) : tail = <<Log!Torn>> \o Rest(k)
  BY DEF Log!Overwritten
<1> HIDE DEF Behind
<1>5. tail \in Seq(S)
  <2>1. CASE tail = Rest(Len(lines))
    BY <1>1, <1>3, <2>1
  <2>2. ASSUME NEW k \in 0..Len(old), tail = <<Log!Torn>> \o Rest(k)
        PROVE  tail \in Seq(S)
    <3>1. Rest(k) \in Seq(S)
      BY <1>1, <1>3
    <3> QED
      BY <1>2, <2>2, <3>1
  <2> QED
    BY <1>4, <2>1, <2>2
<1> QED
  BY <1>4, <1>5

\* Every line of a file written over is one of the written, one of the old, or torn.
LEMMA OverwrittenFrom ==
  ASSUME NEW S, NEW lines \in Seq(S), NEW old \in Seq(S),
         NEW new \in Log!Overwritten(lines, old), NEW n \in 1..Len(new)
  PROVE  \/ new[n] = Log!Torn
         \/ \E m \in 1..Len(old) : new[n] = old[m]
         \/ \E m \in 1..Len(lines) : new[n] = lines[m]
<1> DEFINE Rest(k) == SubSeq(old, k + 1, Len(old))
<1>1. ASSUME NEW k \in Nat
      PROVE  Rest(k) \in Seq(S) /\ \A j \in 1..Len(Rest(k)) : \E m \in 1..Len(old) : Rest(k)[j] = old[m]
  <2>1. \A j \in 1..Len(Rest(k)) : k + j \in 1..Len(old) /\ Rest(k)[j] = old[k + j]
    OBVIOUS
  <2>2. Rest(k) \in Seq(S)
    OBVIOUS
  <2> HIDE DEF Rest
  <2>3. \A j \in 1..Len(Rest(k)) : \E m \in 1..Len(old) : Rest(k)[j] = old[m]
    BY <2>1
  <2> QED
    BY <2>2, <2>3
<1>3. Len(lines) \in Nat /\ Len(old) \in Nat
  OBVIOUS
<1>4. PICK tail : /\ new = lines \o tail
                  /\ \/ tail = Rest(Len(lines))
                     \/ \E k \in 0..Len(old) : tail = <<Log!Torn>> \o Rest(k)
  BY DEF Log!Overwritten
<1> HIDE DEF Behind
<1>5. /\ tail \in Seq(S \cup {Log!Torn})
      /\ \A j \in 1..Len(tail) : tail[j] = Log!Torn \/ \E m \in 1..Len(old) : tail[j] = old[m]
  <2>1. CASE tail = Rest(Len(lines))
    <3>1. /\ Rest(Len(lines)) \in Seq(S)
          /\ \A j \in 1..Len(Rest(Len(lines))) : \E m \in 1..Len(old) : Rest(Len(lines))[j] = old[m]
      BY <1>1, <1>3
    <3>2. tail \in Seq(S)
      BY <2>1, <3>1
    <3>3. tail \in Seq(S \cup {Log!Torn})
      BY <3>2
    <3> QED
      BY <2>1, <3>1, <3>3
  <2>2. ASSUME NEW k \in 0..Len(old), tail = <<Log!Torn>> \o Rest(k)
        PROVE  /\ tail \in Seq(S \cup {Log!Torn})
               /\ \A j \in 1..Len(tail) : tail[j] = Log!Torn \/ \E m \in 1..Len(old) : tail[j] = old[m]
    <3>1. Rest(k) \in Seq(S) /\ \A j \in 1..Len(Rest(k)) : \E m \in 1..Len(old) : Rest(k)[j] = old[m]
      BY <1>1, <1>3
    <3>2. /\ Len(tail) = Len(Rest(k)) + 1 /\ tail[1] = Log!Torn
          /\ \A j \in 2..Len(tail) : tail[j] = Rest(k)[j - 1] /\ j - 1 \in 1..Len(Rest(k))
      BY <2>2, <3>1
    <3>3. tail \in Seq(S \cup {Log!Torn})
      BY <2>2, <3>1
    <3>4. \A j \in 1..Len(tail) : j = 1 \/ j \in 2..Len(tail)
      BY <3>3
    <3> QED
      BY <3>1, <3>2, <3>3, <3>4
  <2> QED
    BY <1>4, <2>1, <2>2
<1>6. /\ Len(new) = Len(lines) + Len(tail) /\ Len(tail) \in Nat
      /\ \A j \in 1..Len(lines) : new[j] = lines[j]
      /\ \A j \in 1..Len(tail) : new[Len(lines) + j] = tail[j]
  BY <1>4, <1>5
<1>7. CASE n \in 1..Len(lines)
  BY <1>6, <1>7
<1>8. CASE n \notin 1..Len(lines)
  <2>1. n - Len(lines) \in 1..Len(tail) /\ n = Len(lines) + (n - Len(lines))
    BY <1>3, <1>6, <1>8
  <2> QED
    BY <1>5, <1>6, <2>1
<1> QED
  BY <1>7, <1>8

\* Written over an empty file, lines are the file.
LEMMA OverwrittenEmpty ==
  ASSUME NEW S, NEW lines \in Seq(S), Len(lines) > 0, NEW new \in Log!Overwritten(lines, <<>>)
  PROVE  new = lines
<1>1. (Len(lines) .. Len(lines) + 1) \cap (0..Len(<<>>)) = {}
  OBVIOUS
<1>2. SubSeq(<<>>, Len(lines) + 1, Len(<<>>)) = <<>>
  OBVIOUS
<1>3. new = lines \o <<>>
  BY <1>1, <1>2 DEF Log!Overwritten
<1> QED
  BY <1>3

LEMMA LineTypes ==
  /\ Log!Torn \in Log!CardLine /\ Log!Torn \in Log!BlockLine
  /\ Rec \subseteq Log!BlockLine
  BY DEF Log!CardLine, Log!BlockLine, Rec

\* A file without a torn line is a sequence of whole ones.
LEMMA Whole ==
  ASSUME NEW S, NEW s \in Seq(S), \A n \in 1..Len(s) : s[n] # Log!Torn
  PROVE  s \in Seq(S \ {Log!Torn})
<1>1. s = [n \in 1..Len(s) |-> s[n]] /\ Len(s) \in Nat /\ \A n \in 1..Len(s) : s[n] \in S \ {Log!Torn}
  OBVIOUS
<1> QED
  BY <1>1

LEMMA LogTyped ==
  ASSUME Log!TypeOK, [Log!Next]_(Log!vars)
  PROVE  Log!TypeOK'
<1> USE DEF Log!TypeOK
<1>1. ASSUME NEW t \in Thread, Log!LogC1(t) PROVE Log!TypeOK'
  <2>1. PICK b \in CardBlock : card' = [card EXCEPT ![t] = [opp |-> counter', block |-> b]]
    BY <1>1 DEF Log!LogC1
  <2>2. counter' \in Nat /\ card'[t] \in Log!Cycle
    BY <1>1, <2>1 DEF Log!LogC1, Log!Cycle
  <2> QED
    BY <1>1, <2>1, <2>2 DEF Log!LogC1, Log!Goto
<1>2. ASSUME NEW t \in Thread, Log!AppendCard(t) PROVE Log!TypeOK'
  <2>1. doing[t] # "idle" => card[t].opp \in Nat
    BY DEF Log!Cycle
  <2>2. \A role \in {"C1", "C2"} : doing[t] # "idle" => Log!Line(role, t) \in Log!CardLine
    BY <2>1 DEF Log!Line, Log!CardLine
  <2>3. cardFile' \in Seq(Log!CardLine)
    <3>1. PICK role \in {"C1", "C2"} : cardFile' = Append(cardFile, Log!Line(role, t)) /\ doing[t] # "idle"
      BY <1>2 DEF Log!AppendCard
    <3>2. Log!Line(role, t) \in Log!CardLine
      BY <2>2, <3>1
    <3> QED
      BY <3>1, <3>2
  <2> QED
    BY <1>2, <2>3 DEF Log!AppendCard, Log!Goto
<1>3. ASSUME NEW t \in Thread, NEW f, Log!Raises(t, f) PROVE Log!TypeOK'
  BY <1>3 DEF Log!Raises, Log!Goto
<1>4. ASSUME NEW t \in Thread, Log!ReadCards(t) PROVE Log!TypeOK'
  <2>1. CASE Log!Raises(t, cardFile)
    BY <1>3, <2>1
  <2>2. CASE ~Log!Raises(t, cardFile)
    <3>1. cardFile \in Seq(Log!CardLine \ {Log!Torn})
      BY <1>4, <2>2, Whole, TornIn DEF Log!ReadCards
    <3>2. buffer' = [buffer EXCEPT ![t] = cardFile]
      BY <1>4, <2>2 DEF Log!ReadCards
    <3>3. \E step \in {"truncate", "pair"} : Log!Goto(t, step)
      BY <1>4, <2>2 DEF Log!ReadCards
    <3> QED
      BY <1>4, <2>2, <3>1, <3>2, <3>3 DEF Log!ReadCards, Log!Goto
  <2> QED
    BY <2>1, <2>2
<1>5. ASSUME NEW t \in Thread, Log!TruncateCards(t) PROVE Log!TypeOK'
  BY <1>5 DEF Log!TruncateCards, Log!Goto
<1>6. ASSUME NEW t \in Thread, Log!WriteCards(t) PROVE Log!TypeOK'
  <2>1. buffer[t] \in Seq(Log!CardLine)
    BY <1>6 DEF Log!WriteCards
  <2>2. cardFile' \in Seq(Log!CardLine)
    BY <1>6, <2>1, LineTypes, OverwrittenTyped DEF Log!WriteCards
  <2> QED
    BY <1>6, <2>2 DEF Log!WriteCards, Log!Goto
<1>7. ASSUME NEW t \in Thread, Log!LogCyclePair(t) PROVE Log!TypeOK'
  <2>1. pairFile' \in Seq(Log!Cycle)
    BY <1>7 DEF Log!LogCyclePair
  <2> QED
    BY <1>7, <2>1 DEF Log!LogCyclePair, Log!Goto
<1>8. ASSUME NEW t \in Thread, Log!ReadBlocks(t) PROVE Log!TypeOK'
  <2>1. CASE Log!Raises(t, blockFile)
    BY <1>3, <2>1
  <2>2. CASE ~Log!Raises(t, blockFile)
    <3>1. blockFile \in Seq(Rec)
      BY <1>8, <2>2, WholeRecords, TornIn DEF Log!ReadBlocks
    <3>2. card[t].block \in CardBlock
      BY <1>8 DEF Log!ReadBlocks, Log!Cycle
    <3>3. Log!Counted(card[t].block, blockFile) \in Seq(Log!BlockLine \ {Log!Torn})
      BY <3>1, <3>2, CountedOnce, TornIsNoRecord
    <3> QED
      BY <1>8, <2>2, <3>3 DEF Log!ReadBlocks, Log!Goto
  <2> QED
    BY <2>1, <2>2
<1>9. ASSUME NEW t \in Thread, Log!TruncateBlocks(t) PROVE Log!TypeOK'
  BY <1>9 DEF Log!TruncateBlocks, Log!Goto
<1>10. ASSUME NEW t \in Thread, Log!WriteBlocks(t) PROVE Log!TypeOK'
  <2>1. buffer[t] \in Seq(Log!BlockLine)
    BY <1>10 DEF Log!WriteBlocks
  <2>2. blockFile' \in Seq(Log!BlockLine)
    BY <1>10, <2>1, LineTypes, OverwrittenTyped DEF Log!WriteBlocks
  <2> QED
    BY <1>10, <2>2 DEF Log!WriteBlocks, Log!Goto
<1>11. CASE UNCHANGED Log!vars
  BY <1>11 DEF Log!vars
<1> QED
  BY <1>1, <1>2, <1>4, <1>5, <1>6, <1>7, <1>8, <1>9, <1>10, <1>11 DEF Log!Next

LEMMA LeftType ==
  ASSUME Log!TypeOK, NEW b
  PROVE  Left(b) \in Int
  BY PairsCounted, ReadingFinite DEF Left

\* Nothing is credited that was not, and no less is left.
LEMMA CreditKept ==
  ASSUME Log!TypeOK, Credited, NEW b \in CardBlock,
         Left(b)' \in Int, Left(b)' >= Left(b),
         \A n \in 1..Len(blockFile') :
           \/ blockFile'[n] = Log!Torn
           \/ \E m \in 1..Len(blockFile) : blockFile'[n] = blockFile[m]
           \/ \E u \in Thread : doing[u] \in Rewriting
                /\ \E m \in 1..Len(buffer[u]) : blockFile'[n] = buffer[u][m],
         \A u \in Thread : doing'[u] \in Rewriting =>
            doing[u] \in Rewriting /\ buffer'[u] = buffer[u]
  PROVE  /\ Left(b)' >= 0
         /\ \A n \in 1..Len(blockFile') : Fits(blockFile'[n], b, Left(b)')
         /\ \A t \in Thread : doing'[t] \in Rewriting =>
              \A n \in 1..Len(buffer'[t]) : Fits(buffer'[t][n], b, Left(b)')
<1>1. Left(b) \in Int /\ Left(b) >= 0
  BY LeftType DEF Credited
<1>2. \A n \in 1..Len(blockFile) : blockFile[n] # Log!Torn => blockFile[n].total \in Nat
  <2> SUFFICES ASSUME NEW n \in 1..Len(blockFile), blockFile[n] # Log!Torn
               PROVE  blockFile[n].total \in Nat
    OBVIOUS
  <2>1. blockFile[n] \in Rec
    BY TornIsNoRecord DEF Log!TypeOK
  <2> QED
    BY <2>1 DEF Rec
<1>3. \A u \in Thread : doing[u] \in Rewriting =>
        \A n \in 1..Len(buffer[u]) : buffer[u][n].total \in Nat
  <2> SUFFICES ASSUME NEW u \in Thread, doing[u] \in Rewriting, NEW n \in 1..Len(buffer[u])
               PROVE  buffer[u][n].total \in Nat
    OBVIOUS
  <2>1. buffer[u] \in Seq(Rec)
    BY TornIsNoRecord DEF Log!TypeOK, Rewriting
  <2>2. buffer[u][n] \in Rec
    BY <2>1
  <2> QED
    BY <2>2 DEF Rec
<1>4. ASSUME NEW r, Fits(r, b, Left(b)), r # Log!Torn => r.total \in Nat
      PROVE  Fits(r, b, Left(b)')
  BY <1>1, <1>4 DEF Fits
<1>5. ASSUME NEW n \in 1..Len(blockFile) PROVE Fits(blockFile[n], b, Left(b)')
  BY <1>2, <1>4, <1>5 DEF Credited
<1>6. ASSUME NEW u \in Thread, doing[u] \in Rewriting, NEW n \in 1..Len(buffer[u])
      PROVE  Fits(buffer[u][n], b, Left(b)')
  BY <1>3, <1>4, <1>6 DEF Credited
<1>7. Fits(Log!Torn, b, Left(b)')
  BY DEF Fits
<1>8. \A n \in 1..Len(blockFile') : Fits(blockFile'[n], b, Left(b)')
  BY <1>5, <1>6, <1>7
<1>9. \A t \in Thread : doing'[t] \in Rewriting =>
        \A n \in 1..Len(buffer'[t]) : Fits(buffer'[t][n], b, Left(b)')
  BY <1>6
<1> QED
  BY <1>1, <1>8, <1>9

\* A pair leaves a cycle to count, and counting it, or giving up, takes it away.
LEMMA LeftMoves ==
  ASSUME Log!TypeOK, Log!TypeOK', NEW t \in Thread, NEW step, Log!Goto(t, step),
         \A u \in Thread : u # t => card'[u] = card[u], NEW b
  PROVE  /\ Left(b)' \in Int
         /\ pairFile' = pairFile /\ step # "readBlocks" =>
              Left(b)' = Left(b) + (IF doing[t] = "readBlocks" /\ card[t].block = b THEN 1 ELSE 0)
         /\ (pairFile' = Append(pairFile, card[t]) /\ card' = card
              /\ step = "readBlocks" /\ doing[t] = "pair") =>
              Left(b)' = Left(b)
<1>1. Log!PairsOf(b) \in Nat /\ Cardinality(Reading(b)) \in Nat
  BY PairsCounted, ReadingFinite
<1>2. Log!PairsOf(b)' \in Nat /\ (pairFile' = pairFile => Log!PairsOf(b)' = Log!PairsOf(b))
  <2>1. Log!PairsOf(b)' = Cardinality(Places(pairFile', b))
    BY LogCardinality DEF Log!PairsOf, Log!Quantify, Places
  <2>2. pairFile' \in Seq(Log!Cycle)
    BY DEF Log!TypeOK
  <2> QED
    BY <2>1, <2>2, PairsCounted, PlacesFinite
<1>3. Cardinality(Reading(b)') \in Nat
  <2>1. Reading(b)' \subseteq Thread
    BY DEF Reading
  <2> QED
    BY <2>1, LogConstants, FS_Subset, FS_CardinalityType
<1>4. Left(b)' = Log!PairsOf(b)' - Cardinality(Reading(b)')
  BY DEF Left
<1>5. ASSUME pairFile' = pairFile, step # "readBlocks"
      PROVE  Left(b)' = Left(b) + (IF doing[t] = "readBlocks" /\ card[t].block = b THEN 1 ELSE 0)
  BY <1>1, <1>2, <1>4, <1>5, ReadingMoves DEF Left
<1>6. ASSUME pairFile' = Append(pairFile, card[t]), card' = card,
             step = "readBlocks", doing[t] = "pair"
      PROVE  Left(b)' = Left(b)
  <2>1. card[t] \in Log!Cycle
    BY <1>6 DEF Log!TypeOK
  <2>2. Log!PairsOf(b)' = Log!PairsOf(b) + (IF card[t].block = b THEN 1 ELSE 0)
    BY <1>6, <2>1, PairsGrow
  <2>3. Cardinality(Reading(b)') = Cardinality(Reading(b)) + (IF card[t].block = b THEN 1 ELSE 0)
    BY <1>6, ReadingMoves
  <2> QED
    BY <1>1, <1>4, <2>2, <2>3 DEF Left
<1>7. Left(b)' \in Int
  BY <1>2, <1>3, <1>4
<1>8. pairFile' = pairFile /\ step # "readBlocks" =>
        Left(b)' = Left(b) + (IF doing[t] = "readBlocks" /\ card[t].block = b THEN 1 ELSE 0)
  BY <1>5
<1>9. (pairFile' = Append(pairFile, card[t]) /\ card' = card
        /\ step = "readBlocks" /\ doing[t] = "pair") =>
        Left(b)' = Left(b)
  BY <1>6
<1> QED
  BY <1>7, <1>8, <1>9

LEMMA CreditedStep ==
  ASSUME Log!TypeOK, Log!TypeOK', Credited, [Log!Next]_(Log!vars)
  PROVE  Credited'
<1> DEFINE Holds(b) ==
      /\ Left(b)' >= 0
      /\ \A n \in 1..Len(blockFile') : Fits(blockFile'[n], b, Left(b)')
      /\ \A t \in Thread : doing'[t] \in Rewriting =>
           \A n \in 1..Len(buffer'[t]) : Fits(buffer'[t][n], b, Left(b)')
<1> SUFFICES ASSUME NEW b \in CardBlock PROVE Holds(b)
  BY DEF Credited
<1>1. ASSUME NEW t \in Thread, NEW step, Log!Goto(t, step), step \notin {"readBlocks"} \cup Rewriting,
             \A u \in Thread : u # t => card'[u] = card[u] /\ buffer'[u] = buffer[u],
             pairFile' = pairFile, blockFile' = blockFile
      PROVE  Holds(b)
  <2>1. Left(b)' \in Int /\ Left(b)' >= Left(b)
    BY <1>1, LeftMoves, LeftType
  <2>2. \A u \in Thread : doing'[u] \in Rewriting => doing[u] \in Rewriting /\ buffer'[u] = buffer[u]
    BY <1>1 DEF Log!Goto, Log!TypeOK
  <2> QED
    BY <1>1, <2>1, <2>2, CreditKept
<1>2. ASSUME NEW t \in Thread, Log!LogC1(t) \/ Log!AppendCard(t) \/ Log!TruncateCards(t) \/ Log!WriteCards(t)
      PROVE  Holds(b)
  <2>1. \E step \in {"c1", "c2", "read", "write", "pair"} : Log!Goto(t, step)
    BY <1>2 DEF Log!LogC1, Log!AppendCard, Log!TruncateCards, Log!WriteCards
  <2>2. /\ \A u \in Thread : u # t => card'[u] = card[u] /\ buffer'[u] = buffer[u]
        /\ pairFile' = pairFile /\ blockFile' = blockFile
    BY <1>2 DEF Log!LogC1, Log!AppendCard, Log!TruncateCards, Log!WriteCards, Log!TypeOK
  <2> QED
    BY <1>1, <2>1, <2>2 DEF Rewriting
<1>3. ASSUME NEW t \in Thread, NEW f, Log!Raises(t, f) PROVE Holds(b)
  <2>1. /\ Log!Goto(t, "idle")
        /\ \A u \in Thread : u # t => card'[u] = card[u] /\ buffer'[u] = buffer[u]
        /\ pairFile' = pairFile /\ blockFile' = blockFile
    BY <1>3 DEF Log!Raises, Log!TypeOK
  <2> QED
    BY <1>1, <2>1 DEF Rewriting
<1>4. ASSUME NEW t \in Thread, Log!ReadCards(t) PROVE Holds(b)
  <2>1. CASE ~Log!Raises(t, cardFile)
    <3>1. \E step \in {"truncate", "pair"} : Log!Goto(t, step)
      BY <1>4, <2>1 DEF Log!ReadCards
    <3>2. /\ \A u \in Thread : u # t => card'[u] = card[u] /\ buffer'[u] = buffer[u]
          /\ pairFile' = pairFile /\ blockFile' = blockFile
      BY <1>4, <2>1 DEF Log!ReadCards, Log!TypeOK
    <3> QED
      BY <1>1, <3>1, <3>2 DEF Rewriting
  <2> QED
    BY <1>3, <2>1
<1>5. ASSUME NEW t \in Thread, Log!LogCyclePair(t) PROVE Holds(b)
  <2>1. /\ Log!Goto(t, "readBlocks") /\ doing[t] = "pair" /\ card' = card /\ buffer' = buffer
        /\ pairFile' = Append(pairFile, card[t]) /\ blockFile' = blockFile
    BY <1>5 DEF Log!LogCyclePair
  <2>2. Left(b)' \in Int /\ Left(b)' >= Left(b)
    BY <2>1, LeftMoves, LeftType
  <2>3. \A u \in Thread : doing'[u] \in Rewriting => doing[u] \in Rewriting /\ buffer'[u] = buffer[u]
    BY <2>1 DEF Log!Goto, Log!TypeOK, Rewriting
  <2> QED
    BY <2>1, <2>2, <2>3, CreditKept
<1>6. ASSUME NEW t \in Thread, Log!ReadBlocks(t) PROVE Holds(b)
  <2>1. CASE ~Log!Raises(t, blockFile)
    <3> DEFINE own == card[t].block
    <3>1. /\ doing[t] = "readBlocks" /\ Log!Goto(t, "truncateBlocks")
          /\ buffer' = [buffer EXCEPT ![t] = Log!Counted(own, blockFile)]
          /\ card' = card /\ pairFile' = pairFile /\ blockFile' = blockFile
          /\ Log!Torn \notin Log!ToSet(blockFile)
      BY <1>6, <2>1 DEF Log!ReadBlocks
    <3>2. own \in CardBlock
      BY <3>1 DEF Log!TypeOK, Log!Cycle
    <3>3. blockFile \in Seq(Rec)
      BY <3>1, WholeRecords, TornIn DEF Log!TypeOK
    <3> HIDE DEF own
    <3>4. Left(b)' = Left(b) + (IF own = b THEN 1 ELSE 0) /\ Left(b) \in Int /\ Left(b) >= 0
      BY <3>1, LeftMoves, LeftType DEF own, Credited
    <3>5. \A n \in 1..Len(blockFile) : Fits(blockFile[n], b, Left(b)) /\ blockFile[n].total \in Nat
      <4>1. \A n \in 1..Len(blockFile) : blockFile[n] \in Rec
        BY <3>3
      <4> QED
        BY <4>1 DEF Credited, Rec
    <3>6. \A n \in 1..Len(blockFile) : Fits(blockFile[n], b, Left(b)')
      BY <3>4, <3>5 DEF Fits
    <3>7. \A n \in 1..Len(Log!Counted(own, blockFile)) :
            Fits(Log!Counted(own, blockFile)[n], b, Left(b)')
      <4>1. Fits(Log!Record(own, Log!TotalIn(own, blockFile) + 1), b, Left(b)')
        <5>1. CASE own = b
          <6>1. Log!TotalIn(own, blockFile) \in Nat /\ Log!TotalIn(own, blockFile) <= Left(b)
            <7>1. \A n \in 1..Len(blockFile) : blockFile[n].block = b => blockFile[n].total <= Left(b)
              <8>1. \A n \in 1..Len(blockFile) : blockFile[n] # Log!Torn
                BY <3>3, TornIsNoRecord
              <8> QED
                BY <3>5, <8>1 DEF Fits
            <7> QED
              BY <3>3, <3>4, <3>5, <5>1, <7>1, TotalKnown
          <6> QED
            BY <3>4, <5>1, <6>1 DEF Fits, Log!Record
        <5>2. CASE own # b
          BY <5>2 DEF Fits, Log!Record
        <5> QED
          BY <5>1, <5>2
      <4> QED
        BY <3>2, <3>3, <3>6, <4>1, CountedOnce
    <3>8. ASSUME NEW u \in Thread, doing'[u] \in Rewriting, NEW n \in 1..Len(buffer'[u])
          PROVE  Fits(buffer'[u][n], b, Left(b)')
      <4>1. CASE u = t
        BY <3>1, <3>7, <3>8, <4>1 DEF Log!TypeOK
      <4>2. CASE u # t
        <5>1. doing[u] \in Rewriting /\ buffer'[u] = buffer[u]
          BY <3>1, <3>8, <4>2 DEF Log!Goto, Log!TypeOK
        <5>2. Fits(buffer[u][n], b, Left(b)) /\ buffer[u][n] \in Rec
          BY <3>8, <5>1, TornIsNoRecord DEF Credited, Log!TypeOK, Rewriting
        <5>3. buffer[u][n].total \in Nat
          BY <5>2 DEF Rec
        <5> QED
          BY <3>4, <5>1, <5>2, <5>3 DEF Fits
      <4> QED
        BY <4>1, <4>2
    <3> QED
      BY <3>1, <3>4, <3>6, <3>8
  <2> QED
    BY <1>3, <2>1
<1>7. ASSUME NEW t \in Thread, Log!TruncateBlocks(t) PROVE Holds(b)
  <2>1. /\ Log!Goto(t, "writeBlocks") /\ doing[t] = "truncateBlocks" /\ card' = card /\ buffer' = buffer
        /\ pairFile' = pairFile /\ blockFile' = <<>>
    BY <1>7 DEF Log!TruncateBlocks
  <2>2. Left(b)' \in Int /\ Left(b)' >= Left(b)
    BY <2>1, LeftMoves, LeftType
  <2>3. \A u \in Thread : doing'[u] \in Rewriting => doing[u] \in Rewriting /\ buffer'[u] = buffer[u]
    BY <2>1 DEF Log!Goto, Log!TypeOK, Rewriting
  <2> QED
    BY <2>1, <2>2, <2>3, CreditKept
<1>8. ASSUME NEW t \in Thread, Log!WriteBlocks(t) PROVE Holds(b)
  <2>1. /\ Log!Goto(t, "idle") /\ doing[t] = "writeBlocks" /\ pairFile' = pairFile
        /\ blockFile' \in Log!Overwritten(buffer[t], blockFile)
        /\ \A u \in Thread : u # t => card'[u] = card[u] /\ buffer'[u] = buffer[u]
    BY <1>8 DEF Log!WriteBlocks, Log!TypeOK
  <2>2. Left(b)' \in Int /\ Left(b)' >= Left(b)
    BY <2>1, LeftMoves, LeftType
  <2>3. \A u \in Thread : doing'[u] \in Rewriting => doing[u] \in Rewriting /\ buffer'[u] = buffer[u]
    BY <2>1 DEF Log!Goto, Log!TypeOK, Rewriting
  <2>4. \A n \in 1..Len(blockFile') :
          \/ blockFile'[n] = Log!Torn
          \/ \E m \in 1..Len(blockFile) : blockFile'[n] = blockFile[m]
          \/ \E m \in 1..Len(buffer[t]) : blockFile'[n] = buffer[t][m]
    <3>1. buffer[t] \in Seq(Log!BlockLine) /\ blockFile \in Seq(Log!BlockLine)
      <4>1. buffer[t] \in Seq(Rec)
        BY <2>1, TornIsNoRecord DEF Log!TypeOK
      <4> QED
        BY <4>1, LineTypes DEF Log!TypeOK
    <3> SUFFICES ASSUME NEW n \in 1..Len(blockFile')
                 PROVE  \/ blockFile'[n] = Log!Torn
                        \/ \E m \in 1..Len(blockFile) : blockFile'[n] = blockFile[m]
                        \/ \E m \in 1..Len(buffer[t]) : blockFile'[n] = buffer[t][m]
      OBVIOUS
    <3> QED
      BY <2>1, <3>1, OverwrittenFrom
  <2> QED
    BY <2>1, <2>2, <2>3, <2>4, CreditKept DEF Rewriting
<1>9. CASE UNCHANGED Log!vars
  <2>1. Left(b)' = Left(b)
    BY <1>9 DEF Log!vars, Left, Log!PairsOf, Log!Quantify, Reading
  <2> QED
    BY <1>9, <2>1 DEF Log!vars, Credited
<1> QED
  BY <1>2, <1>4, <1>5, <1>6, <1>7, <1>8, <1>9 DEF Log!Next

\* The step of a thread that is alone, by what it leaves.
LEMMA AloneStep ==
  ASSUME Log!TypeOK, NEW t \in Thread, NEW step, Log!Goto(t, step),
         \A u \in Thread : u # t => doing[u] = "idle",
         \A n \in 1..Len(cardFile') : cardFile'[n] # Log!Torn,
         \A n \in 1..Len(blockFile') : blockFile'[n] # Log!Torn,
         step = "write" => cardFile' = <<>>,
         step = "writeBlocks" => blockFile' = <<>>,
         step \in {"truncate", "write"} \cup Rewriting => Len(buffer'[t]) > 0,
         step \notin Rewriting => \A b \in CardBlock : Log!TotalIn(b, blockFile') = Left(b)',
         step \in Rewriting => \A b \in CardBlock : Log!TotalIn(b, buffer'[t]) = Left(b)'
  PROVE  Undisturbed' /\ Exact'
<1>1. doing'[t] = step /\ \A u \in Thread : u # t => doing'[u] = "idle"
  BY DEF Log!TypeOK, Log!Goto
<1>2. \A u \in Thread : doing'[u] # "idle" => u = t
  BY <1>1
<1>3. Undisturbed'
  <2>1. \A u, v \in Thread : doing'[u] # "idle" /\ doing'[v] # "idle" => u = v
    BY <1>2
  <2>2. ASSUME NEW u \in Thread
        PROVE  /\ doing'[u] = "write" => cardFile' = <<>>
               /\ doing'[u] = "writeBlocks" => blockFile' = <<>>
               /\ doing'[u] \in {"truncate", "write"} \cup Rewriting => Len(buffer'[u]) > 0
    BY <1>1 DEF Rewriting
  <2> QED
    BY <2>1, <2>2 DEF Undisturbed
<1>4. ASSUME NEW b \in CardBlock, \A u \in Thread : doing'[u] \notin Rewriting
      PROVE  Log!TotalIn(b, blockFile') = Left(b)'
  BY <1>1, <1>4
<1>5. ASSUME NEW b \in CardBlock, NEW u \in Thread, doing'[u] \in Rewriting
      PROVE  Log!TotalIn(b, buffer'[u]) = Left(b)'
  BY <1>1, <1>5 DEF Rewriting
<1> QED
  BY <1>3, <1>4, <1>5 DEF Exact

\* A logger that one thread at a time uses keeps exact totals.
LEMMA ExactStep ==
  ASSUME Log!TypeOK, Log!TypeOK', Undisturbed, Exact, [Log!Next]_(Log!vars), ~overlapped'
  PROVE  Undisturbed' /\ Exact'
<1>1. ASSUME NEW t \in Thread, doing[t] # "idle" PROVE \A u \in Thread : u # t => doing[u] = "idle"
  BY <1>1 DEF Undisturbed
<1>2. ASSUME NEW t \in Thread, \A u \in Thread : u # t => doing[u] = "idle", doing[t] \notin Rewriting,
             NEW b \in CardBlock
      PROVE  Log!TotalIn(b, blockFile) = Left(b)
  <2>1. \A u \in Thread : doing[u] \notin Rewriting
    BY <1>2 DEF Rewriting
  <2> QED
    BY <2>1 DEF Exact
<1>3. ASSUME NEW t \in Thread, NEW step, Log!Goto(t, step), step \notin {"readBlocks"} \cup Rewriting,
             doing[t] \notin {"readBlocks"} \cup Rewriting,
             \A u \in Thread : u # t => doing[u] = "idle" /\ card'[u] = card[u],
             pairFile' = pairFile, blockFile' = blockFile,
             \A n \in 1..Len(cardFile') : cardFile'[n] # Log!Torn,
             step = "write" => cardFile' = <<>>,
             step \in {"truncate", "write"} => Len(buffer'[t]) > 0
      PROVE  Undisturbed' /\ Exact'
  <2>1. \A b \in CardBlock : Log!TotalIn(b, blockFile') = Left(b)'
    <3> SUFFICES ASSUME NEW b \in CardBlock PROVE Log!TotalIn(b, blockFile') = Left(b)'
      OBVIOUS
    <3>1. Log!TotalIn(b, blockFile) = Left(b)
      BY <1>2, <1>3
    <3>2. Left(b)' = Left(b)
      BY <1>3, LeftMoves, LeftType
    <3> QED
      BY <1>3, <3>1, <3>2
  <2>2. \A n \in 1..Len(blockFile') : blockFile'[n] # Log!Torn
    BY <1>3 DEF Undisturbed
  <2>3. step # "writeBlocks" /\ step \notin Rewriting
    BY <1>3 DEF Rewriting
  <2> QED
    BY <1>3, <2>1, <2>2, <2>3, AloneStep
<1>4. ASSUME NEW t \in Thread, Log!LogC1(t) PROVE Undisturbed' /\ Exact'
  <2>1. \A u \in Thread : doing[u] = "idle"
    BY <1>4 DEF Log!LogC1
  <2>2. \A u \in Thread : u # t => card'[u] = card[u]
    BY <1>4 DEF Log!LogC1, Log!TypeOK
  <2>3. Log!Goto(t, "c1") /\ pairFile' = pairFile /\ blockFile' = blockFile /\ cardFile' = cardFile
    BY <1>4 DEF Log!LogC1
  <2> QED
    BY <1>3, <2>1, <2>2, <2>3 DEF Undisturbed, Rewriting
<1>5. ASSUME NEW t \in Thread, Log!AppendCard(t) PROVE Undisturbed' /\ Exact'
  <2>1. PICK role \in {"C1", "C2"}, step \in {"c2", "read"} :
          Log!Goto(t, step) /\ cardFile' = Append(cardFile, Log!Line(role, t)) /\ doing[t] \in {"c1", "c2"}
    BY <1>5 DEF Log!AppendCard
  <2>2. card' = card /\ pairFile' = pairFile /\ blockFile' = blockFile
    BY <1>5 DEF Log!AppendCard
  <2>3. Log!Line(role, t) # Log!Torn
    <3>1. Log!Line(role, t).torn = FALSE /\ Log!Torn.torn = TRUE
      BY DEF Log!Line, Log!Torn
    <3> QED
      BY <3>1
  <2>4. \A n \in 1..Len(cardFile') : cardFile'[n] # Log!Torn
    <3>1. cardFile \in Seq(Log!CardLine) /\ \A n \in 1..Len(cardFile) : cardFile[n] # Log!Torn
      BY DEF Log!TypeOK, Undisturbed
    <3> QED
      BY <2>1, <2>3, <3>1
  <2> QED
    BY <1>1, <1>3, <2>1, <2>2, <2>4 DEF Rewriting
<1>6. ASSUME NEW t \in Thread, NEW S, NEW f \in Seq(S), \A n \in 1..Len(f) : f[n] # Log!Torn
      PROVE  ~Log!Raises(t, f)
  BY <1>6, TornIn DEF Log!Raises
<1>7. ASSUME NEW t \in Thread, Log!ReadCards(t) PROVE Undisturbed' /\ Exact'
  <2>1. ~Log!Raises(t, cardFile)
    BY <1>6 DEF Undisturbed, Log!TypeOK
  <2>2. /\ doing[t] = "read" /\ card' = card /\ cardFile' = cardFile
        /\ pairFile' = pairFile /\ blockFile' = blockFile
        /\ Log!Goto(t, IF Log!Line("C1", t) \in Log!ToSet(cardFile) THEN "truncate" ELSE "pair")
        /\ buffer' = [buffer EXCEPT ![t] = cardFile]
    BY <1>7, <2>1 DEF Log!ReadCards
  <2>3. PICK step \in {"truncate", "pair"} :
          Log!Goto(t, step) /\ (step = "truncate" => Log!Line("C1", t) \in Log!ToSet(cardFile))
    BY <2>2
  <2>4. step = "truncate" => Len(cardFile) > 0
    BY <2>3 DEF Log!ToSet, Log!TypeOK
  <2>5. buffer'[t] = cardFile
    BY <2>2 DEF Log!TypeOK
  <2>6. \A n \in 1..Len(cardFile') : cardFile'[n] # Log!Torn
    BY <2>2 DEF Undisturbed
  <2> QED
    BY <1>1, <1>3, <2>2, <2>3, <2>4, <2>5, <2>6 DEF Rewriting
<1>8. ASSUME NEW t \in Thread, Log!TruncateCards(t) PROVE Undisturbed' /\ Exact'
  <2>1. /\ doing[t] = "truncate" /\ Log!Goto(t, "write") /\ card' = card /\ cardFile' = <<>>
        /\ pairFile' = pairFile /\ blockFile' = blockFile /\ buffer' = buffer
    BY <1>8 DEF Log!TruncateCards
  <2>2. Len(buffer[t]) > 0
    BY <2>1 DEF Undisturbed
  <2> QED
    BY <1>1, <1>3, <2>1, <2>2 DEF Rewriting
<1>9. ASSUME NEW t \in Thread, Log!WriteCards(t) PROVE Undisturbed' /\ Exact'
  <2>1. /\ doing[t] = "write" /\ Log!Goto(t, "pair") /\ card' = card
        /\ cardFile' \in Log!Overwritten(buffer[t], cardFile)
        /\ pairFile' = pairFile /\ blockFile' = blockFile
    BY <1>9 DEF Log!WriteCards
  <2>2. Len(buffer[t]) > 0 /\ cardFile = <<>>
    BY <2>1 DEF Undisturbed
  <2>3. buffer[t] \in Seq(Log!CardLine \ {Log!Torn})
    BY <2>1 DEF Log!TypeOK
  <2>4. cardFile' = buffer[t]
    BY <2>1, <2>2, <2>3, OverwrittenEmpty
  <2>5. \A n \in 1..Len(cardFile') : cardFile'[n] # Log!Torn
    BY <2>3, <2>4
  <2> QED
    BY <1>1, <1>3, <2>1, <2>5 DEF Rewriting
<1>10. ASSUME NEW t \in Thread, Log!LogCyclePair(t) PROVE Undisturbed' /\ Exact'
  <2>1. /\ Log!Goto(t, "readBlocks") /\ doing[t] = "pair" /\ card' = card /\ cardFile' = cardFile
        /\ pairFile' = Append(pairFile, card[t]) /\ blockFile' = blockFile
    BY <1>10 DEF Log!LogCyclePair
  <2>2. \A u \in Thread : u # t => doing[u] = "idle"
    BY <1>1, <2>1
  <2>3. \A b \in CardBlock : Log!TotalIn(b, blockFile') = Left(b)'
    <3> SUFFICES ASSUME NEW b \in CardBlock PROVE Log!TotalIn(b, blockFile') = Left(b)'
      OBVIOUS
    <3>1. Log!TotalIn(b, blockFile) = Left(b)
      BY <1>2, <2>1, <2>2 DEF Rewriting
    <3>2. Left(b)' = Left(b)
      BY <2>1, LeftMoves
    <3> QED
      BY <2>1, <3>1, <3>2
  <2>4. /\ \A n \in 1..Len(blockFile') : blockFile'[n] # Log!Torn
        /\ \A n \in 1..Len(cardFile') : cardFile'[n] # Log!Torn
    BY <2>1 DEF Undisturbed
  <2> QED
    BY <2>1, <2>2, <2>3, <2>4, AloneStep DEF Rewriting
<1>11. ASSUME NEW t \in Thread, Log!ReadBlocks(t) PROVE Undisturbed' /\ Exact'
  <2> DEFINE own == card[t].block
  <2>1. ~Log!Raises(t, blockFile)
    BY <1>6 DEF Undisturbed, Log!TypeOK
  <2>2. /\ doing[t] = "readBlocks" /\ Log!Goto(t, "truncateBlocks") /\ card' = card
        /\ cardFile' = cardFile /\ pairFile' = pairFile /\ blockFile' = blockFile
        /\ buffer' = [buffer EXCEPT ![t] = Log!Counted(own, blockFile)]
    BY <1>11, <2>1 DEF Log!ReadBlocks
  <2>3. \A u \in Thread : u # t => doing[u] = "idle"
    BY <1>1, <2>2
  <2>4. own \in CardBlock
    BY <2>2 DEF Log!TypeOK, Log!Cycle
  <2>5. blockFile \in Seq(Rec)
    BY WholeRecords DEF Log!TypeOK, Undisturbed
  <2>6. buffer'[t] = Log!Counted(own, blockFile)
    BY <2>2 DEF Log!TypeOK
  <2>7. \A b : Left(b)' = Left(b) + (IF own = b THEN 1 ELSE 0)
    BY <2>2, LeftMoves
  <2> HIDE DEF own
  <2>8. \A b \in CardBlock : Log!TotalIn(b, buffer'[t]) = Left(b)'
    <3> SUFFICES ASSUME NEW b \in CardBlock PROVE Log!TotalIn(b, buffer'[t]) = Left(b)'
      OBVIOUS
    <3>1. Log!TotalIn(b, blockFile) = Left(b)
      BY <1>2, <2>2, <2>3 DEF Rewriting
    <3>2. Left(b) \in Int
      BY LeftType
    <3>3. CASE own = b
      BY <2>4, <2>5, <2>6, <2>7, <3>1, <3>3, CountedOnce
    <3>4. CASE own # b
      BY <2>4, <2>5, <2>6, <2>7, <3>1, <3>2, <3>4, CountedOnce
    <3> QED
      BY <3>3, <3>4
  <2>9. Len(buffer'[t]) > 0
    BY <2>4, <2>5, <2>6, CountedOnce
  <2>10. /\ \A n \in 1..Len(blockFile') : blockFile'[n] # Log!Torn
         /\ \A n \in 1..Len(cardFile') : cardFile'[n] # Log!Torn
    BY <2>2 DEF Undisturbed
  <2> QED
    BY <2>2, <2>3, <2>8, <2>9, <2>10, AloneStep DEF Rewriting
<1>12. ASSUME NEW t \in Thread, Log!TruncateBlocks(t) PROVE Undisturbed' /\ Exact'
  <2>1. /\ doing[t] = "truncateBlocks" /\ Log!Goto(t, "writeBlocks") /\ card' = card
        /\ cardFile' = cardFile /\ pairFile' = pairFile /\ blockFile' = <<>> /\ buffer' = buffer
    BY <1>12 DEF Log!TruncateBlocks
  <2>2. \A u \in Thread : u # t => doing[u] = "idle"
    BY <1>1, <2>1
  <2>3. \A b \in CardBlock : Log!TotalIn(b, buffer'[t]) = Left(b)'
    <3> SUFFICES ASSUME NEW b \in CardBlock PROVE Log!TotalIn(b, buffer'[t]) = Left(b)'
      OBVIOUS
    <3>1. Log!TotalIn(b, buffer[t]) = Left(b)
      BY <2>1 DEF Exact, Rewriting
    <3>2. Left(b)' = Left(b)
      BY <2>1, LeftMoves, LeftType
    <3> QED
      BY <2>1, <3>1, <3>2
  <2>4. Len(buffer'[t]) > 0
    BY <2>1 DEF Undisturbed, Rewriting
  <2>5. \A n \in 1..Len(cardFile') : cardFile'[n] # Log!Torn
    BY <2>1 DEF Undisturbed
  <2>6. \A n \in 1..Len(blockFile') : blockFile'[n] # Log!Torn
    BY <2>1
  <2> QED
    BY <2>1, <2>2, <2>3, <2>4, <2>5, <2>6, AloneStep DEF Rewriting
<1>13. ASSUME NEW t \in Thread, Log!WriteBlocks(t) PROVE Undisturbed' /\ Exact'
  <2>1. /\ doing[t] = "writeBlocks" /\ Log!Goto(t, "idle")
        /\ blockFile' \in Log!Overwritten(buffer[t], blockFile)
        /\ cardFile' = cardFile /\ pairFile' = pairFile
        /\ \A u \in Thread : u # t => card'[u] = card[u]
    BY <1>13 DEF Log!WriteBlocks, Log!TypeOK
  <2>2. \A u \in Thread : u # t => doing[u] = "idle"
    BY <1>1, <2>1
  <2>3. Len(buffer[t]) > 0 /\ blockFile = <<>>
    BY <2>1 DEF Undisturbed, Rewriting
  <2>4. buffer[t] \in Seq(Log!BlockLine \ {Log!Torn})
    BY <2>1 DEF Log!TypeOK
  <2>5. blockFile' = buffer[t]
    BY <2>1, <2>3, <2>4, OverwrittenEmpty
  <2>6. \A n \in 1..Len(blockFile') : blockFile'[n] # Log!Torn
    BY <2>4, <2>5
  <2>7. \A b \in CardBlock : Log!TotalIn(b, blockFile') = Left(b)'
    <3> SUFFICES ASSUME NEW b \in CardBlock PROVE Log!TotalIn(b, blockFile') = Left(b)'
      OBVIOUS
    <3>1. Log!TotalIn(b, buffer[t]) = Left(b)
      BY <2>1 DEF Exact, Rewriting
    <3>2. Left(b)' = Left(b)
      BY <2>1, LeftMoves, LeftType
    <3> QED
      BY <2>5, <3>1, <3>2
  <2>8. \A n \in 1..Len(cardFile') : cardFile'[n] # Log!Torn
    BY <2>1 DEF Undisturbed
  <2> QED
    BY <2>1, <2>2, <2>6, <2>7, <2>8, AloneStep DEF Rewriting
<1>14. CASE UNCHANGED Log!vars
  <2>1. \A b \in CardBlock : Left(b)' = Left(b)
    BY <1>14 DEF Log!vars, Left, Log!PairsOf, Log!Quantify, Reading
  <2>2. doing' = doing /\ buffer' = buffer /\ blockFile' = blockFile /\ cardFile' = cardFile
    BY <1>14 DEF Log!vars
  <2>3. Undisturbed'
    BY <2>2 DEF Undisturbed
  <2>4. Exact'
    BY <2>1, <2>2 DEF Exact
  <2> QED
    BY <2>3, <2>4
<1> QED
  BY <1>4, <1>5, <1>7, <1>8, <1>9, <1>10, <1>11, <1>12, <1>13, <1>14 DEF Log!Next

LEMMA LogInvariance == Log!Spec => []LogIInv
<1>1. LogIInv /\ [Log!Next]_(Log!vars) => LogIInv'
  <2> SUFFICES ASSUME LogIInv, [Log!Next]_(Log!vars) PROVE LogIInv'
    OBVIOUS
  <2>1. Log!TypeOK'
    BY LogTyped DEF LogIInv
  <2>2. Credited'
    BY <2>1, CreditedStep DEF LogIInv
  <2>3. ~overlapped' => ~overlapped
    <3>1. ASSUME NEW t \in Thread, Log!LogC1(t), overlapped PROVE overlapped'
      BY <3>1 DEF Log!LogC1
    <3>2. (\E t \in Thread : Log!LogC1(t)) \/ overlapped' = overlapped
      BY DEF Log!Next, Log!vars, Log!AppendCard, Log!ReadCards, Log!Raises,
             Log!TruncateCards, Log!WriteCards, Log!LogCyclePair, Log!ReadBlocks,
             Log!TruncateBlocks, Log!WriteBlocks
    <3> QED
      BY <3>1, <3>2
  <2>4. ~overlapped' => Undisturbed' /\ Exact'
    BY <2>1, <2>3, ExactStep DEF LogIInv
  <2> QED
    BY <2>1, <2>2, <2>4 DEF LogIInv
<1> QED
  BY <1>1, LogInit, PTL DEF Log!Spec

LEMMA TotalsHold == LogIInv => Log!BlockTotals
<1> SUFFICES ASSUME LogIInv PROVE Log!BlockTotals
  OBVIOUS
<1>1. Log!TypeOK
  BY DEF LogIInv
<1>2. ASSUME NEW r \in Log!ToSet(blockFile) \ {Log!Torn}
      PROVE  r.total <= Log!PairsOf(r.block)
  <2>1. PICK n \in 1..Len(blockFile) : r = blockFile[n]
    BY <1>1, <1>2 DEF Log!ToSet, Log!TypeOK
  <2>2. r \in Rec
    BY <1>1, <1>2, <2>1, TornIsNoRecord DEF Log!TypeOK
  <2> DEFINE b == r.block
  <2>3. b \in CardBlock /\ r.total \in Nat
    BY <2>2 DEF Rec
  <2> HIDE DEF b
  <2>4. Fits(r, b, Left(b))
    BY <2>1, <2>3 DEF LogIInv, Credited
  <2>5. r.total <= Left(b)
    BY <1>2, <2>4 DEF Fits, b
  <2>6. Left(b) <= Log!PairsOf(b) /\ Left(b) \in Int /\ Log!PairsOf(b) \in Nat
    BY <1>1, PairsCounted, ReadingFinite DEF Left
  <2>7. r.total <= Log!PairsOf(b)
    BY <2>3, <2>5, <2>6
  <2> QED
    BY <2>7 DEF b
<1>3. ASSUME Log!Quiet, ~overlapped, NEW b \in CardBlock
      PROVE  Log!TotalIn(b, blockFile) = Log!PairsOf(b)
  <2>1. Reading(b) = {} /\ \A t \in Thread : doing[t] \notin Rewriting
    BY <1>3 DEF Log!Quiet, Reading, Rewriting
  <2>2. Left(b) = Log!PairsOf(b)
    BY <1>1, <2>1, PairsCounted, FS_EmptySet DEF Left
  <2>3. Log!TotalIn(b, blockFile) = Left(b)
    BY <1>3, <2>1 DEF LogIInv, Exact
  <2> QED
    BY <2>2, <2>3
<1> QED
  BY <1>2, <1>3 DEF Log!BlockTotals

---------------------------------------------------------------------------
(* The whole: each part behaves as it does on its own. *)

LEMMA StepsOfParts ==
  [DashboardsNext]_dashboardsVars =>
    /\ [Next]_vars
    /\ [Dry!Next]_(Dry!vars)
    /\ [Feeds!Next]_(Feeds!vars)
    /\ [Log!Next]_(Log!vars)
    /\ [Server!Next]_(Server!vars)
<1> SUFFICES ASSUME [DashboardsNext]_dashboardsVars
             PROVE  /\ [Next]_vars
                    /\ [Dry!Next]_(Dry!vars)
                    /\ [Feeds!Next]_(Feeds!vars)
                    /\ [Log!Next]_(Log!vars)
                    /\ [Server!Next]_(Server!vars)
  OBVIOUS
<1>1. /\ UNCHANGED dryVars => UNCHANGED Dry!vars
      /\ UNCHANGED feedsVars => UNCHANGED Feeds!vars
      /\ UNCHANGED logVars => UNCHANGED Log!vars
      /\ UNCHANGED serverVars => UNCHANGED Server!vars
  BY DEF dryVars, feedsVars, logVars, serverVars, Dry!vars, Dry!state, Dry!files, Feeds!vars,
         Log!vars, Server!vars
<1> QED
  BY <1>1 DEF DashboardsNext, CoordinatorStep, DryRunStep, FeedsStep, LogStep, ServerStep,
              dashboardsVars

LEMMA PartsBehave ==
  DashboardsSpec => Spec /\ Dry!Spec /\ Feeds!Spec /\ Log!Spec /\ Server!Spec
<1>1. DashboardsInit => Init /\ Dry!Init /\ Feeds!Init /\ Log!Init /\ Server!Init
  BY DEF DashboardsInit
<1> QED
  BY <1>1, StepsOfParts, PTL DEF DashboardsSpec, Spec, Dry!Spec, Feeds!Spec, Log!Spec, Server!Spec

\* Every variable of the parts keeps its type, and no number of a rejected candidate is
\* in the dry run's cards or builds.
THEOREM DashboardsTypes == DashboardsSpec => []DashboardsTypeOK
<1>1. CoordinatorIInv => TypeOK
  BY DEF CoordinatorIInv, CoordinatorShape
<1>2. FeedsIInv => Feeds!TypeOK
  BY DEF FeedsIInv, FeedsShape
<1>3. CoordinatorIInv /\ DryIInv /\ FeedsIInv /\ LogIInv /\ ServerIInv => DashboardsTypeOK
  BY <1>1, <1>2, DryTyped, ServerTyped DEF DashboardsTypeOK, LogIInv
<1> QED
  BY <1>3, PartsBehave, CoordinatorInvariance, DryInvariance, FeedsInvariance, LogInvariance,
     ServerInvariance, PTL

\* C1 is asked with the two rows the summary shows, the cheapest and the dearest of those
\* that count, with an edge between them, whatever the scan found and in which order.
THEOREM IntakeBestPair == DashboardsSpec => []IntakeIsBestPair
<1>1. CoordinatorIInv => IntakeIsBestPair
  BY DEF CoordinatorIInv
<1> QED
  BY <1>1, PartsBehave, CoordinatorInvariance, PTL

\* The output of C1 on the dashboard is for a summary that matches the last one, unless a
\* request was skipped, failed or broke off: in status and venues with any threshold, in
\* the prices as well with a threshold of 0.
THEOREM LayersAlwaysAgree == DashboardsSpec => []LayersAgree
<1> QED
  BY CoordinatorAgrees, PartsBehave, CoordinatorInvariance, PTL

\* However the requests' unlocked stores interleave, what is shown as LIVE or STALE is
\* as recent as the lifetimes of the cache and of the last good states allow.
THEOREM ServedRecently == DashboardsSpec => []ServedIsRecent
<1>1. FeedsIInv => ServedIsRecent
  BY FeedsRecent DEF ServedIsRecent
<1> QED
  BY <1>1, PartsBehave, FeedsInvariance, PTL

\* Whatever the threads of the card logger lose and tear of each other's rewrites, a block
\* is credited with no more cycles than it has pairs, and a logger that one thread at a
\* time has used has credited them all.
THEOREM BlockTotalsHold == DashboardsSpec => []BlockTotals
<1>1. LogIInv => BlockTotals
  BY TotalsHold DEF BlockTotals
<1> QED
  BY <1>1, PartsBehave, LogInvariance, PTL

\* A run the server shows as completed while no runner lives has passed its gate,
\* across restarts of the server beside its runners.
THEOREM CompletedHavePassed == DashboardsSpec => []CompletedPasses
<1>1. ServerIInv => CompletedPasses
  BY DEF ServerIInv, CompletedPasses
<1> QED
  BY <1>1, PartsBehave, ServerInvariance, PTL

\* Whatever raises, the deletions of a reset included, and whenever a run is stopped or
\* begun again: no number is used twice, and while a run is under way or the card file
\* has a line, each pair of the dry run has one card of each strike.
THEOREM PairsHaveBothCards == DashboardsSpec => []PairHasBothCards
<1>1. DryIInv => PairHasBothCards
  BY DryPaired DEF PairHasBothCards
<1> QED
  BY <1>1, PartsBehave, DryInvariance, PTL

\* A step that counts a cycle finds every pair of the cycle's block in the block's row.
THEOREM RowsListAllPairs == DashboardsSpec => RowsListPairs
<1>1. Dry!Spec => [][completed' = completed + 1 =>
        \A p \in Dry!ToSet(pairs) : p.block = cycle.block => p.opp \in blockRows[p.block]]_(Dry!vars)
  BY DryListed, DryInvariance, PTL DEF Dry!Spec
<1> QED
  BY <1>1, PartsBehave, PTL DEF RowsListPairs, Dry!RowsListPairs
================================================================================
