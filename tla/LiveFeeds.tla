-------------------------------- MODULE LiveFeeds -------------------------------
(***************************************************************************)
(* LiveDataFeeds (core/live_data_feeds.py), the one instance that every     *)
(* request of the dashboard application shares (app.py: a thread and an     *)
(* event loop per request).  poll_cached serves the cached snapshot while   *)
(* it is fresh and polls otherwise; a feed that fails is served from its    *)
(* last good state while that is recent enough.  Nothing is locked.  Only   *)
(* the times are kept of what a feed answers.                               *)
(***************************************************************************)
EXTENDS Naturals

CONSTANTS
  Request,   \* the requests under way at a time
  Feed,      \* the feeds, named ones and chains
  FeedTtl,   \* ttl_s
  StaleTtl,  \* _STALE_FALLBACK_TTL_S
  PollTime,  \* the longest a feed takes to answer or to fail
  MaxClock   \* bound on the clock

\* The lifetime of the cache is a positive number of seconds (30 by default).
FeedsAssumption ==
  /\ {FeedTtl, MaxClock} \subseteq Nat \ {0}
  /\ {StaleTtl, PollTime} \subseteq Nat

VARIABLES
  clock,
  stage,     \* where each request is
  began,     \* `now` of each poll_cached that polls
  answer,    \* its feeds' states
  lastGood,  \* _last_good_feed and _last_good_chain: fetched_at, 0 when absent
  cached,    \* {_cached_snapshot}, {} for None
  expires    \* _cache_expires_at

vars == <<clock, stage, began, answer, lastGood, cached, expires>>

\* A feed's state; of an error the time does not matter.
Answers  == [status : {"LIVE", "STALE"}, at : 1..MaxClock]
              \cup [status : {"pending", "FEED_ERROR"}, at : {0}]
Snapshot == [Feed -> Answers]
Pending  == [status |-> "pending", at |-> 0]
Error    == [status |-> "FEED_ERROR", at |-> 0]
Idle     == [f \in Feed |-> Pending]

Init ==
  /\ clock = 1
  /\ stage = [r \in Request |-> "idle"]
  /\ began = [r \in Request |-> 0]
  /\ answer = [r \in Request |-> Idle]
  /\ lastGood = [f \in Feed |-> 0]
  /\ cached = {} /\ expires = 0

Goto(r, s) == stage' = [stage EXCEPT ![r] = s]

\* poll_cached serves the cached snapshot, which changes nothing kept here.
Hit == cached # {} /\ clock < expires

Poll(r) ==
  /\ stage[r] = "idle" /\ ~Hit
  /\ Goto(r, "gather")
  /\ began' = [began EXCEPT ![r] = clock]
  /\ UNCHANGED <<clock, answer, lastGood, cached, expires>>

\* External: the feed answers, or fails, or times out.
Fetch(r, f) ==
  /\ stage[r] = "gather" /\ answer[r][f] = Pending
  /\ \E a \in {[status |-> "LIVE", at |-> clock], Error} :
       answer' = [answer EXCEPT ![r][f] = a]
  /\ UNCHANGED <<clock, stage, began, lastGood, cached, expires>>

\* (A fault: the last good state is served whatever its age.)
RecentAnyAge(f) == lastGood[f] # 0
Recent(f)       == lastGood[f] # 0 /\ clock - lastGood[f] < StaleTtl

\* _apply_stale_fallback and _apply_chain_stale_fallback, once gather is over.  The
\* feeds have separate entries: the order among them does not matter.
Settle(r) ==
  /\ stage[r] = "gather"
  /\ \A f \in Feed : answer[r][f] # Pending
  /\ Goto(r, "settled")
  /\ answer' = [answer EXCEPT ![r] = [f \in Feed |->
       IF @[f] = Error /\ Recent(f) THEN [status |-> "STALE", at |-> lastGood[f]]
       ELSE @[f]]]
  /\ lastGood' = [f \in Feed |->
       IF answer[r][f] = Error THEN lastGood[f] ELSE answer[r][f].at]
  /\ UNCHANGED <<clock, began, cached, expires>>

\* self._cached_snapshot = fresh
Keep(r) ==
  /\ stage[r] = "settled"
  /\ Goto(r, "kept")
  /\ cached' = {answer[r]}
  /\ UNCHANGED <<clock, began, answer, lastGood, expires>>

\* self._cache_expires_at = now + ttl_s, with the `now` of the call.
SetExpiry(r) ==
  /\ stage[r] = "kept"
  /\ Goto(r, "idle")
  /\ expires' = began[r] + FeedTtl
  /\ began' = [began EXCEPT ![r] = 0]
  /\ answer' = [answer EXCEPT ![r] = Idle]
  /\ UNCHANGED <<clock, lastGood, cached>>

\* Time passes while the requests wait for their feeds, which have time-outs;
\* what follows the last answer takes none.
Tick ==
  /\ clock < MaxClock
  /\ \A r \in Request : stage[r] # "idle" =>
       clock < began[r] + PollTime /\ \E f \in Feed : answer[r][f] = Pending
  /\ clock' = clock + 1
  /\ UNCHANGED <<stage, began, answer, lastGood, cached, expires>>

Next ==
  \/ \E r \in Request :
       \/ Poll(r) \/ Settle(r) \/ Keep(r) \/ SetExpiry(r)
       \/ \E f \in Feed : Fetch(r, f)
  \/ Tick

Spec == Init /\ [][Next]_vars

---------------------------------------------------------------------------
TypeOK ==
  /\ clock \in 1..MaxClock
  /\ stage \in [Request -> {"idle", "gather", "settled", "kept"}]
  /\ began \in [Request -> 0..clock]
  /\ answer \in [Request -> Snapshot]
  /\ lastGood \in [Feed -> 0..clock]
  /\ cached \subseteq Snapshot

\* What the dashboard can be shown now: the cached snapshot while it is fresh, and
\* the one that a request has just polled.
Shown == (IF Hit THEN cached ELSE {}) \cup {answer[r] : r \in {q \in Request : stage[q] = "kept"}}

\* Whatever the order in which the unlocked stores of several requests fall, what
\* the dashboard calls LIVE is younger than the cache's lifetime and a poll, and
\* what it calls STALE than the lifetime and the fallback's.
ServedIsRecent ==
  \A s \in Shown, f \in Feed :
    /\ s[f].status = "LIVE"  => clock - s[f].at < FeedTtl + PollTime
    /\ s[f].status = "STALE" => clock - s[f].at < FeedTtl + StaleTtl
================================================================================
