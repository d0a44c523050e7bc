---------------------------- MODULE SingleFlight ----------------------------
(***************************************************************************)
(* Concurrent calls of getOrFetch and a purge of the daily endpoints        *)
(* (apps/worker/src/cache/cache.ts) for one endpoint and parameter key; the *)
(* keys share nothing.  Each awaited Redis command or fetch is one action.  *)
(* A command that throws may or may not have been carried out by Redis.     *)
(*                                                                         *)
(* A response is the version of the upstream's data that was current when   *)
(* the upstream answered.  The lease's value in Redis is always "1"; the    *)
(* model stores the caller that set it, which no action of the code reads.  *)
(* A cache hit returns at once and changes nothing.                         *)
(***************************************************************************)
EXTENDS Integers

CONSTANTS Callers,     \* calls of getOrFetch, in one or several processes
          Free,        \* no lease
          Cached,      \* ttlSeconds > 0
          MaxPolls,    \* polls within leaseWaitMs
          MaxVersion   \* bound of the model: versions the upstream publishes

ASSUME SingleFlightAssumption ==
  /\ Free \notin Callers
  /\ Cached \in BOOLEAN
  /\ MaxPolls \in Nat
  /\ MaxVersion \in Nat \ {0}

VARIABLES cache,      \* idx:cache:*, a version or None
          stale,      \* idx:cache:stale:*
          lease,      \* idx:lease:*
          pc,         \* next command of each call, "idle" when there is no call
          val,        \* the leader's response, None until it has one
          polls,      \* polls a follower has left
          purging,    \* a purge has scanned the key and not yet deleted it
          published,  \* environment: current version of the upstream's data
          overrun,    \* history: a leader outlived its lease, and leaders remain
          floor       \* history: version current at the last purge with none older in flight

redis == <<cache, stale, lease>>
calls == <<pc, val, polls>>
ghost == <<overrun, floor>>
vars  == <<redis, calls, purging, published, ghost>>

None == 0

Init ==
  /\ cache = None /\ stale = None /\ lease = Free
  /\ pc = [c \in Callers |-> "idle"]
  /\ val = [c \in Callers |-> None]
  /\ polls = [c \in Callers |-> 0]
  /\ purging = FALSE
  /\ published = 1
  /\ overrun = FALSE /\ floor = None

LeaderSteps == {"fetch", "setCache", "setStale", "getStale", "release"}

Leading(c) == pc[c] \in LeaderSteps
Leaders    == {c \in Callers : Leading(c)}

\* A leader whose response is already older than the upstream's data.
OldInFlight == \E c \in Callers : pc[c] = "setCache" /\ val[c] < published

Goto(c, step) == pc' = [pc EXCEPT ![c] = step]

\* The call returns, throws or dies: nothing of it remains in the process.
Leave(c) ==
  /\ Goto(c, "idle")
  /\ val' = [val EXCEPT ![c] = None]
  /\ polls' = [polls EXCEPT ![c] = 0]
  /\ overrun' = (overrun /\ Leaders \ {c} # {})
  /\ UNCHANGED floor

-----------------------------------------------------------------------------
(* The leader.                                                             *)

Hit == Cached /\ cache # None

\* GET cache finds nothing (or is not tried).
Miss(c) ==
  /\ pc[c] = "idle" /\ ~Hit
  /\ Goto(c, "lease")
  /\ UNCHANGED <<redis, val, polls, purging, published, ghost>>

\* MUTANT: the lease is set without NX.
MutAcquire(c) ==
  /\ pc[c] = "lease"
  /\ lease' = c /\ Goto(c, "fetch")
  /\ UNCHANGED <<cache, stale, val, polls, purging, published, overrun, floor>>

\* SET lease NX: one call leads, the others follow; the command may throw.
Acquire(c) ==
  /\ pc[c] = "lease"
  /\ \/ /\ lease = Free
        /\ lease' = c /\ Goto(c, "fetch")
        /\ UNCHANGED <<val, polls, overrun, floor>>
     \/ /\ lease # Free
        /\ Goto(c, "poll")
        /\ polls' = [polls EXCEPT ![c] = MaxPolls]
        /\ UNCHANGED <<lease, val, ghost>>
     \/ /\ lease' \in {lease, IF lease = Free THEN c ELSE lease}
        /\ Leave(c)
  /\ UNCHANGED <<cache, stale, purging, published>>

\* The upstream answers the leader with the data of this moment.
Answer(c) ==
  /\ pc[c] = "fetch"
  /\ val' = [val EXCEPT ![c] = published]
  /\ Goto(c, IF Cached THEN "setCache" ELSE "release")
  /\ UNCHANGED <<redis, polls, purging, published, ghost>>

FetchFails(c) ==
  /\ pc[c] = "fetch"
  /\ Goto(c, "getStale")
  /\ UNCHANGED <<redis, val, polls, purging, published, ghost>>

SetCache(c) ==
  /\ pc[c] = "setCache"
  /\ \/ cache' = val[c] /\ Goto(c, "setStale")
     \/ cache' \in {cache, val[c]} /\ Goto(c, "getStale")
  /\ UNCHANGED <<stale, lease, val, polls, purging, published, ghost>>

SetStale(c) ==
  /\ pc[c] = "setStale"
  /\ \/ stale' = val[c] /\ Goto(c, "release")
     \/ stale' \in {stale, val[c]} /\ Goto(c, "getStale")
  /\ UNCHANGED <<cache, lease, val, polls, purging, published, ghost>>

\* MUTANT: the stale copy is put back into the main entry.
MutGetStale(c) ==
  /\ pc[c] = "getStale"
  /\ cache' = stale
  /\ Goto(c, "release")
  /\ UNCHANGED <<stale, lease, val, polls, purging, published, ghost>>

\* The degraded answer (stale: true), or the error when there is no stale copy.
GetStale(c) ==
  /\ pc[c] = "getStale"
  /\ Goto(c, "release")
  /\ UNCHANGED <<redis, val, polls, purging, published, ghost>>

\* DEL lease, whoever set it.
Release(c) ==
  /\ pc[c] = "release"
  /\ lease' \in {Free, lease}
  /\ Leave(c)
  /\ UNCHANGED <<cache, stale, purging, published>>

-----------------------------------------------------------------------------
(* The followers.                                                          *)

\* MUTANT: the deadline moves with every poll.
MutUsedPolls(c) == polls[c]

\* MUTANT: two polls are charged for one.
MutUsedPollsTwice(c) == polls[c] - 2

UsedPolls(c) == polls[c] - 1

\* The deadline has passed, or a sleep and a GET cache; a hit returns.
PollCache(c) ==
  /\ pc[c] = "poll"
  /\ \/ /\ polls[c] = 0
        /\ Goto(c, "direct")
        /\ UNCHANGED <<val, polls, ghost>>
     \/ /\ polls[c] > 0 /\ ~Hit
        /\ Goto(c, "pollLease")
        /\ polls' = [polls EXCEPT ![c] = UsedPolls(c)]
        /\ UNCHANGED <<val, ghost>>
     \/ /\ polls[c] > 0 /\ Hit
        /\ Leave(c)
  /\ UNCHANGED <<redis, purging, published>>

\* GET lease.
PollLease(c) ==
  /\ pc[c] = "pollLease"
  /\ Goto(c, IF lease = Free THEN "direct" ELSE "poll")
  /\ UNCHANGED <<redis, val, polls, purging, published, ghost>>

\* MUTANT: a direct fetch also fills the cache.
MutDirect(c) ==
  /\ pc[c] = "direct"
  /\ cache' \in 1 .. published
  /\ Leave(c)
  /\ UNCHANGED <<stale, lease, purging, published>>

\* The follower's own fetch; its response or error is returned and not cached.
Direct(c) ==
  /\ pc[c] = "direct"
  /\ Leave(c)
  /\ UNCHANGED <<redis, purging, published>>

\* A Redis error of a follower, or the end of the process that runs the call.
Abandon(c) ==
  /\ pc[c] # "idle"
  /\ Leave(c)
  /\ UNCHANGED <<redis, purging, published>>

-----------------------------------------------------------------------------
(* The purge, the expiries and the upstream.                               *)

Purged == floor' = IF OldInFlight THEN floor ELSE published

\* SCAN: a key that is not there needs no DEL.
PurgeScan ==
  /\ ~purging
  /\ purging' = (cache # None)
  /\ IF cache = None THEN Purged ELSE UNCHANGED floor
  /\ UNCHANGED <<redis, calls, published, overrun>>

PurgeDelete ==
  /\ purging
  /\ cache' = None /\ purging' = FALSE
  /\ Purged
  /\ UNCHANGED <<stale, lease, calls, published, overrun>>

ExpireLease ==
  /\ lease # Free
  /\ lease' = Free
  /\ overrun' = (overrun \/ lease \in Leaders)
  /\ UNCHANGED <<cache, stale, calls, purging, published, floor>>

ExpireEntry ==
  /\ \/ cache # None /\ cache' = None /\ UNCHANGED stale
     \/ stale # None /\ stale' = None /\ UNCHANGED cache
  /\ UNCHANGED <<lease, calls, purging, published, ghost>>

Publish ==
  /\ published < MaxVersion
  /\ published' = published + 1
  /\ UNCHANGED <<redis, calls, purging, ghost>>

Lead(c)   == Answer(c) \/ FetchFails(c) \/ SetCache(c) \/ SetStale(c) \/ GetStale(c) \/ Release(c)
Follow(c) == PollCache(c) \/ PollLease(c) \/ Direct(c)

Next ==
  \/ \E c \in Callers : Miss(c) \/ Acquire(c) \/ Lead(c) \/ Follow(c) \/ Abandon(c)
  \/ PurgeScan \/ PurgeDelete \/ ExpireLease \/ ExpireEntry \/ Publish

\* Followers run on; no fetch need ever settle and no lease need ever expire.
Fairness == \A c \in Callers : WF_vars(PollCache(c)) /\ WF_vars(PollLease(c))

Spec     == Init /\ [][Next]_vars
FairSpec == Spec /\ Fairness

-----------------------------------------------------------------------------
(* Properties.                                                             *)

Versions == 0 .. MaxVersion

\* Shape of the state.
TypeOK ==
  /\ cache \in Versions /\ stale \in Versions
  /\ lease \in Callers \cup {Free}
  /\ pc \in [Callers -> LeaderSteps \cup {"idle", "lease", "poll", "pollLease", "direct"}]
  /\ val \in [Callers -> Versions]
  /\ polls \in [Callers -> 0 .. MaxPolls]
  /\ purging \in BOOLEAN
  /\ published \in 1 .. MaxVersion
  /\ overrun \in BOOLEAN /\ floor \in Versions

\* As long as no leader outlives its lease, at most one call is between its SET NX
\* and its DEL, and the lease is that call's own: crashes, expiries after a crash
\* and commands whose reply is lost never let a second leader in.
OneLeader == ~overrun => \A c \in Leaders : lease = c

\* As long as no leader outlives its lease, neither the entry nor the stale copy is
\* ever replaced by an older response.
NoRegression ==
  [][~overrun =>
       /\ cache' # None => cache' >= cache
       /\ stale' # None => stale' >= stale]_vars

\* After a purge no caller can hit data older than what the upstream had then,
\* unless a leader already held an older response when the key was deleted.
NothingOlderThanPurge == cache # None => cache >= floor

\* A follower always stops polling, even behind a fetch that never settles and a
\* succession of other leaders (cache.ts:20-21: an indefinite stall).
NoStall == \A c \in Callers : pc[c] = "poll" ~> pc[c] \notin {"poll", "pollLease"}

=============================================================================
