---------------------------- MODULE ContextCache ----------------------------
(***************************************************************************)
(* ContextCache (context_cache.rs): workspace contexts that the daemon's   *)
(* main task looks up without touching the filesystem, refreshed by a      *)
(* fixed pool of threads over a bounded jobs.                             *)
(*                                                                         *)
(* The main task and the workers share one mutex; what each does between   *)
(* taking and releasing it is one step, and so is every operation outside  *)
(* of it.  last_used only orders the entries, so lru holds that order.     *)
(* Aliases are left out: a lookup key is always its own identity.  So is   *)
(* what lookup() returns (a fresh or a stale context, or none), which      *)
(* changes nothing here.                                                   *)
(***************************************************************************)
EXTENDS Integers, Sequences, FiniteSets, FiniteSetsExt, SequencesExt

CONSTANTS Keys,                 \* normalised absolute workspaces
          KeyBytes,             \* length of a key
          SnapshotBytes,        \* sizes a harvested context can have
          Workers,
          CONTEXT_CACHE_MAX_ENTRIES, CONTEXT_CACHE_MAX_BYTES,
          CONTEXT_SNAPSHOT_MAX_BYTES, CONTEXT_REFRESH_QUEUE_CAPACITY,
          CONTEXT_FRESH_TTL, CONTEXT_NEGATIVE_TTL,
          CONTEXT_WORKER_STUCK_AFTER,
          MaxClock,              \* bound: the monotonic clock
          UsizeValues           \* 2^64: values of the queued_keys counter

ASSUME CacheAssumption ==
    /\ KeyBytes \in Nat /\ SnapshotBytes \subseteq Nat
    /\ CONTEXT_CACHE_MAX_ENTRIES \in Nat \ {0}
    /\ KeyBytes + CONTEXT_SNAPSHOT_MAX_BYTES <= CONTEXT_CACHE_MAX_BYTES
    /\ CONTEXT_REFRESH_QUEUE_CAPACITY \in Nat \ {0}
    /\ {CONTEXT_FRESH_TTL, CONTEXT_NEGATIVE_TTL} \subseteq Nat
    /\ UsizeValues > CONTEXT_REFRESH_QUEUE_CAPACITY + Cardinality(Workers)

VARIABLES
    clock,            \* the monotonic clock
    entries,        \* key -> [snapshot, captured_at, bytes]; snapshot FALSE is
                    \* the memory of a failed harvest
    lru,            \* the keys of entries, least recently used first
    cache_bytes,    \* CacheState::bytes
    pending,        \* keys being refreshed
    worker_started, \* when each worker took its job, Idle without one
    jobs,          \* the channel of RefreshJobs
    queued_keys,    \* the exported occupancy of that channel
    look,           \* the lookup in progress: where, which key, at what time
    job             \* where each worker is, with which key

cache == <<entries, lru, cache_bytes>>
cacheVars == <<clock, cache, pending, worker_started, jobs, queued_keys, look, job>>

Idle == -1
NoLook == [at |-> "idle", key |-> "none", time |-> 0]
NoJob == [at |-> "recv", key |-> "none", captured_at |-> 0]

InitCache ==
    /\ clock = 0
    /\ entries = <<>> /\ lru = <<>> /\ cache_bytes = 0
    /\ pending = {} /\ worker_started = [w \in Workers |-> Idle]
    /\ jobs = <<>> /\ queued_keys = 0
    /\ look = NoLook /\ job = [w \in Workers |-> NoJob]

(***************************************************************************)
(* The main task: lookup()                                                 *)
(***************************************************************************)

\* key becomes the most recently used one.
Touched(key) == Append(SelectSeq(lru, LAMBDA k : k # key), key)

\* The cached answer is good enough as it is.
NotNeeded(key, time) ==
    /\ key \in DOMAIN entries
    /\ time - entries[key].captured_at <=
          IF entries[key].snapshot THEN CONTEXT_FRESH_TTL ELSE CONTEXT_NEGATIVE_TTL

\* The cache is read under the lock; a stale or missing context is then
\* scheduled for a refresh, with the time of the lookup.
Lookup(key) ==
    /\ look = NoLook
    /\ lru' = IF key \in DOMAIN entries THEN Touched(key) ELSE lru
    /\ look' = IF NotNeeded(key, clock) THEN NoLook
               ELSE [at |-> "schedule", key |-> key, time |-> clock]
    /\ UNCHANGED <<clock, entries, cache_bytes, pending, worker_started, jobs,
                   queued_keys, job>>

Stuck(w) == /\ worker_started[w] # Idle
            /\ look.time - worker_started[w] > CONTEXT_WORKER_STUCK_AFTER

\* schedule(), under the lock: circuit open, already pending, or claimed.
Claim ==
    /\ look.at = "schedule"
    /\ IF (\A w \in Workers : Stuck(w)) \/ look.key \in pending
       THEN look' = NoLook /\ UNCHANGED pending
       ELSE /\ pending' = pending \cup {look.key}
            /\ look' = [look EXCEPT !.at = "send"]
    /\ UNCHANGED <<clock, cache, worker_started, jobs, queued_keys, job>>

TrySend ==
    /\ look.at = "send"
    /\ IF Len(jobs) < CONTEXT_REFRESH_QUEUE_CAPACITY
       THEN /\ jobs' = Append(jobs, look.key)
            /\ look' = [look EXCEPT !.at = "count"]
       ELSE /\ look' = [look EXCEPT !.at = "full"]
            /\ UNCHANGED jobs
    /\ UNCHANGED <<clock, cache, pending, worker_started, queued_keys, job>>

CountQueued ==
    /\ look.at = "count" /\ look' = NoLook
    /\ queued_keys' = (queued_keys + 1) % UsizeValues
    /\ UNCHANGED <<clock, cache, pending, worker_started, jobs, job>>

\* Mutant: a key that could not be queued stays pending.
QueueFullKeepsPending ==
    /\ look.at = "full" /\ look' = NoLook
    /\ UNCHANGED <<clock, cache, pending, worker_started, jobs, queued_keys, job>>

QueueFull ==
    /\ look.at = "full" /\ look' = NoLook
    /\ pending' = pending \ {look.key}
    /\ UNCHANGED <<clock, cache, worker_started, jobs, queued_keys, job>>

(***************************************************************************)
(* worker_loop()                                                           *)
(***************************************************************************)
Recv(w) ==
    /\ job[w].at = "recv" /\ jobs # <<>>
    /\ job' = [job EXCEPT ![w] = [NoJob EXCEPT !.at = "start", !.key = Head(jobs)]]
    /\ jobs' = Tail(jobs)
    /\ UNCHANGED <<clock, cache, pending, worker_started, queued_keys, look>>

Started(w) ==
    /\ job[w].at = "start" /\ job' = [job EXCEPT ![w].at = "uncount"]
    /\ worker_started' = [worker_started EXCEPT ![w] = clock]
    /\ UNCHANGED <<clock, cache, pending, jobs, queued_keys, look>>

Uncount(w) ==
    /\ job[w].at = "uncount" /\ job' = [job EXCEPT ![w].at = "harvest"]
    /\ queued_keys' = (queued_keys - 1) % UsizeValues
    /\ UNCHANGED <<clock, cache, pending, worker_started, jobs, look>>

\* The filesystem has been read, or could not be.
Harvest(w) ==
    /\ job[w].at = "harvest"
    /\ job' = [job EXCEPT ![w].at = "store", ![w].captured_at = clock]
    /\ UNCHANGED <<clock, cache, pending, worker_started, jobs, queued_keys, look>>

BytesOf(map, S) == FoldSet(LAMBDA k, sum : sum + map[k].bytes, 0, S)

\* evict_to_limits(): least recently used keys go until both limits hold.
Kept(map, order, total) ==
    LET Fits(i) ==
            /\ Len(order) - i <= CONTEXT_CACHE_MAX_ENTRIES
            /\ total - BytesOf(map, {order[j] : j \in 1..i}) <= CONTEXT_CACHE_MAX_BYTES
        gone == CHOOSE i \in 0..Len(order) :
                   Fits(i) /\ \A j \in 0..i - 1 : ~Fits(j)
    IN SubSeq(order, gone + 1, Len(order))

insert_snapshot(key, snapshot, captured_at, snapshot_bytes) ==
    LET entry == [snapshot |-> snapshot, captured_at |-> captured_at,
                  bytes |-> KeyBytes + snapshot_bytes]
        map == [k \in DOMAIN entries \cup {key} |->
                   IF k = key THEN entry ELSE entries[k]]
        total == cache_bytes + entry.bytes
                   - (IF key \in DOMAIN entries THEN entries[key].bytes ELSE 0)
    IN /\ lru' = Kept(map, Touched(key), total)
       /\ entries' = [k \in Range(lru') |-> map[k]]
       /\ cache_bytes' = total - BytesOf(map, DOMAIN map \ Range(lru'))

\* The result is stored under the lock: a context, an oversized context, which
\* leaves the cache as it is, or a failure.
Store(w) ==
    /\ job[w].at = "store" /\ job' = [job EXCEPT ![w] = NoJob]
    /\ worker_started' = [worker_started EXCEPT ![w] = Idle]
    /\ pending' = pending \ {job[w].key}
    /\ \/ \E n \in SnapshotBytes :
             IF n > CONTEXT_SNAPSHOT_MAX_BYTES THEN UNCHANGED cache
             ELSE insert_snapshot(job[w].key, TRUE, job[w].captured_at, n)
       \/ insert_snapshot(job[w].key, FALSE, job[w].captured_at, 0)
    /\ UNCHANGED <<clock, jobs, queued_keys, look>>

CacheTick ==
    /\ clock < MaxClock /\ clock' = clock + 1
    /\ UNCHANGED <<cache, pending, worker_started, jobs, queued_keys, look, job>>

-----------------------------------------------------------------------------
Main == (\E key \in Keys : Lookup(key)) \/ Claim \/ TrySend \/ CountQueued
        \/ QueueFull

Worker(w) == Recv(w) \/ Started(w) \/ Uncount(w) \/ Harvest(w) \/ Store(w)

NextCache == Main \/ (\E w \in Workers : Worker(w)) \/ CacheTick

-----------------------------------------------------------------------------
(* Properties *)

Working(key) == {w \in Workers : job[w].key = key}
Queued(key) == {i \in 1..Len(jobs) : jobs[i] = key}
Sending(key) == {a \in {look.at} : look.key = key /\ a \in {"send", "full"}}

\* One refresh per workspace: a key is pending exactly while one job for it is
\* being sent, waits in the jobs or is with a worker.  A key left behind would
\* never be refreshed again; a second job would do the work twice.
PendingExact ==
    \A key \in Keys :
        Cardinality(Working(key)) + Cardinality(Queued(key))
          + Cardinality(Sending(key)) = IF key \in pending THEN 1 ELSE 0

\* Both limits hold, and the running byte count, which the eviction works from,
\* is the size of what is there, through replacement, failure and eviction.
CacheBounded ==
    /\ Cardinality(DOMAIN entries) <= CONTEXT_CACHE_MAX_ENTRIES
    /\ cache_bytes <= CONTEXT_CACHE_MAX_BYTES
    /\ cache_bytes = BytesOf(entries, DOMAIN entries)
    /\ Range(lru) = DOMAIN entries /\ Len(lru) = Cardinality(DOMAIN entries)

\* The cache is sound at every moment: one refresh per workspace, and both limits
\* kept on exact books.
CacheSound == PendingExact /\ CacheBounded
=============================================================================
