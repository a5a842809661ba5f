----------------------------- MODULE LocalSpool -----------------------------
(***************************************************************************)
(* The local telemetry spool (lib/observability/local-buffer.mjs): several *)
(* processes buffer batches in memory and flush them into one directory,   *)
(* which they keep under a byte limit by expiring and evicting what is     *)
(* there, one writer at a time behind a lock file.  A process may die and  *)
(* start again at any step, and any file operation may fail.               *)
(***************************************************************************)
EXTENDS Naturals, Sequences, FiniteSets, FiniteSetsExt, SequencesExt

CONSTANTS
    Writers,        \* processes with an exporter over the directory
    Batches,        \* batches exported: [size, count] in bytes and records
    MaxBufferBytes, MaxSpoolBytes,
    Retention,      \* retentionMs
    MaxTime, MaxExports, MaxFaults   \* bounds: clock, batches, failures and crashes

ASSUME SpoolAssumption ==
    /\ MaxBufferBytes \in Nat \ {0} /\ MaxSpoolBytes \in Nat \ {0}
    /\ Retention \in Nat \ {0}
    /\ Batches \subseteq [size : Nat \ {0}, count : Nat]

VARIABLES
    now,
    disk,           \* the spool's files: [size, count, at, valid]
    lock,           \* the writer that made .writer-lock, or NoWriter
    w,              \* each exporter: buffer, and where its flush stands
    drops,          \* records each exporter reported as dropped
    exported,       \* records handed to export
    lost,           \* records in the memory of an exporter that died
    faults

spoolVars == <<now, disk, lock, w, drops, exported, lost, faults>>

NoWriter == "none"
NoBatch == [size |-> 0, count |-> 0]

Bytes(s) == FoldLeft(LAMBDA n, b : n + b.size, 0, s)
Counts(s) == FoldLeft(LAMBDA n, b : n + b.count, 0, s)

Fresh(available) ==
    [pc |-> "idle", buffer |-> <<>>, pending |-> <<>>, next |-> NoBatch,
     available |-> available, closed |-> FALSE]

InitSpool ==
    /\ now = 0 /\ disk = <<>> /\ lock = NoWriter
    /\ w \in [Writers -> {Fresh(TRUE), Fresh(FALSE)}]
    /\ drops = [p \in Writers |-> 0]
    /\ exported = 0 /\ lost = 0 /\ faults = 0

-----------------------------------------------------------------------------
(* flushSync.  The buffer becomes the pending list; the batch that did not *)
(* fit waits in `next` until the flush is over.                            *)

Refill(next) == IF next = NoBatch THEN <<>> ELSE <<next>>

\* The lock file exists: everything pending is dropped.
FlushRefused(p, next, closed) ==
    /\ lock # NoWriter
    /\ w' = [w EXCEPT ![p].buffer = Refill(next), ![p].closed = closed]
    /\ drops' = [drops EXCEPT ![p] = @ + Counts(w[p].buffer)]
    /\ UNCHANGED lock

\* The lock file is made; the directory is scanned next.
FlushBegun(p, next, closed) ==
    /\ lock = NoWriter
    /\ lock' = p
    /\ w' = [w EXCEPT ![p].pc = "scan", ![p].pending = w[p].buffer, ![p].buffer = <<>>,
                      ![p].next = next, ![p].closed = closed]
    /\ UNCHANGED drops

FlushSync(p, next, closed) == FlushRefused(p, next, closed) \/ FlushBegun(p, next, closed)

\* The flush is over and its lock file removed, unless that fails.
FlushEnded(p, dropped) ==
    /\ w' = [w EXCEPT ![p].pc = "idle", ![p].pending = <<>>,
                      ![p].buffer = Refill(w[p].next), ![p].next = NoBatch]
    /\ drops' = [drops EXCEPT ![p] = @ + dropped]
    /\ \/ lock' = NoWriter /\ UNCHANGED faults
       \/ faults < MaxFaults /\ faults' = faults + 1 /\ UNCHANGED lock

Expired(f) == f.valid /\ now - f.at >= Retention

\* Expired batches are removed; a file that cannot be read stays.
Scan(p) ==
    /\ w[p].pc = "scan"
    /\ disk' = SelectSeq(disk, LAMBDA f : ~Expired(f))
    /\ drops' = [drops EXCEPT ![p] = @ + Counts(SelectSeq(disk, Expired))]
    /\ w' = [w EXCEPT ![p].pc = "write"]
    /\ UNCHANGED <<now, lock, exported, lost, faults>>

Used == Bytes(disk)

Item(p) == Head(w[p].pending)
Fits(p) == Used + Item(p).size <= MaxSpoolBytes
Oldest == {i \in DOMAIN disk : disk[i].valid /\ \A j \in DOMAIN disk :
                                   disk[j].valid => disk[i].at <= disk[j].at}
Writing(p) == w[p].pc = "write" /\ w[p].pending # <<>>

\* The oldest batch makes room for the next one.
Evict(p) ==
    /\ Writing(p) /\ ~Fits(p)
    /\ \E i \in Oldest :
          /\ disk' = RemoveAt(disk, i)
          /\ drops' = [drops EXCEPT ![p] = @ + disk[i].count]
    /\ UNCHANGED <<now, lock, w, exported, lost, faults>>

\* Nothing is left to evict.
DropItem(p) ==
    /\ Writing(p) /\ ~Fits(p) /\ Oldest = {}
    /\ drops' = [drops EXCEPT ![p] = @ + Item(p).count]
    /\ w' = [w EXCEPT ![p].pending = Tail(@)]
    /\ UNCHANGED <<now, disk, lock, exported, lost, faults>>

File(item, size, valid) ==
    [size |-> size, count |-> IF valid THEN item.count ELSE 0, at |-> now, valid |-> valid]

WriteItem(p) ==
    /\ Writing(p) /\ Fits(p)
    /\ disk' = Append(disk, File(Item(p), Item(p).size, TRUE))
    /\ w' = [w EXCEPT ![p].pending = Tail(@)]
    /\ UNCHANGED <<now, lock, drops, exported, lost, faults>>

FlushDone(p) ==
    /\ w[p].pc = "write" /\ w[p].pending = <<>>
    /\ FlushEnded(p, 0)
    /\ UNCHANGED <<now, disk, exported, lost>>

\* What a write that broke off leaves: nothing, or part of the batch (one that
\* broke off after its last byte counts as done).
Torn(p) ==
    {disk} \cup (IF Writing(p) /\ Fits(p)
                 THEN {Append(disk, File(Item(p), n, FALSE)) : n \in 1 .. Item(p).size - 1}
                 ELSE {})

\* Mutant: the batches written before the failure are reported as dropped too.
UnwrittenAll(p) == Counts(w[p].pending) + Counts(SelectSeq(disk, LAMBDA f : f.at = now))

\* What the failure handler reports: the batches not written yet.
Unwritten(p) == Counts(w[p].pending)

\* A file operation fails: the rest is dropped.
FlushFails(p) ==
    /\ w[p].pc \in {"scan", "write"}
    /\ faults < MaxFaults
    /\ disk' \in Torn(p)
    /\ w' = [w EXCEPT ![p].pc = "idle", ![p].pending = <<>>,
                      ![p].buffer = Refill(w[p].next), ![p].next = NoBatch]
    /\ drops' = [drops EXCEPT ![p] = @ + Unwritten(p)]
    /\ lock' = NoWriter
    /\ faults' = faults + 1
    /\ UNCHANGED <<now, exported, lost>>

-----------------------------------------------------------------------------
(* The exporter.                                                           *)

\* A batch is refused, buffered, or flushed for.
Export(p, batch) ==
    /\ w[p].pc = "idle"
    /\ exported + batch.count <= MaxExports
    /\ exported' = exported + batch.count
    /\ \/ /\ \/ w[p].closed \/ ~w[p].available
             \/ batch.size > MaxBufferBytes \/ batch.size > MaxSpoolBytes
          /\ drops' = [drops EXCEPT ![p] = @ + batch.count]
          /\ UNCHANGED <<w, lock>>
       \/ /\ ~w[p].closed /\ w[p].available
          /\ batch.size <= MaxBufferBytes /\ batch.size <= MaxSpoolBytes
          /\ IF Bytes(w[p].buffer) + batch.size > MaxBufferBytes
             THEN FlushSync(p, batch, FALSE)
             ELSE /\ w' = [w EXCEPT ![p].buffer = Append(@, batch)]
                  /\ UNCHANGED <<drops, lock>>
    /\ UNCHANGED <<now, disk, lost, faults>>

ForceFlush(p) ==
    /\ w[p].pc = "idle" /\ w[p].available /\ w[p].buffer # <<>>
    /\ FlushSync(p, NoBatch, w[p].closed)
    /\ UNCHANGED <<now, disk, exported, lost, faults>>

Shutdown(p) ==
    /\ w[p].pc = "idle" /\ ~w[p].closed
    /\ IF w[p].available THEN FlushSync(p, NoBatch, TRUE)
       ELSE w' = [w EXCEPT ![p].closed = TRUE] /\ UNCHANGED <<drops, lock>>
    /\ UNCHANGED <<now, disk, exported, lost, faults>>

\* The process dies and another takes its place; a lock it held stays.
Crash(p) ==
    /\ faults < MaxFaults /\ faults' = faults + 1
    /\ disk' \in Torn(p)
    /\ lost' = lost + Counts(w[p].buffer \o w[p].pending) + w[p].next.count
    /\ w' = [w EXCEPT ![p] = Fresh(w[p].available)]
    /\ UNCHANGED <<now, lock, drops, exported>>

SpoolTick ==
    /\ now < MaxTime
    /\ now' = now + 1
    /\ UNCHANGED <<disk, lock, w, drops, exported, lost, faults>>

NextSpool ==
    \/ \E p \in Writers :
          \/ \E batch \in Batches : Export(p, batch)
          \/ ForceFlush(p) \/ Shutdown(p) \/ Crash(p)
          \/ Scan(p) \/ Evict(p) \/ DropItem(p) \/ WriteItem(p)
          \/ FlushDone(p) \/ FlushFails(p)
    \/ SpoolTick

-----------------------------------------------------------------------------
\* Every record handed to an exporter is in exactly one place: in memory, in a
\* file that can be read, in the memory of a process that died, or in the count of
\* dropped records some exporter reported; a batch that another process evicts or
\* a failing flush gives up is counted once (export, flushSync).
SpoolConserves ==
    exported = lost + Counts(disk)
        + MapThenSumSet(LAMBDA p : drops[p] + w[p].next.count
                                       + Counts(w[p].buffer \o w[p].pending), Writers)

\* The directory never holds more than the limit, the torn remains of failed writes
\* included, whichever processes write and die (maxSpoolBytes).
SpoolBounded == Bytes(disk) <= MaxSpoolBytes

\* The spool is sound: no record is lost or counted twice without a report, and the
\* directory keeps to its limit.
SpoolSound == SpoolConserves /\ SpoolBounded
=============================================================================
