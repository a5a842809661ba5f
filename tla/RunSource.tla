----------------------------- MODULE RunSource -----------------------------
(***************************************************************************)
(* The durable source of a delivery run: the files the run keeps on the    *)
(* coordination branch, how the two stores (the single-file store and the  *)
(* segmented one) read them back and what one append or a migration        *)
(* writes.  Everything here is a value; the steps are in                   *)
(* JournaledRunStore.                                                      *)
(*                                                                         *)
(* Event ids are fresh UUIDs: a digest of events is modelled by their ids, *)
(* a revision of the run by the id of its last event.                      *)
(***************************************************************************)
EXTENDS RunEvents

CONSTANT SegmentSize     \* events in the tail that seal a segment

ASSUME SegmentSizeAssumption == SegmentSize \in Nat \ {0}

-----------------------------------------------------------------------------
(* The files of the run.  legacy is runs/<id>.json: absent, an array of    *)
(* events, or the marker that makes old binaries fail closed.              *)

NoManifest == [present |-> FALSE, segs |-> <<>>, tailCount |-> 0, snap |-> <<>>]

EmptyTree ==
  [legacy   |-> [kind |-> "none", events |-> <<>>],
   manifest |-> NoManifest,
   segFiles |-> <<>>,
   snapFile |-> <<>>,
   tail     |-> <<>>]

Marker == [kind |-> "marker", events |-> <<>>]

Failed == [ok |-> FALSE, events |-> <<>>]

\* The single-file store: the marker is not an array and reduceRun throws.
ReadV1(t) ==
  IF t.legacy.kind = "marker" \/ ~ValidRun(t.legacy.events) THEN Failed
  ELSE [ok |-> TRUE, events |-> t.legacy.events]

\* One segment against its descriptor and the segment before it.
SegmentVerified(t, i) ==
  LET d == t.manifest.segs[i] IN
  /\ i \in DOMAIN t.segFiles
  /\ d.digest = Ids(t.segFiles[i])
  /\ d.count = Len(t.segFiles[i])
  /\ d.count >= 1
  /\ d.parent = (IF i = 1 THEN <<>> ELSE t.manifest.segs[i - 1].digest)
  /\ d.start = (IF i = 1 THEN NoRevision ELSE t.manifest.segs[i - 1].end)
  /\ d.end = Last(t.segFiles[i]).id

Sealed(t) == FlattenSeq([i \in DOMAIN t.manifest.segs |-> t.segFiles[i]])

\* The snapshot stands for the state after exactly the sealed events.
SnapshotVerified(t, events) ==
  IF t.manifest.segs = <<>> THEN t.manifest.snap = <<>>
  ELSE /\ t.manifest.snap # <<>>
       /\ t.snapFile = t.manifest.snap
       /\ LET s == t.snapFile[1] IN
            /\ s.count = Len(Sealed(t))
            /\ s.count <= Len(events)
            /\ s.state = Ids(SubSeq(events, 1, s.count))
            /\ s.revision = Revision(SubSeq(events, 1, s.count))

\* The segmented store: manifest, segments, tail and snapshot must agree;
\* without a manifest it reads the single file.
ReadV2(t) ==
  IF ~t.manifest.present THEN ReadV1(t)
  ELSE IF \A i \in DOMAIN t.manifest.segs : SegmentVerified(t, i)
       THEN LET events == Sealed(t) \o t.tail IN
            IF /\ Len(t.tail) = t.manifest.tailCount
               /\ ValidRun(events)
               /\ SnapshotVerified(t, events)
            THEN [ok |-> TRUE, events |-> events]
            ELSE Failed
       ELSE Failed

ReadAs(fmt, t) == IF fmt = 1 THEN ReadV1(t) ELSE ReadV2(t)

-----------------------------------------------------------------------------
(* What an append and a migration commit.                                  *)

AppendV1(t, e) ==
  [t EXCEPT !.legacy = [kind |-> "events", events |-> Append(@.events, e)]]

Descriptor(segs, chunk) ==
  [digest |-> Ids(chunk),
   count  |-> Len(chunk),
   parent |-> IF segs = <<>> THEN <<>> ELSE Last(segs).digest,
   start  |-> IF segs = <<>> THEN NoRevision ELSE Last(segs).end,
   end    |-> Last(chunk).id]

Snapshot(events) ==
  <<[revision |-> Revision(events), count |-> Len(events), state |-> Ids(events)]>>

\* Mutant: the snapshot is taken of the events before the append.
SealTailShort(t, segs, tail, all) ==
  [legacy   |-> Marker,
   manifest |-> [present |-> TRUE, segs |-> Append(segs, Descriptor(segs, tail)),
                 tailCount |-> 0, snap |-> Snapshot(Front(all))],
   segFiles |-> Append(SubSeq(t.segFiles, 1, Len(segs)), tail),
   snapFile |-> Snapshot(Front(all)),
   tail     |-> <<>>]

\* The tail reached the segment boundary: it becomes an immutable segment,
\* the snapshot is taken and the tail is emptied.
SealTail(t, segs, tail, all) ==
  [legacy   |-> Marker,
   manifest |-> [present |-> TRUE, segs |-> Append(segs, Descriptor(segs, tail)),
                 tailCount |-> 0, snap |-> Snapshot(all)],
   segFiles |-> Append(SubSeq(t.segFiles, 1, Len(segs)), tail),
   snapFile |-> Snapshot(all),
   tail     |-> <<>>]

WriteTail(t, segs, tail) ==
  [t EXCEPT !.legacy = Marker,
            !.manifest = [present |-> TRUE, segs |-> segs,
                          tailCount |-> Len(tail), snap |-> @.snap],
            !.tail = tail]

\* big: the tail reached the byte limit before it reached SegmentSize.
AppendV2(t, e, big) ==
  LET all  == Append(ReadV2(t).events, e)
      segs == t.manifest.segs
      tail == SubSeq(all, Len(Sealed(t)) + 1, Len(all))
  IN  IF Len(tail) >= SegmentSize \/ big
      THEN SealTail(t, segs, tail, all)
      ELSE WriteTail(t, segs, tail)

AppendAs(fmt, t, e, big) == IF fmt = 1 THEN AppendV1(t, e) ELSE AppendV2(t, e, big)

\* Cut a history into chunks of SegmentSize.
Chunks(events) ==
  [i \in 1..((Len(events) + SegmentSize - 1) \div SegmentSize) |->
     SubSeq(events, (i - 1) * SegmentSize + 1,
            IF i * SegmentSize < Len(events) THEN i * SegmentSize ELSE Len(events))]

\* previewMigration refuses a run that is migrated or not there.
MigrationAdmitted(t) ==
  /\ ~t.manifest.present
  /\ t.legacy.kind = "events"
  /\ t.legacy.events # <<>>
  /\ ValidRun(t.legacy.events)

Migrated(t) ==
  LET events == t.legacy.events
      cs     == Chunks(events)
      before(i) == FlattenSeq(SubSeq(cs, 1, i - 1))
  IN  [legacy   |-> Marker,
       manifest |-> [present |-> TRUE,
                     segs |-> [i \in DOMAIN cs |->
                       [digest |-> Ids(cs[i]), count |-> Len(cs[i]),
                        parent |-> IF i = 1 THEN <<>> ELSE Ids(cs[i - 1]),
                        start  |-> Revision(before(i)),
                        end    |-> Last(cs[i]).id]],
                     tailCount |-> 0, snap |-> Snapshot(events)],
       segFiles |-> cs,
       snapFile |-> Snapshot(events),
       tail     |-> <<>>]
=============================================================================
