--------------------------- MODULE SnapshotArchive ---------------------------
(***************************************************************************)
(* The Aeron archive as the service uses it to keep its snapshots.  It is  *)
(* not part of this repository.                                            *)
(*                                                                         *)
(* A snapshot is written to a publication; the archive records it behind   *)
(* the writer and exposes how far it got in a recording-position counter.  *)
(* What is not recorded when the node stops is lost.                       *)
(***************************************************************************)
EXTENDS ClusterLog

CONSTANT RecordingMayStop   \* whether the archive may abandon a recording

ASSUME SnapshotArchiveAssumption == RecordingMayStop \in BOOLEAN

VARIABLE recordings     \* recording r is recordings[r]

\* The fragments of a snapshot: the markers and the sessions ServiceSnapshotTaker
\* writes, and what the service writes in onTakeSnapshot.
Markers == [type : {"BEGIN", "END"}, logPosition : Nat, term : Nat \cup {NullValue}]
SessionRecords == [type : {"SESSION"}, session : Sessions]
ServiceRecords == [type : {"SERVICE"}, state : Seq(Seq(Entries))]
Fragments == Markers \cup SessionRecords \cup ServiceRecords

\* published: the fragments the publication accepted; recorded: how many of them
\* the archive has written; active: whether the recording still goes on.
RecordingStates == [published : Seq(Fragments), recorded : Nat, active : BOOLEAN]

ArchiveTypeOK == recordings \in Seq(RecordingStates)

ArchiveInit == recordings = <<>>

NewRecording == [published |-> <<>>, recorded |-> 0, active |-> TRUE]

Publish(r, fragments) ==
    [recordings EXCEPT ![r].published = @ \o fragments]

\* What a replay of a recording delivers.
Replayed(r) == SubSeq(recordings[r].published, 1, recordings[r].recorded)

\* The recording-position counter.  The counter of a recording that stopped is
\* free: its value may be that of whatever the driver used it for next.
CounterValues(r) ==
    IF recordings[r].active
    THEN {recordings[r].recorded}
    ELSE {recordings[r].recorded, Len(recordings[r].published)}

Record(r) ==
    /\ recordings[r].active
    /\ recordings[r].recorded < Len(recordings[r].published)
    /\ recordings' = [recordings EXCEPT ![r].recorded = @ + 1]

StopRecording(r) ==
    /\ RecordingMayStop
    /\ recordings[r].active
    /\ recordings' = [recordings EXCEPT ![r].active = FALSE]

\* The writer is gone: the recordings end where the archive got to.
ArchiveRestart ==
    recordings' = [r \in DOMAIN recordings |->
        [recordings[r] EXCEPT !.published = Replayed(r), !.active = FALSE]]

ArchiveNext == \E r \in DOMAIN recordings : Record(r) \/ StopRecording(r)
=============================================================================
