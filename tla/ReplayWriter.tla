---------------------------- MODULE ReplayWriter ----------------------------
(***************************************************************************)
(* One recording directory of src/src/replay/writer.rs, and the writers    *)
(* that work in it one after another: the lease they take turns by, the    *)
(* sweep and the choice of the resume id, the writer that fills segments   *)
(* in .tmp/ and indexes them, the closer that renames them into place, and *)
(* crashes of the process between any two durable steps.                   *)
(*                                                                         *)
(* A segment is its id, which its file and its index entries carry, and    *)
(* its take, which tells one opening of an id from another.  A chunk of    *)
(* the feed is one step of write_chunk.                                    *)
(***************************************************************************)
EXTENDS Integers, Sequences, FiniteSetsExt, SequencesExt

CONSTANTS
    Writers,        \* the n-th writer of each flow that records here, <<flow, n>>
    PendingCloses,  \* MAX_PENDING_CLOSES
    Troubles,       \* what may go wrong: a crash, and disk operations that fail
    MaxTroubles,    \* bound: how much of it in a behaviour
    MaxEvents       \* bound: chunks of the feed and Start commands

ASSUME ReplayAssumption ==
    /\ \A w \in Writers : w = <<w[1], w[2]>> /\ w[2] \in Nat \ {0}
    /\ PendingCloses \in Nat \ {0}
    /\ MaxTroubles \in Nat /\ MaxEvents \in Nat
    /\ Troubles \subseteq {"crash", "load", "read", "resume", "open", "write", "append",
                            "close", "meta"}

VARIABLES
    placed,         \* the segments NNNNNN.ts in the directory
    staging,        \* the segments in .tmp/
    recording_json, \* its current_segment_id, 0 when there is no file
    index,          \* the entries of index.bin
    synced,         \* how many of them are known to be on disk
    phase,          \* what each writer is doing
    stopping,       \* the writers at work whose flow's token is cancelled
    lease,          \* the writer that holds the directory
    st,             \* the WriterState and the Closer of each writer
    opened, landed, \* history: segments opened, and renamed into place
    hit,            \* history: segments a crash or a failed close cost
    stretch,        \* history: unbroken stretches of the recording
    struck,         \* history: the troubles so far
    events          \* chunks and Start commands so far

disk  == <<placed, staging, recording_json, index, synced>>
procs == <<phase, stopping, lease, st>>
past  == <<opened, landed, hit, stretch, struck, events>>
vars  == <<disk, procs, past>>

Nobody  == <<>>
FlowOf(w) == w[1]

NoResume == -1
NewState == [current |-> {}, id |-> 0, started |-> FALSE, retry |-> FALSE,
             armed |-> TRUE, pts |-> 0, resume |-> NoResume, disc |-> FALSE,
             jobs |-> <<>>, step |-> "recv", job |-> <<>>]

Init ==
    /\ placed = {} /\ staging = {} /\ recording_json = 0
    /\ index = <<>> /\ synced = 0
    /\ phase = [w \in Writers |-> "none"]
    /\ stopping = {} /\ lease = Nobody
    /\ st = [w \in Writers |-> NewState]
    /\ opened = {} /\ landed = {} /\ hit = {} /\ stretch = 0
    /\ struck = <<>> /\ events = 0

(* Something goes wrong, as long as the bound allows.                      *)
Fails(kind) == /\ kind \in Troubles
               /\ Len(struck) < MaxTroubles
               /\ struck' = Append(struck, kind)

(* The recording breaks off: the next entry begins another stretch.        *)
NextStretch ==
    IF index # <<>> /\ Last(index).stretch = stretch THEN stretch + 1 ELSE stretch

----------------------------------------------------------------------------
(* The lease.                                                              *)

(* The directory is free for another writer.                               *)
LeaseFree == lease = Nobody

(* A flow starts its recorder, which takes the directory if it is free and *)
(* otherwise waits for it: spawn_writer_at, RecordingLease::try_take.      *)
Spawn(w) ==
    /\ phase[w] = "none"
    /\ \A v \in Writers : v[1] = w[1] /\ v[2] < w[2] =>
           phase[v] = "gone" \/ v \in stopping
    /\ IF LeaseFree
       THEN lease' = w /\ phase' = [phase EXCEPT ![w] = "sweep"]
       ELSE phase' = [phase EXCEPT ![w] = "wait"] /\ UNCHANGED lease
    /\ UNCHANGED <<disk, past, stopping, st>>

(* take_after: the directory has been let go.                              *)
TakeAfter(w) ==
    /\ phase[w] = "wait" /\ LeaseFree
    /\ lease' = w
    /\ phase' = [phase EXCEPT ![w] = "sweep"]
    /\ UNCHANGED <<disk, past, stopping, st>>

(* take_after: this flow stops first.                                      *)
GiveUp(w) ==
    /\ phase[w] = "wait" /\ w \in stopping
    /\ phase' = [phase EXCEPT ![w] = "gone"]
    /\ stopping' = stopping \ {w}
    /\ UNCHANGED <<disk, past, lease, st>>

(* A mutation of the next: nobody is ever refused.                         *)
HeldByNobodyElse(w) == FALSE

(* Held::ByFlow: another flow's writer holds it, and that flow runs.       *)
HeldByFlow(w) ==
    /\ lease # Nobody
    /\ FlowOf(lease) # FlowOf(w)
    /\ lease \notin stopping

(* take_after: it is still running when the grace has passed.              *)
Refuse(w) ==
    /\ phase[w] = "wait" /\ HeldByFlow(w)
    /\ phase' = [phase EXCEPT ![w] = "gone"]
    /\ UNCHANGED <<disk, past, stopping, lease, st>>

(* The flow stops: its token is cancelled, and it waits ten seconds at     *)
(* most for the recorder.                                                  *)
StopFlow(w) ==
    /\ phase[w] \notin {"none", "gone"} /\ w \notin stopping
    /\ stopping' = stopping \cup {w}
    /\ UNCHANGED <<disk, past, phase, lease, st>>

----------------------------------------------------------------------------
(* Opening the recording.                                                  *)

(* recover_tmp_orphans: whatever is in .tmp/ is a crash's leftover.        *)
Sweep(w) ==
    /\ phase[w] = "sweep"
    /\ staging' = {}
    /\ phase' = [phase EXCEPT ![w] = "open"]
    /\ UNCHANGED <<placed, recording_json, index, synced, stopping, lease, st, past>>

Ids(segments) == {s.id : s \in segments}

(* The resume id: not below what recording.json has, and past every id in  *)
(* use.                                                                    *)
ResumePast(meta, used) == Max({meta} \cup {i + 1 : i \in used})

(* Mutations of it: the index not asked; recording.json taken for the last *)
(* id in use rather than the next.                                         *)
ResumeUnindexed == ResumePast(recording_json, Ids(placed))
ResumePastMeta ==
    IF recording_json = 0 THEN 0 ELSE Max({recording_json + 1} \cup Ids(placed))

(* The ids the directory or the index names.                               *)
UsedIds  == Ids(placed) \cup Ids(Range(index))
ResumeId == ResumePast(recording_json, UsedIds)

(* open_writer: the state a writer starts with.  The counter resumes one   *)
(* tick past the last entry, whose gap the first PCR will date.            *)
OpenedState(id) ==
    IF index = <<>>
    THEN [NewState EXCEPT !.id = id]
    ELSE [NewState EXCEPT !.id = id, !.disc = TRUE,
                          !.pts = Last(index).pts + 1,
                          !.resume = Last(index).pts]

OpenAs(w, s) ==
    /\ phase[w] = "open"
    /\ recording_json' = s.id
    /\ st' = [st EXCEPT ![w] = s]
    /\ stretch' = NextStretch
    /\ phase' = [phase EXCEPT ![w] = "up"]
    /\ UNCHANGED <<placed, staging, index, synced, stopping, lease,
                   opened, landed, hit, events>>

OpenWriter(w) == OpenAs(w, OpenedState(ResumeId)) /\ UNCHANGED struck

(* index.bin cannot be read: it counts as empty, so its ids do not bound   *)
(* the resume id, the counter starts again and no gap is noticed.          *)
OpenWriterUnindexed(w) ==
    /\ Fails("load")
    /\ OpenAs(w, [NewState EXCEPT !.id = ResumePast(recording_json, Ids(placed))])

(* recording.json cannot be read: the directory and the index bound the id.*)
OpenWriterUnread(w) ==
    /\ Fails("read")
    /\ OpenAs(w, OpenedState(ResumePast(0, UsedIds)))

(* The setup fails, before recording.json is rewritten or after it, when   *)
(* the clips or index.bin cannot be opened: the lease is dropped.          *)
OpenWriterFails(w) ==
    /\ phase[w] = "open" /\ Fails("resume")
    /\ recording_json' \in {recording_json, ResumePast(recording_json, Ids(placed)), ResumeId}
    /\ lease' = Nobody
    /\ phase' = [phase EXCEPT ![w] = "gone"]
    /\ stopping' = stopping \ {w}
    /\ UNCHANGED <<placed, staging, index, synced, st, opened, landed, hit, stretch, events>>

----------------------------------------------------------------------------
(* The writer.                                                             *)

(* The writer is back in its loop, not waiting to hand over a segment.     *)
Ready(w) == phase[w] = "up" /\ Len(st[w].jobs) <= PendingCloses

(* The channel to the closer has room for what closing would hand over.    *)
Room(s) == s.current = {} \/ Len(s.jobs) < PendingCloses

SegmentJob(seg) == [seg |-> {seg}, meta |-> seg.id + 1]
MetaJob(id)     == [seg |-> {}, meta |-> id]

(* close_current: the open segment, if any, goes to the closer and the id  *)
(* moves past it.                                                          *)
CloseCurrent(s) ==
    IF s.current = {} THEN s
    ELSE LET seg == CHOOSE seg \in s.current : TRUE
         IN [s EXCEPT !.current = {}, !.id = seg.id + 1,
                      !.jobs = Append(@, SegmentJob(seg))]

(* roll_segment, with the segment it opens.                                *)
NewSegment(s) == [id |-> CloseCurrent(s).id, take |-> Cardinality(opened) + 1]
Rolled(s) == [CloseCurrent(s) EXCEPT !.current = {NewSegment(s)},
                                     !.started = TRUE, !.retry = FALSE]

(* Its staging file, made or truncated.                                    *)
Staged(s) == {seg \in staging : seg.id # NewSegment(s).id} \cup {NewSegment(s)}

(* A segment is due at once when none was started, otherwise in time;      *)
(* after a failed open only once the retry is due.                         *)
NotDue(s) == s.started \/ s.retry

(* observe_packet's clock: a PCR moves the counter on or, when it is the   *)
(* first after a gap, past the last tick before it.                        *)
Clocked(s) ==
    [s EXCEPT !.pts = IF s.resume = NoResume THEN @ + 1 ELSE Max({@, s.resume + 1}),
              !.resume = NoResume]

Entry(s) == LET seg == CHOOSE seg \in s.current : TRUE
            IN [id |-> seg.id, take |-> seg.take, pts |-> s.pts,
                stretch |-> stretch, disc |-> s.disc]

(* persist_meta: recording.json as it stands goes to a closer with room,   *)
(* when the clock anchor or its second sample was taken.                   *)
Persisted(s) ==
    {s} \cup (IF Len(s.jobs) < PendingCloses
              THEN {[s EXCEPT !.jobs = Append(@, MetaJob(s.id))]} ELSE {})

Running(w) == Ready(w) /\ st[w].armed /\ events < MaxEvents

(* write_chunk: the chunk goes into a segment, new or open.                *)
Observed(w, roll) == Clocked(IF roll THEN Rolled(st[w]) ELSE st[w])

Chunk(w, roll) ==
    /\ Running(w)
    /\ events' = events + 1
    /\ IF roll
       THEN /\ Room(st[w])
            /\ opened' = opened \cup {NewSegment(st[w])}
            /\ staging' = Staged(st[w])
       ELSE /\ NotDue(st[w]) /\ st[w].current # {}
            /\ UNCHANGED <<opened, staging>>

(* It has no random-access point.                                          *)
WritePlain(w) == \E roll \in BOOLEAN :
    /\ Chunk(w, roll)
    /\ st' = [st EXCEPT ![w] = Observed(w, roll)]
    /\ UNCHANGED <<placed, recording_json, index, synced, phase, stopping, lease,
                   landed, hit, stretch, struck>>

(* It has one, which is indexed.                                           *)
WriteIndexed(w) == \E roll \in BOOLEAN :
    /\ Chunk(w, roll)
    /\ index' = Append(index, Entry(Observed(w, roll)))
    /\ \E s \in Persisted([Observed(w, roll) EXCEPT !.disc = FALSE]) :
           st' = [st EXCEPT ![w] = s]
    /\ UNCHANGED <<placed, recording_json, synced, phase, stopping, lease,
                   landed, hit, stretch, struck>>

(* It has one, whose append fails; the writer carries on.                  *)
WriteUnindexed(w) == \E roll \in BOOLEAN :
    /\ Chunk(w, roll)
    /\ Fails("append")
    /\ st' = [st EXCEPT ![w] = [Observed(w, roll) EXCEPT !.disc = FALSE]]
    /\ UNCHANGED <<placed, recording_json, index, synced, phase, stopping, lease,
                   landed, hit, stretch>>

(* The write fails after the packets were observed: the segment is closed  *)
(* and nothing is recorded until the next is due.                          *)
WriteFails(w) == \E roll, keyframe \in BOOLEAN :
    /\ Chunk(w, roll)
    /\ Fails("write")
    /\ st' = [st EXCEPT ![w] =
                 CloseCurrent([Observed(w, roll) EXCEPT !.disc = @ /\ ~keyframe])]
    /\ stretch' = NextStretch
    /\ UNCHANGED <<placed, recording_json, index, synced, phase, stopping, lease,
                   landed, hit>>

(* No segment is open and none is due: the clock is followed, no more.     *)
WriteNothing(w) ==
    /\ Running(w) /\ st[w].current = {} /\ NotDue(st[w])
    /\ events' = events + 1
    /\ st' = [st EXCEPT ![w] = Clocked(@)]
    /\ UNCHANGED <<disk, phase, stopping, lease, opened, landed, hit, stretch, struck>>

(* The next segment cannot be opened.                                      *)
RollFails(w) ==
    /\ Running(w) /\ Room(st[w])
    /\ Fails("open")
    /\ events' = events + 1
    /\ st' = [st EXCEPT ![w] = [CloseCurrent(@) EXCEPT !.retry = TRUE, !.disc = TRUE]]
    /\ stretch' = NextStretch
    /\ UNCHANGED <<disk, phase, stopping, lease, opened, landed, hit>>

(* handle_command, Start: coming back from Idle is a gap like any other.   *)
RearmedUnmarked(s) == [s EXCEPT !.armed = TRUE, !.retry = FALSE, !.resume = s.pts]
Rearmed(s) == [s EXCEPT !.armed = TRUE, !.retry = FALSE,
                        !.resume = s.pts, !.disc = TRUE]

StartRecording(w) ==
    /\ Ready(w) /\ ~st[w].armed /\ events < MaxEvents
    /\ events' = events + 1
    /\ st' = [st EXCEPT ![w] = Rearmed(@)]
    /\ stretch' = NextStretch
    /\ UNCHANGED <<disk, phase, stopping, lease, opened, landed, hit, struck>>

(* handle_command, Stop: answered once the closer has finished everything. *)
StopRecording(w) ==
    /\ Ready(w) /\ st[w].armed /\ Room(st[w])
    /\ st' = [st EXCEPT ![w] = [CloseCurrent(@) EXCEPT !.armed = FALSE]]
    /\ phase' = [phase EXCEPT ![w] = "drain"]
    /\ UNCHANGED <<disk, stopping, lease, past>>

(* drain_closer: everything handed over is done.                           *)
DrainedOfJobs(s) == s.jobs = <<>>
Drained(s) == s.jobs = <<>> /\ s.step = "recv"

StopAnswered(w) ==
    /\ phase[w] = "drain" /\ Drained(st[w])
    /\ st' = [st EXCEPT ![w].started = FALSE]
    /\ phase' = [phase EXCEPT ![w] = "up"]
    /\ UNCHANGED <<disk, stopping, lease, past>>

(* shut_down: the flow stopped; the open segment is closed, the closer is  *)
(* waited for, the index is synced and the lease dropped.                  *)
ShutDown(w) ==
    /\ Ready(w) /\ w \in stopping /\ Room(st[w])
    /\ st' = [st EXCEPT ![w] = CloseCurrent(@)]
    /\ phase' = [phase EXCEPT ![w] = "exit"]
    /\ UNCHANGED <<disk, stopping, lease, past>>

Exit(w) ==
    /\ phase[w] = "exit" /\ Drained(st[w])
    /\ synced' = Len(index)
    /\ lease' = IF lease = w THEN Nobody ELSE lease
    /\ st' = [st EXCEPT ![w] = NewState]
    /\ phase' = [phase EXCEPT ![w] = "gone"]
    /\ stopping' = stopping \ {w}
    /\ UNCHANGED <<placed, staging, recording_json, index, past>>

----------------------------------------------------------------------------
(* The closer: run_closer takes one job at a time.                         *)

Closing(w, step) == phase[w] \in {"up", "drain", "exit"} /\ st[w].step = step

Received(s, step) == [s EXCEPT !.jobs = Tail(@), !.job = Head(s.jobs), !.step = step]

(* close_segment: the segment is synced and renamed out of .tmp/.          *)
CloseSegment(w) ==
    /\ Closing(w, "recv") /\ st[w].jobs # <<>>
    /\ LET seg == Head(st[w].jobs).seg
       IN /\ seg # {} /\ seg \subseteq staging
          /\ placed' = {p \in placed : p.id \notin Ids(seg)} \cup seg
          /\ staging' = staging \ seg
          /\ landed' = landed \cup seg
    /\ st' = [st EXCEPT ![w] = Received(@, "sync")]
    /\ UNCHANGED <<recording_json, index, synced, phase, stopping, lease,
                   opened, hit, stretch, struck, events>>

(* The close fails, because of the disk or because the staging file is     *)
(* gone, and the staging file is removed.                                  *)
CloseSegmentFails(w) ==
    /\ Closing(w, "recv") /\ st[w].jobs # <<>>
    /\ LET seg == Head(st[w].jobs).seg
       IN /\ seg # {}
          /\ IF seg \subseteq staging
             THEN Fails("close") /\ hit' = hit \cup seg
             ELSE UNCHANGED <<struck, hit>>
          /\ staging' = {t \in staging : t.id \notin Ids(seg)}
    /\ st' = [st EXCEPT ![w] = Received(@, "sync")]
    /\ UNCHANGED <<placed, recording_json, index, synced, phase, stopping, lease,
                   opened, landed, stretch, events>>

(* The index is synced after the rename; the writer handed the kernel the  *)
(* entries of this segment when it closed it.                              *)
SyncIndex(w) ==
    /\ Closing(w, "sync")
    /\ synced' = Max({synced} \cup
                     {k \in DOMAIN index : index[k].id \in Ids(st[w].job.seg)})
    /\ st' = [st EXCEPT ![w].step = "meta"]
    /\ UNCHANGED <<placed, staging, recording_json, index, phase, stopping, lease, past>>

(* recording.json with the next id; a failure is reported and survived.    *)
WriteMeta(w) ==
    /\ Closing(w, "meta")
    /\ recording_json' = st[w].job.meta
    /\ st' = [st EXCEPT ![w].step = "retain"]
    /\ UNCHANGED <<placed, staging, index, synced, phase, stopping, lease, past>>

WriteMetaFails(w) ==
    /\ Closing(w, "meta") /\ Fails("meta")
    /\ st' = [st EXCEPT ![w].step = "retain"]
    /\ UNCHANGED <<disk, phase, stopping, lease, opened, landed, hit, stretch, events>>

(* run_retention: the oldest go, never the segment just finished.          *)
RunRetention(w) ==
    /\ Closing(w, "retain")
    /\ \E last \in {0} \cup {p.take : p \in placed} :
           placed' = {p \in placed : p.take > last \/ p \in st[w].job.seg}
    /\ st' = [st EXCEPT ![w].step = "recv"]
    /\ UNCHANGED <<staging, recording_json, index, synced, phase, stopping, lease, past>>

(* A job that is recording.json alone.                                     *)
WriteMetaAlone(w) ==
    /\ Closing(w, "recv") /\ st[w].jobs # <<>> /\ Head(st[w].jobs).seg = {}
    /\ \/ recording_json' = Head(st[w].jobs).meta /\ UNCHANGED struck
       \/ Fails("meta") /\ UNCHANGED recording_json
    /\ st' = [st EXCEPT ![w] = Received(@, "recv")]
    /\ UNCHANGED <<placed, staging, index, synced, phase, stopping, lease,
                   opened, landed, hit, stretch, events>>

----------------------------------------------------------------------------
(* The segments a writer has open or its closer has yet to rename.         *)
InHand(w) == st[w].current \cup UNION {j.seg : j \in Range(st[w].jobs)}

(* The machine dies: what is in .tmp/ stays there for the next sweep, and  *)
(* of the index whatever was not synced may be missing from some point on. *)
(* Nor is the directory ever synced: the latest segments may be back in    *)
(* .tmp/, and an earlier recording.json in place.                          *)
Crash ==
    /\ Fails("crash")
    /\ \E w \in Writers : phase[w] \notin {"none", "gone"}
    /\ \E n \in synced .. Len(index) : index' = SubSeq(index, 1, n)
    /\ \E last \in {0} \cup {p.take : p \in placed} :
           placed' = {p \in placed : p.take <= last}
    /\ staging' = staging \cup (placed \ placed')
    /\ recording_json' \in 0 .. recording_json
    /\ hit' = hit \cup (placed \ placed') \cup UNION {InHand(w) : w \in Writers}
    /\ phase' = [w \in Writers |-> IF phase[w] = "none" THEN "none" ELSE "gone"]
    /\ st' = [w \in Writers |-> NewState]
    /\ lease' = Nobody /\ stopping' = {}
    /\ UNCHANGED <<synced, opened, landed, stretch, events>>

WriterStep(w) == \/ WritePlain(w) \/ WriteIndexed(w) \/ WriteUnindexed(w)
                 \/ WriteFails(w) \/ WriteNothing(w) \/ RollFails(w)
CloserStep(w) == \/ CloseSegment(w) \/ CloseSegmentFails(w) \/ SyncIndex(w)
                 \/ WriteMeta(w) \/ WriteMetaFails(w)
                 \/ RunRetention(w) \/ WriteMetaAlone(w)

(* What a writer or its closer does next by itself, once begun.            *)
Proceed(w) == \/ TakeAfter(w) \/ GiveUp(w) \/ Refuse(w)
              \/ Sweep(w) \/ OpenWriter(w)
              \/ CloserStep(w) \/ StopAnswered(w) \/ ShutDown(w) \/ Exit(w)

Next ==
    \/ \E w \in Writers :
          \/ Spawn(w) \/ StopFlow(w)
          \/ OpenWriterUnindexed(w) \/ OpenWriterUnread(w) \/ OpenWriterFails(w)
          \/ WriterStep(w) \/ StartRecording(w) \/ StopRecording(w)
          \/ Proceed(w)
    \/ Crash

(* Straight-line code runs on, a waiting writer looks again every second,  *)
(* and a select! takes a cancelled token when nothing else is left.        *)
Fairness == \A w \in Writers : WF_vars(Proceed(w))

Spec == Init /\ [][Next]_vars /\ Fairness

----------------------------------------------------------------------------
(* An id is handed out once in a recording's life: every entry of the      *)
(* index names the media it was made for, or a file that is missing, never *)
(* media recorded later under the same id - whatever crashed or failed in  *)
(* between, as long as an index.bin that is there can be read when the     *)
(* recording is opened again (writer.rs, Segment ids).                     *)
NamedMediaIsItsOwn ==
    "load" \notin Range(struck) =>
        \A e \in Range(index) :
            \A s \in placed \cup UNION {InHand(w) : w \in Writers} :
                s.id = e.id => s.take = e.take

(* Every segment opened is renamed into place, is still on its way, or met *)
(* a crash or a failing disk; no writer sweeps or overwrites another's.    *)
(* And every id below the next one was a segment's: a clean stop carries   *)
(* the numbering straight on, without a hole.                              *)
EveryIdAccounted ==
    /\ opened \subseteq landed \cup hit \cup UNION {InHand(w) : w \in Writers}
    /\ \A w \in Writers : 0 .. st[w].id - 1 \subseteq Ids(opened)

(* A recording whose Stop was answered is complete on disk: nothing waits  *)
(* for the closer or lies in .tmp/, and recording.json names the next id.  *)
StoppedIsComplete ==
    \A w \in Writers : phase[w] = "up" /\ ~st[w].armed =>
        /\ InHand(w) = {} /\ staging = {}
        /\ "meta" \in Range(struck) \/ recording_json = st[w].id

(* The index is sorted by its counter through restarts, stops and crashes, *)
(* and the first entry after a gap in it is marked as a discontinuity,     *)
(* which is what an export refuses to cut across (spans_discontinuity).    *)
(* Failed writes, failed appends and an index that cannot be read are      *)
(* excluded: there the code sets no mark, or loses the one it has.         *)
JoinsMarked ==
    {"write", "append", "load"} \cap Range(struck) = {} =>
        \A k \in 1 .. Len(index) - 1 :
            /\ index[k].pts <= index[k + 1].pts
            /\ index[k].stretch # index[k + 1].stretch => index[k + 1].disc

(* Nobody waits for the directory for good: a recorder that does gets it,  *)
(* is refused or stops with its flow, because the writer before it         *)
(* finishes whatever it has pending.  (A recorder waits once, so the       *)
(* moments when nobody waits recur exactly when every wait ends.)          *)
WaitEnds == []<>(\A w \in Writers : phase[w] # "wait")
=============================================================================
