-------------------------- MODULE ReplayWriterProofs --------------------------
(***************************************************************************)
(* Proofs about ReplayWriter, for any writers, any bounds and any troubles:*)
(* an entry of the index never names media recorded later under its id,    *)
(* every segment and every id is accounted for, a Stop that was answered   *)
(* has left a complete recording, and the index is sorted with its joins   *)
(* marked.                                                                 *)
(*                                                                         *)
(* One writer at most works in the directory, the one that holds the       *)
(* lease, and it is that writer's state the files are compared with: what  *)
(* is in .tmp/ is what it has in hand, what is in place or indexed has an  *)
(* id below its own, and the last recording.json on its way has its id.    *)
(***************************************************************************)
EXTENDS ReplayWriter, Maxima, FiniteSetTheorems, TLAPS

Segments == [id : Nat, take : Nat]
Entries  == [id : Nat, take : Nat, pts : Int, stretch : Nat, disc : BOOLEAN]
Jobs     == [seg : SUBSET Segments, meta : Nat]
States   == [current : SUBSET Segments, id : Nat, started : BOOLEAN, retry : BOOLEAN,
             armed : BOOLEAN, pts : Int, resume : Int, disc : BOOLEAN,
             jobs : Seq(Jobs), step : {"recv", "sync", "meta", "retain"},
             job : Jobs \cup {<<>>}]

Working == {"up", "drain", "exit"}
Holding == {"sweep", "open"} \cup Working
Phases  == {"none", "wait", "gone"} \cup Holding

(* The types of what is on disk and of the history.                        *)
DiskTypes ==
    /\ opened \subseteq Segments /\ IsFiniteSet(opened)
    /\ placed \subseteq opened /\ staging \subseteq opened
    /\ recording_json \in Nat
    /\ index \in Seq(Entries) /\ synced \in 0 .. Len(index)
    /\ stretch \in Nat /\ struck \in Seq(Troubles)

(* The index, as long as those who opened the recording could read it.     *)
Known == IF "load" \in Range(struck) THEN <<>> ELSE index

(* Every id below n was a segment's.                                       *)
Counted(n, segs) == 0 .. n - 1 \subseteq Ids(segs)

(* An id is not passed over: not by a segment, by recording.json or by an  *)
(* entry, whose segment may be lost ...                                    *)
DiskNumbered ==
    /\ \A s \in opened : Counted(s.id + 1, opened)
    /\ Counted(recording_json, opened)
    /\ \A k \in 1 .. Len(index) : Counted(index[k].id + 1, opened)

(* ... nor by a writer or by what its closer will write.                   *)
Numbered(s, segs) ==
    /\ Counted(s.id, segs)
    /\ \A k \in 1 .. Len(s.jobs) : Counted(s.jobs[k].meta, segs)
    /\ s.step \in {"sync", "meta"} => Counted(s.job.meta, segs)

(* The segments that a writer in state s has open or yet to close.         *)
HeldBy(s) == s.current \cup UNION {j.seg : j \in Range(s.jobs)}

(* Its open segment has its id, and those handed over have lower ones, in  *)
(* their order.                                                            *)
Tidy(s) ==
    /\ \A a \in s.current : a.id = s.id /\ s.current = {a}
    /\ \A k \in 1 .. Len(s.jobs) : \A a \in s.jobs[k].seg :
         /\ s.jobs[k].seg = {a} /\ a.id < s.id
         /\ \A l \in k + 1 .. Len(s.jobs) : \A b \in s.jobs[l].seg : a.id < b.id
    /\ s.step # "recv" => s.job \in Jobs

(* What is in .tmp/ is its own, what is in place has lower ids, and so have*)
(* the entries but for those of its open segment.                          *)
Owns(s, files, inPlace, entries) ==
    /\ files = HeldBy(s)
    /\ \A p \in inPlace : p.id < s.id
    /\ \A k \in 1 .. Len(entries) :
         \/ entries[k].id < s.id
         \/ \E a \in s.current : entries[k].id = a.id /\ entries[k].take = a.take

(* The id that recording.json has when all that was handed over is done.   *)
LastMeta(s, json) ==
    IF s.jobs # <<>> THEN s.jobs[Len(s.jobs)].meta
    ELSE IF s.step \in {"sync", "meta"} THEN s.job.meta
    ELSE json

(* A writer that drains its closer has no open segment, and nothing is     *)
(* left to the closer of one that was stopped.                             *)
Stops(s, doing, json, troubles) ==
    /\ doing \in {"drain", "exit"} \/ ~ s.armed => s.current = {}
    /\ doing = "up" /\ ~ s.armed => s.jobs = <<>> /\ s.step = "recv"
    /\ "meta" \notin Range(troubles) => LastMeta(s, json) = s.id

(* Its counter is not behind the index, and when its next entry begins a   *)
(* stretch the mark for it is set.                                         *)
Continues(s, entries, now, troubles) ==
    entries # <<>> =>
        /\ Last(entries).pts <= s.pts
        /\ {"write", "append"} \cap Range(troubles) = {} =>
               Last(entries).stretch = now \/ s.disc

(* The directory is one writer's, who finds .tmp/ swept.                   *)
Leased ==
    \A w \in Writers :
        /\ phase[w] \in Holding => lease = w
        /\ phase[w] \notin Working => st[w] = NewState
        /\ phase[w] = "open" => staging = {}

WritersTypes ==
    /\ phase \in [Writers -> Phases] /\ st \in [Writers -> States]
    /\ lease \in Writers \cup {Nobody}

WorkerInv(w) ==
    /\ Tidy(st[w])
    /\ Owns(st[w], staging, placed, Known)
    /\ Stops(st[w], phase[w], recording_json, struck)
    /\ Continues(st[w], Known, stretch, struck)

(* Entries of an index name none of these segments but their own.          *)
NoneOther(entries, segs) ==
    \A k \in 1 .. Len(entries) : \A p \in segs :
        p.id = entries[k].id => p.take = entries[k].take

Named == NoneOther(Known, placed) /\ NoneOther(Known, staging)

Accounted ==
    \A s \in opened : s \in landed \cup hit \/ \E w \in Writers : s \in HeldBy(st[w])

ReplayInv ==
    /\ DiskTypes /\ WritersTypes /\ Leased
    /\ DiskNumbered /\ \A w \in Writers : Numbered(st[w], opened)
    /\ \A w \in Writers : phase[w] \in Working => WorkerInv(w)
    /\ Named /\ Accounted /\ JoinsMarked

------------------------------------------------------------------------------
(* Sets of segments, sequences of jobs, and states of a writer             *)

LEMMA NobodyIsNoWriter == Nobody \notin Writers
<1> SUFFICES ASSUME NEW w \in Writers PROVE w # Nobody
  OBVIOUS
<1>1. w = <<w[1], w[2]>>
  BY ReplayAssumption
<1>2. <<w[1], w[2]>> # <<>>
  OBVIOUS
<1> QED BY <1>1, <1>2 DEF Nobody

LEMMA NewIsAState ==
    /\ NewState \in States /\ HeldBy(NewState) = {} /\ Tidy(NewState)
    /\ \A segs : Numbered(NewState, segs)
<1>1. NewState \in States
  BY DEF NewState, NoResume, States
<1>2. HeldBy(NewState) = {}
  BY DEF NewState, HeldBy, Range
<1>3. Tidy(NewState) /\ \A segs : Numbered(NewState, segs)
  BY DEF NewState, Tidy, Numbered, Counted
<1> QED BY <1>1, <1>2, <1>3

LEMMA HeldIn ==
    ASSUME NEW s \in States, NEW x
    PROVE  x \in HeldBy(s) <=>
             \/ x \in s.current
             \/ \E k \in 1 .. Len(s.jobs) : x \in s.jobs[k].seg
<1>1. s.jobs \in Seq(Jobs)
  BY DEF States
<1>2. DOMAIN s.jobs = 1 .. Len(s.jobs)
  BY <1>1
<1> QED BY <1>2 DEF HeldBy, Range

LEMMA CountedMore ==
    ASSUME NEW n \in Int, NEW segs, NEW more, segs \subseteq more, Counted(n, segs)
    PROVE  Counted(n, more)
BY DEF Counted, Ids

LEMMA CountedLess ==
    ASSUME NEW n \in Int, NEW m \in Int, m <= n, NEW segs, Counted(n, segs)
    PROVE  Counted(m, segs)
BY DEF Counted

LEMMA NumberedMore ==
    ASSUME NEW s \in States, NEW segs, NEW more, segs \subseteq more, Numbered(s, segs)
    PROVE  Numbered(s, more)
BY DEF Numbered, Counted, Ids, States

LEMMA LastPts ==
    ASSUME NEW entries \in Seq(Entries), entries # <<>>
    PROVE  Last(entries) \in Entries /\ Last(entries).pts \in Int
<1>1. entries[Len(entries)] \in Entries
  OBVIOUS
<1> QED BY <1>1 DEF Last, Entries

LEMMA KnownIs ==
    ASSUME DiskTypes
    PROVE  /\ Known \in Seq(Entries)
           /\ Known # <<>> => Known = index
           /\ "load" \notin Range(struck) => Known = index
BY DEF DiskTypes, Known

LEMMA KnownKept ==
    ASSUME UNCHANGED index, "load" \in Range(struck') <=> "load" \in Range(struck)
    PROVE  Known' = Known
BY DEF Known

(* What is said of the known entries stays true of fewer.                  *)
LEMMA KnownStays ==
    ASSUME UNCHANGED index, Range(struck) \subseteq Range(struck'),
           NEW s, NEW files, NEW inPlace, NEW now, NEW troubles, NEW segs
    PROVE  /\ Owns(s, files, inPlace, Known) => Owns(s, files, inPlace, Known')
           /\ Continues(s, Known, now, troubles) => Continues(s, Known', now, troubles)
           /\ NoneOther(Known, segs) => NoneOther(Known', segs)
<1>1. CASE Known' = Known
  BY <1>1
<1>2. CASE Known' = <<>>
  <2>1. 1 .. Len(Known') = {}
    BY <1>2
  <2> QED BY <1>2, <2>1 DEF Owns, Continues, NoneOther
<1> QED BY <1>1, <1>2 DEF Known

LEMMA RangeAppend ==
    ASSUME NEW S, NEW s \in Seq(S), NEW x \in S
    PROVE  Range(Append(s, x)) = Range(s) \cup {x}
<1>1. DOMAIN s = 1 .. Len(s) /\ DOMAIN Append(s, x) = 1 .. Len(s) + 1 /\ Len(s) \in Nat
  OBVIOUS
<1>2. /\ \A k \in 1 .. Len(s) : Append(s, x)[k] = s[k]
      /\ Append(s, x)[Len(s) + 1] = x
  OBVIOUS
<1> QED BY <1>1, <1>2 DEF Range

LEMMA MaxOfTwo ==
    ASSUME NEW a \in Int, NEW b \in Int
    PROVE  Max({a, b}) \in {a, b} /\ a <= Max({a, b}) /\ b <= Max({a, b})
<1>1. \E x \in {a, b} : \A y \in {a, b} : x >= y
  OBVIOUS
<1> QED BY <1>1 DEF Max

(* close_current hands the open segment over: what the writer holds stays  *)
(* the same, and its id is free.                                           *)
LEMMA CloseCurrentIs ==
    ASSUME NEW s \in States, Tidy(s)
    PROVE  LET t == CloseCurrent(s) IN
           /\ t \in States /\ t.current = {}
           /\ t.started = s.started /\ t.retry = s.retry /\ t.armed = s.armed
           /\ t.pts = s.pts /\ t.resume = s.resume /\ t.disc = s.disc
           /\ t.step = s.step /\ t.job = s.job
           /\ s.current = {} => t = s
           /\ \A a \in s.current : t.id = a.id + 1 /\ t.id = s.id + 1
                                   /\ t.jobs = Append(s.jobs, SegmentJob(a))
<1>1. CASE s.current = {}
  BY <1>1 DEF CloseCurrent
<1>2. CASE s.current # {}
  <2>1. PICK a : s.current = {a} /\ a.id = s.id /\ a \in Segments
    BY <1>2 DEF Tidy, States
  <2>2. (CHOOSE seg \in s.current : TRUE) = a
    BY <2>1
  <2>3. CloseCurrent(s) = [s EXCEPT !.current = {}, !.id = a.id + 1,
                                    !.jobs = Append(@, SegmentJob(a))]
    BY <1>2, <2>2 DEF CloseCurrent
  <2>4. SegmentJob(a) \in Jobs
    BY <2>1 DEF SegmentJob, Jobs, Segments
  <2>5. Append(s.jobs, SegmentJob(a)) \in Seq(Jobs)
    BY <2>4 DEF States
  <2>6. a.id + 1 \in Nat
    BY <2>1 DEF Segments
  <2> QED BY <2>1, <2>3, <2>5, <2>6 DEF States
<1> QED BY <1>1, <1>2

LEMMA ClosedIsTidy ==
    ASSUME NEW s \in States, Tidy(s)
    PROVE  /\ Tidy(CloseCurrent(s)) /\ HeldBy(CloseCurrent(s)) = HeldBy(s)
           /\ s.id <= CloseCurrent(s).id
           /\ \A a \in s.current : a.id < CloseCurrent(s).id
<1>1. CASE s.current = {}
  BY <1>1, CloseCurrentIs DEF States
<1>2. CASE s.current # {}
  <2>1. PICK a : s.current = {a} /\ a.id = s.id /\ a \in Segments
    BY <1>2 DEF Tidy, States
  <2>2. PICK t : t = CloseCurrent(s)
    OBVIOUS
  <2>3. /\ t \in States /\ t.current = {} /\ t.id = s.id + 1 /\ t.step = s.step
        /\ t.job = s.job /\ t.jobs = Append(s.jobs, SegmentJob(a))
    BY <2>1, <2>2, CloseCurrentIs
  <2>4. s.jobs \in Seq(Jobs) /\ s.id \in Nat
    BY DEF States
  <2>5. SegmentJob(a) \in Jobs /\ SegmentJob(a).seg = {a}
    BY <2>1 DEF SegmentJob, Jobs, Segments
  <2>6. /\ Len(t.jobs) = Len(s.jobs) + 1 /\ Len(s.jobs) \in Nat
        /\ \A k \in 1 .. Len(s.jobs) : t.jobs[k] = s.jobs[k]
        /\ t.jobs[Len(s.jobs) + 1] = SegmentJob(a)
    BY <2>3, <2>4, <2>5
  <2>7. \A x : x \in HeldBy(t) <=> x \in HeldBy(s)
    <3> SUFFICES ASSUME NEW x PROVE x \in HeldBy(t) <=> x \in HeldBy(s)
      OBVIOUS
    <3>1. x \in HeldBy(s) <=>
            x = a \/ \E k \in 1 .. Len(s.jobs) : x \in s.jobs[k].seg
      BY <2>1, HeldIn
    <3>2. x \in HeldBy(t) <=> \E k \in 1 .. Len(t.jobs) : x \in t.jobs[k].seg
      BY <2>3, HeldIn
    <3> QED BY <2>5, <2>6, <3>1, <3>2
  <2>8. ASSUME NEW k \in 1 .. Len(t.jobs), NEW x \in t.jobs[k].seg
        PROVE  /\ t.jobs[k].seg = {x} /\ x.id < t.id
               /\ \A l \in k + 1 .. Len(t.jobs) : \A b \in t.jobs[l].seg : x.id < b.id
    <3>1. CASE k = Len(s.jobs) + 1
      BY <2>1, <2>3, <2>4, <2>5, <2>6, <2>8, <3>1
    <3>2. CASE k \in 1 .. Len(s.jobs)
      <4>1. x \in s.jobs[k].seg /\ t.jobs[k].seg = s.jobs[k].seg
        BY <2>6, <2>8, <3>2
      <4>2. /\ s.jobs[k].seg = {x} /\ x.id < s.id
            /\ \A l \in k + 1 .. Len(s.jobs) : \A b \in s.jobs[l].seg : x.id < b.id
        BY <3>2, <4>1 DEF Tidy
      <4>3. x.id \in Nat
        <5>1. s.jobs[k] \in Jobs
          BY <2>4, <3>2
        <5> QED BY <4>1, <5>1 DEF Jobs, Segments
      <4>4. \A l \in k + 1 .. Len(t.jobs) : \A b \in t.jobs[l].seg : x.id < b.id
        BY <2>1, <2>5, <2>6, <3>2, <4>2
      <4> QED BY <2>3, <2>4, <4>1, <4>2, <4>3, <4>4
    <3> QED BY <2>6, <3>1, <3>2
  <2>9. Tidy(t)
    BY <2>3, <2>8 DEF Tidy
  <2>10. HeldBy(t) = HeldBy(s)
    BY <2>7, Zenon
  <2> QED BY <2>1, <2>2, <2>3, <2>4, <2>9, <2>10
<1> QED BY <1>1, <1>2

LEMMA ClosedIsNumbered ==
    ASSUME NEW s \in States, Tidy(s), NEW segs, segs \subseteq Segments,
           \A a \in s.current : Counted(a.id + 1, segs), Numbered(s, segs)
    PROVE  Numbered(CloseCurrent(s), segs)
<1>1. CASE s.current = {}
  BY <1>1, CloseCurrentIs
<1>2. CASE s.current # {}
  <2>1. PICK a \in s.current : TRUE
    BY <1>2
  <2>2. PICK t : t = CloseCurrent(s)
    OBVIOUS
  <2>3. /\ t.id = a.id + 1 /\ t.step = s.step
        /\ t.job = s.job /\ t.jobs = Append(s.jobs, SegmentJob(a))
    BY <2>1, <2>2, CloseCurrentIs
  <2>4. SegmentJob(a) \in Jobs /\ SegmentJob(a).meta = a.id + 1 /\ s.jobs \in Seq(Jobs)
    BY <2>1 DEF SegmentJob, Jobs, Segments, States
  <2>5. \A k \in 1 .. Len(t.jobs) : Counted(t.jobs[k].meta, segs)
    <3>1. /\ Len(t.jobs) = Len(s.jobs) + 1 /\ Len(s.jobs) \in Nat
          /\ \A k \in 1 .. Len(s.jobs) : t.jobs[k] = s.jobs[k]
          /\ t.jobs[Len(s.jobs) + 1] = SegmentJob(a)
      BY <2>3, <2>4
    <3>2. Counted(SegmentJob(a).meta, segs)
      BY <2>1, <2>4
    <3>3. \A k \in 1 .. Len(s.jobs) : Counted(s.jobs[k].meta, segs)
      BY DEF Numbered
    <3> QED BY <3>1, <3>2, <3>3
  <2> QED BY <2>2, <2>3, <2>5 DEF Numbered
<1> QED BY <1>1, <1>2

LEMMA ClosedMeta ==
    ASSUME NEW s \in States, Tidy(s), NEW json, LastMeta(s, json) = s.id
    PROVE  LastMeta(CloseCurrent(s), json) = CloseCurrent(s).id
<1>1. CASE s.current = {}
  BY <1>1, CloseCurrentIs
<1>2. CASE s.current # {}
  <2>1. PICK a \in s.current : TRUE
    BY <1>2
  <2>2. PICK t : t = CloseCurrent(s)
    OBVIOUS
  <2>3. t.id = a.id + 1 /\ t.jobs = Append(s.jobs, SegmentJob(a))
    BY <2>1, <2>2, CloseCurrentIs
  <2>4. SegmentJob(a) \in Jobs /\ SegmentJob(a).meta = a.id + 1 /\ s.jobs \in Seq(Jobs)
    BY <2>1 DEF SegmentJob, Jobs, Segments, States
  <2>5. t.jobs # <<>> /\ t.jobs[Len(t.jobs)] = SegmentJob(a)
    BY <2>3, <2>4
  <2> QED BY <2>2, <2>3, <2>4, <2>5 DEF LastMeta
<1> QED BY <1>1, <1>2

(* Files and entries that were a writer's are still when it has closed its *)
(* segment.                                                                *)
LEMMA ClosedOwns ==
    ASSUME NEW s \in States, Tidy(s), NEW files, NEW inPlace, NEW entries,
           inPlace \subseteq Segments, entries \in Seq(Entries),
           Owns(s, files, inPlace, entries)
    PROVE  Owns(CloseCurrent(s), files, inPlace, entries)
<1>1. PICK t : t = CloseCurrent(s)
  OBVIOUS
<1>2. /\ HeldBy(t) = HeldBy(s) /\ s.id <= t.id /\ s.id \in Nat /\ t.id \in Nat
      /\ \A a \in s.current : a.id < t.id
  BY <1>1, ClosedIsTidy, CloseCurrentIs DEF States
<1>3. \A p \in inPlace : p.id < t.id
  BY <1>2 DEF Owns, Segments
<1>4. \A k \in 1 .. Len(entries) : entries[k].id < t.id
  <2> SUFFICES ASSUME NEW k \in 1 .. Len(entries) PROVE entries[k].id < t.id
    OBVIOUS
  <2>1. entries[k] \in Entries
    OBVIOUS
  <2>2. entries[k].id \in Nat
    BY <2>1 DEF Entries
  <2> QED BY <1>2, <2>2 DEF Owns
<1> QED BY <1>1, <1>2, <1>3, <1>4 DEF Owns

------------------------------------------------------------------------------
(* Steps of the writer that holds the directory, and of the others         *)

(* The writer with the lease moves on to state t and to what it does next. *)
HolderMoves(w, t, doing) ==
    /\ phase[w] \in Holding /\ t \in States /\ doing \in Phases
    /\ st' = [st EXCEPT ![w] = t] /\ phase' = [phase EXCEPT ![w] = doing]
    /\ lease' \in Writers \cup {Nobody}
    /\ doing \in Holding => lease' = w
    /\ doing \in Working \/ t = NewState
    /\ doing = "open" => staging' = {}

(* What it leaves on disk and in its hands.                                *)
HolderLeaves(w, t, doing) ==
    /\ DiskTypes' /\ DiskNumbered' /\ Numbered(t, opened') /\ opened \subseteq opened'
    /\ doing \in Working =>
         /\ Tidy(t) /\ Owns(t, staging', placed', Known')
         /\ Stops(t, doing, recording_json', struck')
         /\ Continues(t, Known', stretch', struck')
    /\ landed \subseteq landed' /\ hit \subseteq hit'
    /\ \A s \in opened' : \/ s \in landed' \cup hit' \cup HeldBy(t)
                          \/ s \in opened /\ s \notin HeldBy(st[w])
    /\ Named' /\ JoinsMarked'

LEMMA OneHolder ==
    ASSUME ReplayInv, NEW w \in Writers, phase[w] \in Holding, NEW v \in Writers, v # w
    PROVE  phase[v] \notin Holding /\ st[v] = NewState
<1>1. lease = w
  BY DEF ReplayInv, Leased
<1>2. phase[v] \notin Holding
  BY <1>1 DEF ReplayInv, Leased
<1> QED BY <1>2 DEF ReplayInv, Leased, Holding

LEMMA HolderStep ==
    ASSUME ReplayInv, NEW w \in Writers, NEW t, NEW doing,
           HolderMoves(w, t, doing), HolderLeaves(w, t, doing)
    PROVE  ReplayInv'
<1>1. \A v \in Writers \ {w} : phase[v] \notin Holding /\ st[v] = NewState
  BY OneHolder DEF HolderMoves
<1>2. /\ st'[w] = t /\ phase'[w] = doing
      /\ \A v \in Writers \ {w} : st'[v] = st[v] /\ phase'[v] = phase[v]
  BY DEF HolderMoves, ReplayInv, WritersTypes
<1>3. WritersTypes'
  BY DEF HolderMoves, ReplayInv, WritersTypes
<1>4. Leased'
  BY <1>1, <1>2 DEF HolderMoves, Leased, Holding
<1>5. \A v \in Writers : Numbered(st'[v], opened')
  BY <1>1, <1>2, NewIsAState DEF HolderLeaves
<1>6. \A v \in Writers : phase'[v] \in Working => WorkerInv(v)'
  <2> SUFFICES ASSUME NEW v \in Writers, phase'[v] \in Working PROVE WorkerInv(v)'
    OBVIOUS
  <2>1. v = w
    BY <1>1, <1>2 DEF Holding
  <2> QED BY <1>2, <2>1 DEF HolderLeaves, WorkerInv
<1>7. Accounted'
  <2> SUFFICES ASSUME NEW s \in opened'
               PROVE  s \in landed' \cup hit' \/ \E v \in Writers : s \in HeldBy(st'[v])
    BY DEF Accounted
  <2>1. CASE s \in landed' \cup hit' \cup HeldBy(t)
    BY <1>2, <2>1
  <2>2. CASE s \in opened /\ s \notin HeldBy(st[w])
    <3>1. s \in landed \cup hit \/ \E v \in Writers : s \in HeldBy(st[v])
      BY <2>2 DEF ReplayInv, Accounted
    <3>2. \A v \in Writers \ {w} : s \notin HeldBy(st[v])
      BY <1>1, NewIsAState
    <3> QED BY <2>2, <3>1, <3>2 DEF HolderLeaves
  <2> QED BY <2>1, <2>2 DEF HolderLeaves
<1> QED BY <1>3, <1>4, <1>5, <1>6, <1>7 DEF HolderLeaves, ReplayInv

(* A writer without the directory waits, takes it when it is free, or goes *)
(* away, and touches nothing.                                              *)
LEMMA BystanderStep ==
    ASSUME ReplayInv, NEW w \in Writers,
           \/ Spawn(w) \/ TakeAfter(w) \/ GiveUp(w) \/ Refuse(w) \/ StopFlow(w)
    PROVE  ReplayInv'
<1>0. UNCHANGED <<placed, staging, recording_json, index, synced, st, opened, landed,
                  hit, stretch, struck>>
  BY DEF Spawn, TakeAfter, GiveUp, Refuse, StopFlow, disk, past
<1>1. WritersTypes
  BY DEF ReplayInv
<1>2. \/ phase' = phase /\ lease' = lease
      \/ /\ phase[w] \in {"none", "wait"} /\ lease' = lease
         /\ phase' = [phase EXCEPT ![w] = "wait"] \/ phase' = [phase EXCEPT ![w] = "gone"]
      \/ /\ phase[w] \in {"none", "wait"} /\ lease = Nobody /\ lease' = w
         /\ phase' = [phase EXCEPT ![w] = "sweep"]
  BY DEF Spawn, TakeAfter, GiveUp, Refuse, StopFlow, LeaseFree
<1>3. /\ \A v \in Writers : phase'[v] = phase[v] \/ phase'[v] \in {"wait", "gone", "sweep"}
      /\ \A v \in Writers : phase'[v] # phase[v] => phase[v] \in {"none", "wait"}
  BY <1>1, <1>2 DEF WritersTypes
<1>4. WritersTypes'
  BY <1>0, <1>1, <1>2 DEF WritersTypes, Phases, Holding, Working
<1>5. Leased'
  <2>1. \A v \in Writers : phase'[v] \in Holding => lease' = v
    <3>1. CASE phase' = phase /\ lease' = lease
      BY <3>1 DEF ReplayInv, Leased
    <3>2. CASE /\ phase[w] \in {"none", "wait"} /\ lease' = lease
               /\ phase' = [phase EXCEPT ![w] = "wait"] \/ phase' = [phase EXCEPT ![w] = "gone"]
      BY <1>1, <3>2 DEF ReplayInv, Leased, WritersTypes, Holding, Working
    <3>3. CASE /\ lease = Nobody /\ lease' = w /\ phase' = [phase EXCEPT ![w] = "sweep"]
      <4>1. \A v \in Writers : phase[v] \notin Holding
        BY <3>3, NobodyIsNoWriter DEF ReplayInv, Leased
      <4> QED BY <1>1, <3>3, <4>1 DEF WritersTypes
    <3> QED BY <1>2, <3>1, <3>2, <3>3
  <2>2. \A v \in Writers : phase'[v] \notin Working => st'[v] = NewState
    BY <1>0, <1>3 DEF ReplayInv, Leased, Working
  <2>3. \A v \in Writers : phase'[v] = "open" => staging' = {}
    BY <1>0, <1>3 DEF ReplayInv, Leased
  <2> QED BY <2>1, <2>2, <2>3 DEF Leased
<1>6. DiskTypes' /\ DiskNumbered' /\ Named' /\ JoinsMarked'
  <2>1. DiskTypes'
    BY <1>0 DEF ReplayInv, DiskTypes
  <2>2. DiskNumbered' /\ Named'
    BY <1>0, KnownKept DEF ReplayInv, DiskNumbered, Named, NoneOther
  <2>3. JoinsMarked'
    BY <1>0 DEF ReplayInv, JoinsMarked
  <2> QED BY <2>1, <2>2, <2>3
<1>7. Accounted' /\ \A v \in Writers : Numbered(st'[v], opened')
  BY <1>0 DEF ReplayInv, Accounted
<1>8. \A v \in Writers : phase'[v] \in Working => WorkerInv(v)'
  <2> SUFFICES ASSUME NEW v \in Writers, phase'[v] \in Working PROVE WorkerInv(v)'
    OBVIOUS
  <2>1. phase'[v] = phase[v]
    BY <1>3 DEF Working
  <2>2. WorkerInv(v)
    BY <2>1 DEF ReplayInv
  <2> QED BY <1>0, <2>1, <2>2, KnownKept DEF WorkerInv
<1> QED BY <1>4, <1>5, <1>6, <1>7, <1>8 DEF ReplayInv

------------------------------------------------------------------------------
(* Opening, closing, crashing                                              *)

(* Ids without a hole are no more than the segments.                       *)
LEMMA CountedBound ==
    ASSUME NEW segs, segs \subseteq Segments, IsFiniteSet(segs), NEW n \in Nat,
           Counted(n, segs)
    PROVE  n <= Cardinality(segs)
<1> DEFINE f == [s \in segs |-> s.id]
<1>1. f \in Surjection(segs, Ids(segs))
  BY DEF Surjection, Ids
<1>2. IsFiniteSet(Ids(segs)) /\ Cardinality(Ids(segs)) <= Cardinality(segs)
  <2> HIDE DEF f
  <2> QED BY <1>1, FS_Surjection
<1>3. Cardinality(0 .. n - 1) <= Cardinality(Ids(segs))
  <2>1. 0 .. n - 1 \in SUBSET Ids(segs)
    BY DEF Counted
  <2> QED BY <1>2, <2>1, FS_Subset
<1>4. Cardinality(0 .. n - 1) = n
  BY FS_Interval
<1>5. Cardinality(segs) \in Nat /\ Cardinality(Ids(segs)) \in Nat
  BY <1>2, FS_CardinalityType
<1> QED BY <1>2, <1>3, <1>4, <1>5

(* A resume id is past the ids in use, and passes over none.               *)
LEMMA ResumesPastAll ==
    ASSUME DiskTypes, DiskNumbered, NEW meta \in Nat, Counted(meta, opened),
           NEW used, used \subseteq UsedIds
    PROVE  LET id == ResumePast(meta, used) IN
           id \in Nat /\ Counted(id, opened) /\ \A i \in used : i < id
<1> DEFINE S == {meta} \cup {i + 1 : i \in used}
<1>0. /\ opened \subseteq Segments /\ placed \subseteq opened
      /\ index \in Seq(Entries) /\ DOMAIN index = 1 .. Len(index)
  BY DEF DiskTypes
<1>1. \A i \in used : i \in Nat /\ Counted(i + 1, opened)
  <2>1. \A i \in Ids(placed) : i \in Nat /\ Counted(i + 1, opened)
    BY <1>0 DEF Ids, DiskNumbered, Segments
  <2>2. \A i \in Ids(Range(index)) : i \in Nat /\ Counted(i + 1, opened)
    <3> SUFFICES ASSUME NEW i \in Ids(Range(index)) PROVE i \in Nat /\ Counted(i + 1, opened)
      OBVIOUS
    <3>1. PICK k \in 1 .. Len(index) : i = index[k].id
      BY <1>0 DEF Ids, Range
    <3>2. index[k] \in Entries
      BY <1>0
    <3> QED BY <3>1, <3>2 DEF Entries, DiskNumbered
  <2> QED BY <2>1, <2>2 DEF UsedIds
<1>2. \A n \in S : n \in Nat /\ Counted(n, opened)
  BY <1>1
<1>3. Cardinality(opened) \in Int
  BY FS_CardinalityType DEF DiskTypes
<1>4. \A n \in S : n <= Cardinality(opened)
  BY <1>0, <1>2, CountedBound DEF DiskTypes
<1>5. S \subseteq Int /\ S # {}
  <2>1. meta \in S
    OBVIOUS
  <2> HIDE DEF S
  <2> QED BY <1>2, <2>1
<1>6. Max(S) \in S /\ \A n \in S : n <= Max(S)
  <2> HIDE DEF S
  <2> QED BY <1>3, <1>4, <1>5, BoundedMax
<1>7. ResumePast(meta, used) = Max(S)
  BY DEF ResumePast
<1>8. \A i \in used : i < Max(S)
  <2> SUFFICES ASSUME NEW i \in used PROVE i < Max(S)
    OBVIOUS
  <2>1. i + 1 \in S
    OBVIOUS
  <2>2. i + 1 <= Max(S) /\ Max(S) \in Nat
    BY <1>2, <1>6, <2>1
  <2> HIDE DEF S
  <2> QED BY <1>1, <2>2
<1> HIDE DEF S
<1> QED BY <1>2, <1>6, <1>7, <1>8

(* What is in use is in place or indexed.                                  *)
LEMMA InUse ==
    ASSUME DiskTypes
    PROVE  /\ \A p \in placed : p.id \in Ids(placed) /\ p.id \in UsedIds
           /\ \A k \in 1 .. Len(index) : index[k].id \in UsedIds
BY DEF DiskTypes, UsedIds, Ids, Range

LEMMA StruckMore ==
    ASSUME NEW kind, Fails(kind), struck \in Seq(Troubles)
    PROVE  struck' \in Seq(Troubles) /\ Range(struck') = Range(struck) \cup {kind}
BY RangeAppend DEF Fails

LEMMA SweepKeeps ==
    ASSUME ReplayInv, NEW w \in Writers, Sweep(w)
    PROVE  ReplayInv'
<1>1. /\ phase[w] = "sweep" /\ staging' = {} /\ phase' = [phase EXCEPT ![w] = "open"]
      /\ UNCHANGED <<placed, recording_json, index, synced, lease, st, opened, landed,
                     hit, stretch, struck>>
  BY DEF Sweep, past
<1>2. lease = w /\ st[w] = NewState
  BY <1>1 DEF ReplayInv, Leased, Holding, Working
<1>3. HolderMoves(w, NewState, "open")
  <2>1. st' = [st EXCEPT ![w] = NewState]
    BY <1>1, <1>2 DEF ReplayInv, WritersTypes
  <2> QED BY <1>1, <1>2, <2>1, NewIsAState DEF HolderMoves, Holding, Phases
<1>4. HolderLeaves(w, NewState, "open")
  <2>1. DiskTypes'
    BY <1>1 DEF ReplayInv, DiskTypes
  <2>2. DiskNumbered' /\ Named'
    BY <1>1, KnownKept DEF ReplayInv, DiskNumbered, Named, NoneOther
  <2>3. JoinsMarked'
    BY <1>1 DEF ReplayInv, JoinsMarked
  <2>4. \A s \in opened' : s \in opened /\ s \notin HeldBy(st[w])
    BY <1>1, <1>2, NewIsAState
  <2> QED BY <1>1, <2>1, <2>2, <2>3, <2>4, NewIsAState DEF HolderLeaves, Working
<1> QED BY <1>3, <1>4, HolderStep

LEMMA OpenedIs ==
    ASSUME NEW id \in Nat, index \in Seq(Entries)
    PROVE  LET t == OpenedState(id) IN
           /\ t \in States /\ t.current = {} /\ t.id = id /\ t.armed = TRUE
           /\ t.jobs = <<>> /\ t.step = "recv"
           /\ index # <<>> => t.pts = Last(index).pts + 1 /\ t.disc = TRUE
<1>0. PICK n \in States : n = NewState
  BY NewIsAState
<1>a. n.current = {} /\ n.armed = TRUE /\ n.jobs = <<>> /\ n.step = "recv"
  BY <1>0 DEF NewState
<1>1. CASE index = <<>>
  <2>1. OpenedState(id) = [n EXCEPT !.id = id]
    BY <1>0, <1>1 DEF OpenedState
  <2> QED BY <1>a, <1>1, <2>1 DEF States
<1>2. CASE index # <<>>
  <2>1. index[Len(index)] \in Entries
    BY <1>2
  <2>2. Last(index).pts \in Int /\ Last(index).pts + 1 \in Int
    BY <2>1 DEF Last, Entries
  <2>3. OpenedState(id) = [n EXCEPT !.id = id, !.disc = TRUE, !.pts = Last(index).pts + 1,
                                    !.resume = Last(index).pts]
    BY <1>0, <1>2 DEF OpenedState
  <2> QED BY <1>a, <2>2, <2>3 DEF States
<1> QED BY <1>1, <1>2

LEMMA NextStretchType ==
    ASSUME stretch \in Nat
    PROVE  NextStretch \in Nat
BY DEF NextStretch

(* However the recording is opened, the writer begins with nothing in hand *)
(* and, as far as the index is known, past all of it.                      *)
LEMMA OpenAsKeeps ==
    ASSUME ReplayInv, NEW w \in Writers, NEW t \in States, OpenAs(w, t),
           t.current = {}, t.armed = TRUE, t.jobs = <<>>, t.step = "recv",
           Counted(t.id, opened), \A p \in placed : p.id < t.id,
           struck' \in Seq(Troubles), Range(struck) \subseteq Range(struck'),
           Known' # <<>> =>
               /\ \A k \in 1 .. Len(Known') : Known'[k].id < t.id
               /\ t.disc = TRUE /\ Last(Known').pts <= t.pts
    PROVE  ReplayInv'
<1>1. /\ phase[w] = "open" /\ phase' = [phase EXCEPT ![w] = "up"]
      /\ recording_json' = t.id /\ st' = [st EXCEPT ![w] = t]
      /\ stretch' = NextStretch
      /\ UNCHANGED <<placed, staging, index, synced, lease, opened, landed, hit>>
  BY DEF OpenAs
<1>2. lease = w /\ st[w] = NewState /\ staging = {}
  BY <1>1 DEF ReplayInv, Leased, Holding, Working
<1>3. DiskTypes /\ DiskNumbered /\ t.id \in Nat
  BY DEF ReplayInv, States
<1>6. HolderMoves(w, t, "up")
  BY <1>1, <1>2 DEF HolderMoves, Holding, Phases, Working
<1>7. HolderLeaves(w, t, "up")
  <2>1. DiskTypes'
    BY <1>1, <1>3, NextStretchType DEF DiskTypes
  <2>2. DiskNumbered'
    BY <1>1, <1>3 DEF DiskNumbered
  <2>3. Named' /\ JoinsMarked'
    <3>1. Named'
      BY <1>1, KnownStays DEF ReplayInv, Named
    <3>2. JoinsMarked'
      BY <1>1 DEF ReplayInv, JoinsMarked
    <3> QED BY <3>1, <3>2
  <2>4. Numbered(t, opened')
    BY <1>1 DEF Numbered
  <2>5. Tidy(t)
    BY DEF Tidy
  <2>6. HeldBy(t) = {}
    BY DEF HeldBy, Range
  <2>7. Owns(t, staging', placed', Known')
    <3>1. Known' = <<>> => 1 .. Len(Known') = {}
      OBVIOUS
    <3> QED BY <1>1, <1>2, <2>6, <3>1 DEF Owns
  <2>8. Stops(t, "up", recording_json', struck')
    BY <1>1 DEF Stops, LastMeta
  <2>9. Continues(t, Known', stretch', struck')
    BY DEF Continues
  <2>10. \A s \in opened' : s \in opened /\ s \notin HeldBy(st[w])
    BY <1>1, <1>2, NewIsAState
  <2> QED BY <1>1, <2>1, <2>2, <2>3, <2>4, <2>5, <2>7, <2>8, <2>9, <2>10 DEF HolderLeaves
<1> QED BY <1>6, <1>7, HolderStep

(* With the index read, and recording.json or not.                         *)
LEMMA OpenReadKeeps ==
    ASSUME ReplayInv, NEW w \in Writers, NEW meta \in Nat, Counted(meta, opened),
           OpenAs(w, OpenedState(ResumePast(meta, UsedIds))),
           struck' \in Seq(Troubles), Range(struck) \subseteq Range(struck'),
           Known' = Known
    PROVE  ReplayInv'
<1>1. DiskTypes /\ DiskNumbered
  BY DEF ReplayInv
<1>2. PICK id \in Nat : /\ id = ResumePast(meta, UsedIds) /\ Counted(id, opened)
                        /\ \A i \in UsedIds : i < id
  BY <1>1, ResumesPastAll
<1>3. PICK t : t = OpenedState(id)
  OBVIOUS
<1>4. /\ t \in States /\ t.current = {} /\ t.id = id /\ t.armed = TRUE
      /\ t.jobs = <<>> /\ t.step = "recv"
      /\ index # <<>> => t.pts = Last(index).pts + 1 /\ t.disc = TRUE
  BY <1>1, <1>2, <1>3, OpenedIs DEF DiskTypes
<1>5. \A p \in placed : p.id < t.id
  BY <1>1, <1>2, <1>4, InUse
<1>6. CASE Known = <<>>
  BY <1>2, <1>3, <1>4, <1>5, <1>6, OpenAsKeeps
<1>7. CASE Known # <<>>
  <2>1. Known = index /\ index # <<>>
    BY <1>1, <1>7, KnownIs
  <2>2. Last(index).pts \in Int
    <3>1. index[Len(index)] \in Entries
      BY <1>1, <2>1 DEF DiskTypes
    <3> QED BY <3>1 DEF Last, Entries
  <2>3. Last(index).pts <= t.pts
    BY <1>4, <2>1, <2>2
  <2>4. \A k \in 1 .. Len(index) : index[k].id < t.id
    BY <1>1, <1>2, <1>4, InUse
  <2> QED BY <1>2, <1>3, <1>4, <1>5, <2>1, <2>3, <2>4, OpenAsKeeps
<1> QED BY <1>6, <1>7

LEMMA OpenWriterKeeps ==
    ASSUME ReplayInv, NEW w \in Writers, OpenWriter(w)
    PROVE  ReplayInv'
<1>1. OpenAs(w, OpenedState(ResumePast(recording_json, UsedIds))) /\ struck' = struck
  BY DEF OpenWriter, ResumeId
<1>2. /\ recording_json \in Nat /\ Counted(recording_json, opened)
      /\ struck \in Seq(Troubles) /\ index' = index
  BY <1>1 DEF ReplayInv, DiskTypes, DiskNumbered, OpenAs
<1>3. Known' = Known
  BY <1>1, <1>2, KnownKept
<1> QED BY <1>1, <1>2, <1>3, OpenReadKeeps

LEMMA OpenWriterUnreadKeeps ==
    ASSUME ReplayInv, NEW w \in Writers, OpenWriterUnread(w)
    PROVE  ReplayInv'
<1>1. OpenAs(w, OpenedState(ResumePast(0, UsedIds))) /\ Fails("read")
  BY DEF OpenWriterUnread
<1>2. struck' \in Seq(Troubles) /\ Range(struck') = Range(struck) \cup {"read"}
  BY <1>1, StruckMore DEF ReplayInv, DiskTypes
<1>3. Known' = Known
  BY <1>1, <1>2, KnownKept DEF OpenAs
<1>4. Counted(0, opened)
  BY DEF Counted
<1> QED BY <1>1, <1>2, <1>3, <1>4, OpenReadKeeps

(* Without the index: none of it is known from here on.                    *)
LEMMA OpenWriterUnindexedKeeps ==
    ASSUME ReplayInv, NEW w \in Writers, OpenWriterUnindexed(w)
    PROVE  ReplayInv'
<1> DEFINE id == ResumePast(recording_json, Ids(placed))
<1>1. OpenAs(w, [NewState EXCEPT !.id = id]) /\ Fails("load")
  BY DEF OpenWriterUnindexed
<1>2. struck' \in Seq(Troubles) /\ Range(struck') = Range(struck) \cup {"load"}
  BY <1>1, StruckMore DEF ReplayInv, DiskTypes
<1>3. Known' = <<>>
  BY <1>2 DEF Known
<1>4. id \in Nat /\ Counted(id, opened) /\ \A p \in placed : p.id < id
  <2>1. Ids(placed) \subseteq UsedIds
    BY DEF UsedIds
  <2>2. /\ DiskTypes /\ DiskNumbered /\ recording_json \in Nat
        /\ Counted(recording_json, opened)
    BY DEF ReplayInv, DiskTypes, DiskNumbered
  <2>3. \A p \in placed : p.id \in Ids(placed)
    BY <2>2, InUse
  <2> QED BY <2>1, <2>2, <2>3, ResumesPastAll
<1> HIDE DEF id
<1>5. PICK t : t = [NewState EXCEPT !.id = id]
  OBVIOUS
<1>6. /\ t \in States /\ t.current = {} /\ t.id = id /\ t.armed = TRUE
      /\ t.jobs = <<>> /\ t.step = "recv"
  <2>1. PICK n \in States : n = NewState
    BY NewIsAState
  <2>2. n.current = {} /\ n.armed = TRUE /\ n.jobs = <<>> /\ n.step = "recv"
    BY <2>1 DEF NewState
  <2> QED BY <1>4, <1>5, <2>1, <2>2 DEF States
<1> QED BY <1>1, <1>2, <1>3, <1>4, <1>5, <1>6, OpenAsKeeps

LEMMA OpenWriterFailsKeeps ==
    ASSUME ReplayInv, NEW w \in Writers, OpenWriterFails(w)
    PROVE  ReplayInv'
<1>1. /\ phase[w] = "open" /\ phase' = [phase EXCEPT ![w] = "gone"] /\ Fails("resume")
      /\ lease' = Nobody
      /\ recording_json' \in {recording_json, ResumePast(recording_json, Ids(placed)), ResumeId}
      /\ UNCHANGED <<placed, staging, index, synced, st, opened, landed, hit, stretch>>
  BY DEF OpenWriterFails
<1>2. st[w] = NewState
  BY <1>1 DEF ReplayInv, Leased, Working
<1>3. HolderMoves(w, NewState, "gone")
  <2>1. st' = [st EXCEPT ![w] = NewState]
    BY <1>1, <1>2 DEF ReplayInv, WritersTypes
  <2> QED BY <1>1, <1>2, <2>1, NewIsAState DEF HolderMoves, Holding, Phases, Working
<1>4. HolderLeaves(w, NewState, "gone")
  <2>0. struck' \in Seq(Troubles) /\ Range(struck') = Range(struck) \cup {"resume"}
    BY <1>1, StruckMore DEF ReplayInv, DiskTypes
  <2>a. recording_json' \in Nat /\ Counted(recording_json', opened)
    <3>1. Ids(placed) \subseteq UsedIds
      BY DEF UsedIds
    <3>2. /\ DiskTypes /\ DiskNumbered /\ recording_json \in Nat
          /\ Counted(recording_json, opened)
      BY DEF ReplayInv, DiskTypes, DiskNumbered
    <3> QED BY <1>1, <3>1, <3>2, ResumesPastAll DEF ResumeId
  <2>1. DiskTypes'
    BY <1>1, <2>0, <2>a DEF ReplayInv, DiskTypes
  <2>2. DiskNumbered' /\ Named'
    <3>1. Known' = Known
      BY <1>1, <2>0, KnownKept
    <3> QED BY <1>1, <2>a, <3>1 DEF ReplayInv, DiskNumbered, Named, NoneOther
  <2>3. JoinsMarked'
    BY <1>1, <2>0 DEF ReplayInv, JoinsMarked
  <2>4. \A s \in opened' : s \in opened /\ s \notin HeldBy(st[w])
    BY <1>1, <1>2, NewIsAState
  <2> QED BY <1>1, <2>1, <2>2, <2>3, <2>4, NewIsAState DEF HolderLeaves, Working
<1> QED BY <1>3, <1>4, HolderStep

LEMMA DrainedHolds ==
    ASSUME NEW s \in States, s.current = {}, s.jobs = <<>>
    PROVE  HeldBy(s) = {}
BY DEF HeldBy, Range

LEMMA ExitKeeps ==
    ASSUME ReplayInv, NEW w \in Writers, Exit(w)
    PROVE  ReplayInv'
<1>1. /\ phase[w] = "exit" /\ phase' = [phase EXCEPT ![w] = "gone"]
      /\ synced' = Len(index) /\ Drained(st[w])
      /\ st' = [st EXCEPT ![w] = NewState]
      /\ lease' = IF lease = w THEN Nobody ELSE lease
      /\ UNCHANGED <<placed, staging, recording_json, index, opened, landed,
                     hit, stretch, struck>>
  BY DEF Exit, past
<1>2. HeldBy(st[w]) = {}
  BY <1>1, DrainedHolds DEF ReplayInv, WritersTypes, WorkerInv, Stops, Drained, Working
<1>3. HolderMoves(w, NewState, "gone")
  BY <1>1, NewIsAState DEF HolderMoves, Holding, Phases, Working, ReplayInv, WritersTypes
<1>4. HolderLeaves(w, NewState, "gone")
  <2>1. DiskTypes'
    BY <1>1 DEF ReplayInv, DiskTypes
  <2>2. DiskNumbered' /\ Named'
    BY <1>1, KnownKept DEF ReplayInv, DiskNumbered, Named, NoneOther
  <2>3. JoinsMarked'
    BY <1>1 DEF ReplayInv, JoinsMarked
  <2>4. \A s \in opened' : s \in opened /\ s \notin HeldBy(st[w])
    BY <1>1, <1>2
  <2> QED BY <1>1, <2>1, <2>2, <2>3, <2>4, NewIsAState DEF HolderLeaves, Working
<1> QED BY <1>3, <1>4, HolderStep

LEMMA InitKeeps == Init => ReplayInv
<1> SUFFICES ASSUME Init PROVE ReplayInv
  OBVIOUS
<1>1. /\ placed = {} /\ staging = {} /\ recording_json = 0 /\ index = <<>> /\ synced = 0
      /\ lease = Nobody /\ opened = {} /\ stretch = 0 /\ struck = <<>>
      /\ phase = [w \in Writers |-> "none"] /\ st = [w \in Writers |-> NewState]
  BY DEF Init
<1>2. DiskTypes
  BY <1>1, FS_EmptySet DEF DiskTypes
<1>3. WritersTypes /\ Leased
  BY <1>1, NewIsAState DEF WritersTypes, Leased, Phases, Holding, Working
<1>4. DiskNumbered /\ Named /\ Accounted
  BY <1>1 DEF DiskNumbered, Counted, Named, NoneOther, Known, Accounted
<1>5. \A w \in Writers : Numbered(st[w], opened) /\ phase[w] \notin Working
  BY <1>1, NewIsAState DEF Working
<1>6. JoinsMarked
  BY <1>1 DEF JoinsMarked
<1> QED BY <1>2, <1>3, <1>4, <1>5, <1>6 DEF ReplayInv

(* A crash loses what writers have in hand, the latest renames and the     *)
(* index from some point.                                                  *)
LEMMA CrashKeeps ==
    ASSUME ReplayInv, Crash
    PROVE  ReplayInv'
<1>1. /\ Fails("crash")
      /\ hit' = hit \cup (placed \ placed') \cup UNION {InHand(w) : w \in Writers}
      /\ phase' = [w \in Writers |-> IF phase[w] = "none" THEN "none" ELSE "gone"]
      /\ st' = [w \in Writers |-> NewState] /\ lease' = Nobody
      /\ placed' \subseteq placed /\ staging' = staging \cup (placed \ placed')
      /\ recording_json' \in 0 .. recording_json
      /\ UNCHANGED <<synced, opened, landed, stretch>>
  BY DEF Crash
<1>2. PICK n \in synced .. Len(index) : index' = SubSeq(index, 1, n)
  BY DEF Crash
<1>3. index \in Seq(Entries) /\ synced \in 0 .. Len(index) /\ Len(index) \in Nat
  BY DEF ReplayInv, DiskTypes
<1>4. n \in Nat /\ n <= Len(index) /\ synced <= n
  BY <1>3
<1>5. /\ index' \in Seq(Entries) /\ Len(index') = n
      /\ \A k \in 1 .. n : index'[k] = index[k]
  BY <1>2, <1>3, <1>4
<1>6. struck' \in Seq(Troubles) /\ Range(struck') = Range(struck) \cup {"crash"}
  BY <1>1, StruckMore DEF ReplayInv, DiskTypes
<1>7. DiskTypes'
  BY <1>1, <1>3, <1>4, <1>5, <1>6 DEF ReplayInv, DiskTypes
<1>8. DiskNumbered' /\ Named'
  <2>1. \A k \in 1 .. n : k \in 1 .. Len(index)
    BY <1>3, <1>4
  <2>2. /\ \A s \in opened : Counted(s.id + 1, opened)
        /\ \A k \in 1 .. n : Counted(index'[k].id + 1, opened)
    BY <1>5, <2>1 DEF ReplayInv, DiskNumbered
  <2>3. Counted(recording_json', opened)
    <3>1. Counted(recording_json, opened) /\ recording_json \in Nat
      BY DEF ReplayInv, DiskNumbered, DiskTypes
    <3>2. PICK m \in 0 .. recording_json : m = recording_json'
      BY <1>1
    <3>3. 0 .. m - 1 \subseteq 0 .. recording_json - 1
      BY <3>1
    <3> QED BY <3>1, <3>2, <3>3 DEF Counted
  <2>4. NoneOther(Known', placed) /\ NoneOther(Known', staging)
    <3>1. CASE "load" \in Range(struck)
      <4>1. 1 .. Len(Known') = {}
        BY <1>6, <3>1 DEF Known
      <4> QED BY <4>1 DEF NoneOther
    <3>2. CASE "load" \notin Range(struck)
      <4>1. Known = index /\ Known' = index'
        BY <1>6, <3>2 DEF Known
      <4> QED BY <1>5, <2>1, <4>1 DEF ReplayInv, Named, NoneOther
    <3> QED BY <3>1, <3>2
  <2>5. NoneOther(Known', placed') /\ NoneOther(Known', staging')
    BY <1>1, <2>4 DEF NoneOther
  <2> QED BY <1>1, <1>5, <2>2, <2>3, <2>5 DEF DiskNumbered, Named
<1>9. JoinsMarked'
  <2> SUFFICES ASSUME {"write", "append", "load"} \cap Range(struck') = {},
                      NEW k \in 1 .. Len(index') - 1
               PROVE  /\ index'[k].pts <= index'[k + 1].pts
                      /\ index'[k].stretch # index'[k + 1].stretch => index'[k + 1].disc
    BY DEF JoinsMarked
  <2>1. k \in 1 .. n /\ k + 1 \in 1 .. n /\ k \in 1 .. Len(index) - 1
    BY <1>3, <1>4, <1>5
  <2>2. {"write", "append", "load"} \cap Range(struck) = {}
    BY <1>6
  <2>3. /\ index[k].pts <= index[k + 1].pts
        /\ index[k].stretch # index[k + 1].stretch => index[k + 1].disc
    BY <2>1, <2>2 DEF ReplayInv, JoinsMarked
  <2> QED BY <1>5, <2>1, <2>3
<1>10. Accounted'
  <2>1. \A s \in opened : s \in landed \cup hit \/ \E w \in Writers : s \in InHand(w)
    BY DEF ReplayInv, Accounted, InHand, HeldBy
  <2> QED BY <1>1, <2>1 DEF Accounted
<1>11. WritersTypes' /\ Leased'
  BY <1>1, NewIsAState DEF WritersTypes, Leased, Phases, Holding, Working
<1>12. \A w \in Writers : Numbered(st'[w], opened') /\ phase'[w] \notin Working
  BY <1>1, NewIsAState DEF Working
<1> QED BY <1>7, <1>8, <1>9, <1>10, <1>11, <1>12 DEF ReplayInv

------------------------------------------------------------------------------
(* Steps of the writer that touch no file                                  *)

(* Two states with the same segments in hand.                              *)
SameHands(s, t) ==
    /\ t.current = s.current /\ t.id = s.id /\ t.jobs = s.jobs
    /\ t.step = s.step /\ t.job = s.job

LEMMA SameHandsKeep ==
    ASSUME NEW s, NEW t, SameHands(s, t)
    PROVE  /\ HeldBy(t) = HeldBy(s)
           /\ Tidy(s) => Tidy(t)
           /\ \A segs : Numbered(s, segs) => Numbered(t, segs)
           /\ \A files, inPlace, entries :
                Owns(s, files, inPlace, entries) => Owns(t, files, inPlace, entries)
           /\ \A json : LastMeta(t, json) = LastMeta(s, json)
<1>1. HeldBy(t) = HeldBy(s)
  BY DEF SameHands, HeldBy
<1>2. Tidy(s) => Tidy(t)
  BY DEF SameHands, Tidy
<1>3. \A segs : Numbered(s, segs) => Numbered(t, segs)
  BY DEF SameHands, Numbered
<1>4. \A files, inPlace, entries :
         Owns(s, files, inPlace, entries) => Owns(t, files, inPlace, entries)
  BY <1>1 DEF SameHands, Owns
<1>5. \A json : LastMeta(t, json) = LastMeta(s, json)
  BY DEF SameHands, LastMeta
<1> QED BY <1>1, <1>2, <1>3, <1>4, <1>5

LEMMA WorkerFacts ==
    ASSUME ReplayInv, NEW w \in Writers, phase[w] \in Working
    PROVE  /\ lease = w /\ st[w] \in States /\ Tidy(st[w]) /\ Numbered(st[w], opened)
           /\ Owns(st[w], staging, placed, Known)
           /\ Stops(st[w], phase[w], recording_json, struck)
           /\ Continues(st[w], Known, stretch, struck)
           /\ HeldBy(st[w]) \subseteq opened
           /\ \A a \in st[w].current : a \in opened /\ Counted(a.id + 1, opened)
<1>1. lease = w /\ st[w] \in States /\ WorkerInv(w) /\ Numbered(st[w], opened)
  BY DEF ReplayInv, Leased, Holding, WritersTypes
<1>2. HeldBy(st[w]) \subseteq opened
  BY <1>1 DEF WorkerInv, Owns, ReplayInv, DiskTypes
<1>3. \A a \in st[w].current : a \in opened /\ Counted(a.id + 1, opened)
  BY <1>2 DEF HeldBy, ReplayInv, DiskNumbered
<1> QED BY <1>1, <1>2, <1>3 DEF WorkerInv

(* The writer goes on to state t, and no file changes.                     *)
WriterOnly(w, t, doing) ==
    /\ phase[w] \in Working /\ doing \in Working /\ t \in States
    /\ st' = [st EXCEPT ![w] = t] /\ phase' = [phase EXCEPT ![w] = doing]
    /\ UNCHANGED <<placed, staging, recording_json, index, synced, lease, opened, landed, hit>>
    /\ stretch' \in Nat /\ struck' \in Seq(Troubles) /\ Range(struck) \subseteq Range(struck')
    /\ Numbered(t, opened) /\ Tidy(t) /\ Owns(t, staging, placed, Known)
    /\ Stops(t, doing, recording_json, struck')
    /\ Continues(t, Known, stretch', struck')

LEMMA WriterOnlyKeeps ==
    ASSUME ReplayInv, NEW w \in Writers, NEW t, NEW doing, WriterOnly(w, t, doing)
    PROVE  ReplayInv'
<1>1. UNCHANGED <<placed, staging, recording_json, index, synced, lease, opened, landed, hit>>
  BY DEF WriterOnly
<1>2. HolderMoves(w, t, doing)
  <2>1. lease = w
    BY WorkerFacts DEF WriterOnly
  <2> QED BY <1>1, <2>1 DEF WriterOnly, HolderMoves, Phases, Holding, Working
<1>3. HolderLeaves(w, t, doing)
  <2>1. DiskTypes'
    BY <1>1 DEF ReplayInv, DiskTypes, WriterOnly
  <2>2. DiskNumbered' /\ Named'
    BY <1>1, KnownStays DEF ReplayInv, DiskNumbered, Named, WriterOnly
  <2>3. JoinsMarked'
    BY <1>1 DEF ReplayInv, JoinsMarked, WriterOnly
  <2>4. HeldBy(t) = HeldBy(st[w])
    BY WorkerFacts DEF Owns, WriterOnly
  <2>5. Owns(t, staging', placed', Known') /\ Numbered(t, opened')
        /\ Stops(t, doing, recording_json', struck') /\ Continues(t, Known', stretch', struck')
        /\ Tidy(t)
    BY <1>1, KnownStays DEF WriterOnly
  <2> QED BY <1>1, <2>1, <2>2, <2>3, <2>4, <2>5 DEF HolderLeaves
<1> QED BY <1>2, <1>3, HolderStep

LEMMA ClockedIs ==
    ASSUME NEW s \in States
    PROVE  /\ Clocked(s) \in States /\ SameHands(s, Clocked(s)) /\ s.pts <= Clocked(s).pts
           /\ Clocked(s).armed = s.armed /\ Clocked(s).disc = s.disc
           /\ s.pts \in Int /\ Clocked(s).pts \in Int
<1>1. s.pts \in Int /\ s.resume \in Int
  BY DEF States
<1>2. PICK p : p = IF s.resume = NoResume THEN s.pts + 1 ELSE Max({s.pts, s.resume + 1})
  OBVIOUS
<1>3. p \in Int /\ s.pts <= p
  <2>1. PICK a \in Int, b \in Int : a = s.pts /\ b = s.resume + 1
    BY <1>1
  <2>2. Max({a, b}) \in {a, b} /\ a <= Max({a, b})
    BY MaxOfTwo
  <2>3. p = IF s.resume = NoResume THEN a + 1 ELSE Max({a, b})
    BY <1>2, <2>1
  <2> QED BY <2>1, <2>2, <2>3
<1>4. Clocked(s) = [s EXCEPT !.pts = p, !.resume = NoResume]
  BY <1>2 DEF Clocked
<1>5. NoResume \in Int
  BY DEF NoResume
<1> QED BY <1>1, <1>3, <1>4, <1>5 DEF States, SameHands

LEMMA SamePhase ==
    ASSUME ReplayInv, NEW w \in Writers, phase' = phase
    PROVE  phase' = [phase EXCEPT ![w] = phase[w]]
BY DEF ReplayInv, WritersTypes

LEMMA WriteNothingKeeps ==
    ASSUME ReplayInv, NEW w \in Writers, WriteNothing(w)
    PROVE  ReplayInv'
<1>1. /\ phase[w] = "up" /\ st[w].armed /\ st' = [st EXCEPT ![w] = Clocked(st[w])]
      /\ UNCHANGED <<placed, staging, recording_json, index, synced, phase, lease, opened,
                     landed, hit, stretch, struck>>
  BY DEF WriteNothing, Running, Ready, disk
<1>2. phase[w] \in Working
  BY <1>1 DEF Working
<1>3. PICK s \in States : s = st[w]
  BY <1>2, WorkerFacts
<1>4. PICK t \in States : t = Clocked(s)
  BY ClockedIs
<1>5. SameHands(s, t) /\ s.pts <= t.pts /\ t.armed = s.armed /\ t.disc = s.disc
      /\ s.pts \in Int /\ t.pts \in Int
  BY <1>4, ClockedIs
<1>6. WriterOnly(w, t, "up")
  <2>1. Stops(t, "up", recording_json, struck)
    BY <1>1, <1>2, <1>3, <1>5, WorkerFacts, SameHandsKeep DEF Stops, SameHands
  <2>2. Continues(t, Known, stretch, struck)
    <3>1. Known # <<>> => Last(Known).pts \in Int
      BY KnownIs, LastPts DEF ReplayInv
    <3> QED BY <1>2, <1>3, <1>5, <3>1, WorkerFacts DEF Continues
  <2>3. Numbered(t, opened) /\ Tidy(t) /\ Owns(t, staging, placed, Known)
    BY <1>2, <1>3, <1>5, WorkerFacts, SameHandsKeep
  <2>4. stretch \in Nat /\ struck \in Seq(Troubles)
    BY DEF ReplayInv, DiskTypes
  <2> QED BY <1>1, <1>2, <1>3, <1>4, <2>1, <2>2, <2>3, <2>4, SamePhase DEF WriterOnly
<1> QED BY <1>6, WriterOnlyKeeps

(* A writer that closes its segment, and is otherwise the same but for its *)
(* flags.                                                                  *)
LEMMA ClosingKeeps ==
    ASSUME ReplayInv, NEW w \in Writers, phase[w] \in Working, NEW t \in States,
           SameHands(CloseCurrent(st[w]), t)
    PROVE  /\ Numbered(t, opened) /\ Tidy(t) /\ Owns(t, staging, placed, Known)
           /\ t.current = {}
           /\ "meta" \notin Range(struck) => LastMeta(t, recording_json) = t.id
<1>1. PICK s \in States : s = st[w]
  BY WorkerFacts
<1>2. /\ Tidy(s) /\ Numbered(s, opened) /\ Owns(s, staging, placed, Known)
      /\ \A a \in s.current : Counted(a.id + 1, opened)
      /\ "meta" \notin Range(struck) => LastMeta(s, recording_json) = s.id
  BY <1>1, WorkerFacts DEF Stops
<1>3. placed \subseteq Segments /\ Known \in Seq(Entries) /\ opened \subseteq Segments
  BY KnownIs DEF ReplayInv, DiskTypes
<1>4. PICK c \in States : c = CloseCurrent(s)
  BY <1>2, CloseCurrentIs
<1>5. /\ Numbered(c, opened) /\ Tidy(c) /\ Owns(c, staging, placed, Known) /\ c.current = {}
      /\ "meta" \notin Range(struck) => LastMeta(c, recording_json) = c.id
  BY <1>2, <1>3, <1>4, ClosedIsNumbered, ClosedIsTidy, ClosedOwns, ClosedMeta, CloseCurrentIs
<1>6. SameHands(c, t)
  BY <1>1, <1>4
<1> QED BY <1>5, <1>6, SameHandsKeep DEF SameHands

LEMMA RollFailsKeeps ==
    ASSUME ReplayInv, NEW w \in Writers, RollFails(w)
    PROVE  ReplayInv'
<1>1. /\ phase[w] = "up" /\ st[w].armed /\ Fails("open") /\ stretch' = NextStretch
      /\ st' = [st EXCEPT ![w] = [CloseCurrent(st[w]) EXCEPT !.retry = TRUE, !.disc = TRUE]]
      /\ UNCHANGED <<placed, staging, recording_json, index, synced, phase, lease, opened,
                     landed, hit>>
  BY DEF RollFails, Running, Ready, disk
<1>2. phase[w] \in Working
  BY <1>1 DEF Working
<1>3. PICK s \in States : s = st[w] /\ Tidy(s)
  BY <1>2, WorkerFacts
<1>4. PICK c \in States : c = CloseCurrent(s)
  BY <1>3, CloseCurrentIs
<1>5. PICK t : t = [c EXCEPT !.retry = TRUE, !.disc = TRUE]
  OBVIOUS
<1>6. t \in States /\ SameHands(c, t) /\ t.armed = c.armed /\ t.pts = c.pts /\ t.disc = TRUE
  BY <1>5 DEF States, SameHands
<1>7. c.armed = s.armed /\ c.pts = s.pts
  BY <1>3, <1>4, CloseCurrentIs
<1>8. struck' \in Seq(Troubles) /\ Range(struck') = Range(struck) \cup {"open"}
  BY <1>1, StruckMore DEF ReplayInv, DiskTypes
<1>9. WriterOnly(w, t, "up")
  <2>1. /\ Numbered(t, opened) /\ Tidy(t) /\ Owns(t, staging, placed, Known) /\ t.current = {}
        /\ "meta" \notin Range(struck) => LastMeta(t, recording_json) = t.id
    BY <1>2, <1>3, <1>4, <1>6, ClosingKeeps
  <2>2. Stops(t, "up", recording_json, struck')
    BY <1>1, <1>3, <1>6, <1>7, <1>8, <2>1 DEF Stops
  <2>3. Continues(t, Known, stretch', struck')
    BY <1>2, <1>3, <1>6, <1>7, WorkerFacts DEF Continues
  <2>4. stretch' \in Nat
    BY <1>1, NextStretchType DEF ReplayInv, DiskTypes
  <2> QED BY <1>1, <1>2, <1>3, <1>4, <1>5, <1>6, <1>8, <2>1, <2>2, <2>3, <2>4, SamePhase
          DEF WriterOnly
<1> QED BY <1>9, WriterOnlyKeeps

LEMMA StartRecordingKeeps ==
    ASSUME ReplayInv, NEW w \in Writers, StartRecording(w)
    PROVE  ReplayInv'
<1>1. /\ phase[w] = "up" /\ stretch' = NextStretch
      /\ st' = [st EXCEPT ![w] = Rearmed(st[w])]
      /\ UNCHANGED <<placed, staging, recording_json, index, synced, phase, lease, opened,
                     landed, hit, struck>>
  BY DEF StartRecording, Ready, disk
<1>2. phase[w] \in Working
  BY <1>1 DEF Working
<1>3. PICK s \in States : s = st[w]
  BY <1>2, WorkerFacts
<1>4. PICK t : t = Rearmed(s)
  OBVIOUS
<1>5. t \in States /\ SameHands(s, t) /\ t.armed = TRUE /\ t.pts = s.pts /\ t.disc = TRUE
  BY <1>4 DEF States, SameHands, Rearmed
<1>6. WriterOnly(w, t, "up")
  <2>1. Numbered(t, opened) /\ Tidy(t) /\ Owns(t, staging, placed, Known)
    BY <1>2, <1>3, <1>5, WorkerFacts, SameHandsKeep
  <2>2. Stops(t, "up", recording_json, struck)
    BY <1>2, <1>3, <1>5, WorkerFacts, SameHandsKeep DEF Stops, SameHands
  <2>3. Continues(t, Known, stretch', struck)
    BY <1>2, <1>3, <1>5, WorkerFacts DEF Continues
  <2>4. stretch' \in Nat /\ struck \in Seq(Troubles)
    BY <1>1, NextStretchType DEF ReplayInv, DiskTypes
  <2> QED BY <1>1, <1>2, <1>3, <1>4, <1>5, <2>1, <2>2, <2>3, <2>4, SamePhase DEF WriterOnly
<1> QED BY <1>6, WriterOnlyKeeps

LEMMA StopRecordingKeeps ==
    ASSUME ReplayInv, NEW w \in Writers, StopRecording(w) \/ ShutDown(w)
    PROVE  ReplayInv'
<1>1. /\ phase[w] = "up"
      /\ UNCHANGED <<placed, staging, recording_json, index, synced, lease, opened,
                     landed, hit, stretch, struck>>
  BY DEF StopRecording, ShutDown, Ready, disk, past
<1>2. phase[w] \in Working
  BY <1>1 DEF Working
<1>3. PICK s \in States : s = st[w] /\ Tidy(s)
  BY <1>2, WorkerFacts
<1>4. PICK c \in States : c = CloseCurrent(s)
  BY <1>3, CloseCurrentIs
<1>5. PICK t \in States, doing \in {"drain", "exit"} :
        /\ SameHands(c, t) /\ t.pts = c.pts /\ t.disc = c.disc
        /\ st' = [st EXCEPT ![w] = t] /\ phase' = [phase EXCEPT ![w] = doing]
  <2>1. CASE StopRecording(w)
    <3>1. PICK t : t = [c EXCEPT !.armed = FALSE]
      OBVIOUS
    <3>2. t \in States /\ SameHands(c, t) /\ t.pts = c.pts /\ t.disc = c.disc
      BY <3>1 DEF States, SameHands
    <3>3. st' = [st EXCEPT ![w] = t] /\ phase' = [phase EXCEPT ![w] = "drain"]
      BY <1>3, <1>4, <2>1, <3>1 DEF StopRecording
    <3> QED BY <3>2, <3>3
  <2>2. CASE ShutDown(w)
    <3>1. SameHands(c, c) /\ st' = [st EXCEPT ![w] = c] /\ phase' = [phase EXCEPT ![w] = "exit"]
      BY <1>3, <1>4, <2>2 DEF ShutDown, SameHands
    <3> QED BY <3>1
  <2> QED BY <2>1, <2>2
<1>6. c.pts = s.pts /\ c.disc = s.disc
  BY <1>3, <1>4, CloseCurrentIs
<1>7. WriterOnly(w, t, doing)
  <2>1. /\ Numbered(t, opened) /\ Tidy(t) /\ Owns(t, staging, placed, Known) /\ t.current = {}
        /\ "meta" \notin Range(struck) => LastMeta(t, recording_json) = t.id
    BY <1>2, <1>3, <1>4, <1>5, ClosingKeeps
  <2>2. Stops(t, doing, recording_json, struck)
    BY <1>5, <2>1 DEF Stops
  <2>3. Continues(t, Known, stretch, struck)
    BY <1>2, <1>3, <1>5, <1>6, WorkerFacts DEF Continues
  <2>4. stretch \in Nat /\ struck \in Seq(Troubles)
    BY DEF ReplayInv, DiskTypes
  <2> QED BY <1>1, <1>2, <1>5, <2>1, <2>2, <2>3, <2>4 DEF WriterOnly, Working
<1> QED BY <1>7, WriterOnlyKeeps

LEMMA StopAnsweredKeeps ==
    ASSUME ReplayInv, NEW w \in Writers, StopAnswered(w)
    PROVE  ReplayInv'
<1>1. /\ phase[w] = "drain" /\ Drained(st[w]) /\ phase' = [phase EXCEPT ![w] = "up"]
      /\ st' = [st EXCEPT ![w].started = FALSE]
      /\ UNCHANGED <<placed, staging, recording_json, index, synced, lease, opened,
                     landed, hit, stretch, struck>>
  BY DEF StopAnswered, disk, past
<1>2. phase[w] \in Working
  BY <1>1 DEF Working
<1>3. PICK s \in States : s = st[w]
  BY <1>2, WorkerFacts
<1>4. PICK t : t = [s EXCEPT !.started = FALSE]
  OBVIOUS
<1>5. t \in States /\ SameHands(s, t) /\ t.pts = s.pts /\ t.disc = s.disc
  BY <1>4 DEF States, SameHands
<1>6. st' = [st EXCEPT ![w] = t]
  BY <1>1, <1>3, <1>4
<1>7. WriterOnly(w, t, "up")
  <2>1. Numbered(t, opened) /\ Tidy(t) /\ Owns(t, staging, placed, Known)
    BY <1>2, <1>3, <1>5, WorkerFacts, SameHandsKeep
  <2>2. Stops(t, "up", recording_json, struck)
    <3>1. s.current = {} /\ s.jobs = <<>> /\ s.step = "recv"
      BY <1>1, <1>2, <1>3, WorkerFacts DEF Stops, Drained
    <3>2. t.current = {} /\ t.jobs = <<>> /\ t.step = "recv" /\ t.id = s.id
      BY <1>5, <3>1 DEF SameHands
    <3>3. "meta" \notin Range(struck) => LastMeta(s, recording_json) = s.id
      BY <1>2, <1>3, WorkerFacts DEF Stops
    <3>4. LastMeta(t, recording_json) = LastMeta(s, recording_json)
      BY <1>5, SameHandsKeep
    <3> QED BY <3>2, <3>3, <3>4 DEF Stops
  <2>3. Continues(t, Known, stretch, struck)
    BY <1>2, <1>3, <1>5, WorkerFacts DEF Continues
  <2>4. stretch \in Nat /\ struck \in Seq(Troubles)
    BY DEF ReplayInv, DiskTypes
  <2> QED BY <1>1, <1>2, <1>5, <1>6, <2>1, <2>2, <2>3, <2>4 DEF WriterOnly, Working
<1> QED BY <1>7, WriterOnlyKeeps

------------------------------------------------------------------------------
(* Chunks that go into a segment                                           *)

(* Where a chunk leaves writer w, in state o with the segment it went into *)
(* open.                                                                   *)
InSegment(w, o) ==
    /\ phase[w] = "up" /\ o \in States /\ o.current # {} /\ o.armed = TRUE
    /\ Tidy(o) /\ Owns(o, staging', placed, Known) /\ Numbered(o, opened')
    /\ opened \subseteq opened' /\ opened' \subseteq Segments /\ IsFiniteSet(opened')
    /\ \A s \in opened' : Counted(s.id + 1, opened')
    /\ HeldBy(o) \subseteq opened' /\ HeldBy(st[w]) \subseteq HeldBy(o)
    /\ opened' \subseteq opened \cup HeldBy(o)
    /\ st[w].pts <= o.pts /\ o.pts \in Int /\ st[w].pts \in Int /\ o.disc = st[w].disc
    /\ "meta" \notin Range(struck) => LastMeta(o, recording_json) = o.id
    /\ NoneOther(Known, staging')

(* roll_segment: the staging file it makes overwrites no segment in hand.  *)
LEMMA RolledIs ==
    ASSUME ReplayInv, NEW w \in Writers, phase[w] = "up", st[w].armed,
           opened' = opened \cup {NewSegment(st[w])}, staging' = Staged(st[w])
    PROVE  InSegment(w, Rolled(st[w]))
<1>0. phase[w] \in Working
  BY DEF Working
<1>1. PICK s \in States : s = st[w] /\ Tidy(s)
  BY <1>0, WorkerFacts
<1>2. PICK c \in States : c = CloseCurrent(s)
  BY <1>1, CloseCurrentIs
<1>3. /\ c.current = {} /\ Tidy(c) /\ Numbered(c, opened) /\ Owns(c, staging, placed, Known)
      /\ "meta" \notin Range(struck) => LastMeta(c, recording_json) = c.id
      /\ c.pts = s.pts /\ c.disc = s.disc /\ c.armed = s.armed /\ HeldBy(c) = HeldBy(s)
  <2>1. SameHands(c, c)
    BY DEF SameHands
  <2> QED BY <1>0, <1>1, <1>2, <2>1, ClosingKeeps, CloseCurrentIs, ClosedIsTidy
<1>4. PICK n : n = [id |-> c.id, take |-> Cardinality(opened) + 1]
  OBVIOUS
<1>5. n = NewSegment(s) /\ n.id = c.id /\ n \in Segments /\ c.id \in Nat
  <2>1. Cardinality(opened) \in Nat /\ c.id \in Nat
    BY FS_CardinalityType DEF ReplayInv, DiskTypes, States
  <2> QED BY <1>2, <1>4, <2>1 DEF NewSegment, Segments
<1>6. PICK r : r = [c EXCEPT !.current = {n}, !.started = TRUE, !.retry = FALSE]
  OBVIOUS
<1>7. r = Rolled(s)
  BY <1>2, <1>5, <1>6 DEF Rolled
<1>8. /\ r \in States /\ r.current = {n} /\ r.id = c.id /\ r.jobs = c.jobs /\ r.step = c.step
      /\ r.job = c.job /\ r.pts = c.pts /\ r.disc = c.disc /\ r.armed = c.armed
  BY <1>5, <1>6 DEF States
<1>9. Tidy(r)
  BY <1>3, <1>5, <1>8 DEF Tidy
<1>10. HeldBy(r) = HeldBy(c) \cup {n}
  BY <1>3, <1>8 DEF HeldBy
<1>11. ASSUME NEW a \in HeldBy(c) PROVE a.id < c.id
  <2>1. PICK k \in 1 .. Len(c.jobs) : a \in c.jobs[k].seg
    BY <1>3, <1>11, HeldIn
  <2> QED BY <1>3, <2>1 DEF Tidy
<1>12. staging' = HeldBy(r)
  <2>1. staging = HeldBy(c)
    BY <1>3 DEF Owns
  <2>2. \A a \in staging : a.id # n.id
    <3> SUFFICES ASSUME NEW a \in staging PROVE a.id # n.id
      OBVIOUS
    <3>1. a.id < c.id /\ a.id \in Nat
      BY <1>11, <2>1 DEF ReplayInv, DiskTypes, Segments
    <3> QED BY <1>5, <3>1
  <2>3. Staged(s) = staging \cup {n}
    BY <1>5, <2>2 DEF Staged
  <2> QED BY <1>1, <1>10, <2>1, <2>3
<1>13. Owns(r, staging', placed, Known)
  BY <1>3, <1>8, <1>12 DEF Owns
<1>14. opened' = opened \cup {n} /\ opened \subseteq Segments /\ IsFiniteSet(opened)
  BY <1>1, <1>5 DEF ReplayInv, DiskTypes
<1>15. opened' \subseteq Segments /\ IsFiniteSet(opened') /\ opened \subseteq opened'
  BY <1>5, <1>14, FS_AddElement
<1>16. Counted(n.id + 1, opened')
  <2>1. Counted(n.id, opened)
    BY <1>3, <1>5 DEF Numbered
  <2> QED BY <1>5, <1>14, <2>1 DEF Counted, Ids
<1>17. \A a \in opened' : Counted(a.id + 1, opened')
  <2> SUFFICES ASSUME NEW a \in opened PROVE Counted(a.id + 1, opened')
    BY <1>14, <1>16
  <2>1. Counted(a.id + 1, opened) /\ a.id + 1 \in Int
    BY <1>14 DEF ReplayInv, DiskNumbered, Segments
  <2> QED BY <1>15, <2>1, CountedMore
<1>18. Numbered(r, opened')
  <2>1. Numbered(c, opened')
    BY <1>3, <1>15, NumberedMore
  <2> QED BY <1>8, <2>1 DEF Numbered
<1>19. HeldBy(r) \subseteq opened' /\ HeldBy(st[w]) \subseteq HeldBy(r)
       /\ opened' \subseteq opened \cup HeldBy(r)
  <2>1. HeldBy(s) \subseteq opened
    BY <1>0, <1>1, WorkerFacts
  <2> QED BY <1>1, <1>3, <1>10, <1>14, <2>1
<1>20. "meta" \notin Range(struck) => LastMeta(r, recording_json) = r.id
  BY <1>3, <1>8 DEF LastMeta
<1>21. r.pts \in Int /\ st[w].pts <= r.pts /\ st[w].pts \in Int
  BY <1>1, <1>3, <1>8 DEF States
<1>a. NoneOther(Known, staging')
  <2>1. staging' = staging \cup {n}
    <3>1. staging = HeldBy(c)
      BY <1>3 DEF Owns
    <3> QED BY <1>10, <1>12, <3>1
  <2>2. \A k \in 1 .. Len(Known) : Known[k].id < n.id
    BY <1>3, <1>5 DEF Owns
  <2>3. \A k \in 1 .. Len(Known) : Known[k].id \in Nat
    <3> SUFFICES ASSUME NEW k \in 1 .. Len(Known) PROVE Known[k].id \in Nat
      OBVIOUS
    <3>1. Known[k] \in Entries
      BY KnownIs DEF ReplayInv
    <3> QED BY <3>1 DEF Entries
  <2>4. \A k \in 1 .. Len(Known) : Known[k].id # n.id
    BY <1>5, <2>2, <2>3
  <2> QED BY <2>1, <2>4 DEF ReplayInv, Named, NoneOther
<1>22. InSegment(w, r)
  BY <1>a, <1>1, <1>3, <1>8, <1>9, <1>13, <1>15, <1>17, <1>18, <1>19, <1>20, <1>21 DEF InSegment
<1> QED BY <1>1, <1>7, <1>22

LEMMA ObservedIs ==
    ASSUME ReplayInv, NEW w \in Writers, NEW roll \in BOOLEAN, Chunk(w, roll)
    PROVE  InSegment(w, Observed(w, roll))
<1>0. phase[w] = "up" /\ phase[w] \in Working /\ st[w].armed
  BY DEF Chunk, Running, Ready, Working
<1>1. PICK s \in States : s = st[w] /\ Tidy(s)
  BY <1>0, WorkerFacts
<1>2. PICK r : r = IF roll THEN Rolled(s) ELSE s
  OBVIOUS
<1>3. InSegment(w, r)
  <2>1. CASE roll
    <3>1. opened' = opened \cup {NewSegment(st[w])} /\ staging' = Staged(st[w])
      BY <2>1 DEF Chunk
    <3> QED BY <1>0, <1>1, <1>2, <2>1, <3>1, RolledIs
  <2>2. CASE ~ roll
    <3>1. r = s /\ opened' = opened /\ staging' = staging /\ s.current # {}
      BY <1>1, <1>2, <2>2 DEF Chunk
    <3>2. /\ opened \subseteq Segments /\ IsFiniteSet(opened)
          /\ \A a \in opened : Counted(a.id + 1, opened)
      BY DEF ReplayInv, DiskTypes, DiskNumbered
    <3>3. /\ Numbered(s, opened) /\ Owns(s, staging, placed, Known) /\ HeldBy(s) \subseteq opened
          /\ "meta" \notin Range(struck) => LastMeta(s, recording_json) = s.id
      BY <1>0, <1>1, WorkerFacts DEF Stops
    <3>4. s.pts \in Int /\ s.armed = TRUE
      BY <1>0, <1>1 DEF States
    <3>5. NoneOther(Known, staging')
      BY <3>1 DEF ReplayInv, Named
    <3> QED BY <1>0, <1>1, <3>1, <3>2, <3>3, <3>4, <3>5 DEF InSegment
  <2> QED BY <2>1, <2>2
<1>4. r \in States
  BY <1>3 DEF InSegment
<1>5. PICK o \in States : o = Clocked(r)
  BY <1>4, ClockedIs
<1>6. /\ SameHands(r, o) /\ r.pts <= o.pts /\ o.armed = r.armed /\ o.disc = r.disc
      /\ r.pts \in Int /\ o.pts \in Int
  BY <1>4, <1>5, ClockedIs
<1>7. o = Observed(w, roll)
  BY <1>1, <1>2, <1>5 DEF Observed
<1>8. InSegment(w, o)
  <2>1. o.current = r.current /\ o.id = r.id
    BY <1>6 DEF SameHands
  <2>2. /\ Tidy(o) /\ Owns(o, staging', placed, Known) /\ Numbered(o, opened')
        /\ HeldBy(o) = HeldBy(r) /\ LastMeta(o, recording_json) = LastMeta(r, recording_json)
    BY <1>3, <1>6, SameHandsKeep DEF InSegment
  <2>3. st[w].pts <= o.pts
    BY <1>3, <1>6 DEF InSegment
  <2> QED BY <1>3, <1>6, <2>1, <2>2, <2>3 DEF InSegment
<1> QED BY <1>7, <1>8

(* A chunk that leaves no entry in the index leaves the writer in state t. *)
ChunkUnindexed(w, o, t) ==
    /\ InSegment(w, o) /\ t \in States
    /\ st' = [st EXCEPT ![w] = t] /\ phase' = phase
    /\ UNCHANGED <<placed, recording_json, index, synced, lease, landed, hit>>
    /\ struck' \in Seq(Troubles) /\ Range(struck) \subseteq Range(struck') /\ stretch' \in Nat
    /\ Tidy(t) /\ Owns(t, staging', placed, Known) /\ Numbered(t, opened')
    /\ HeldBy(t) = HeldBy(o) /\ t.pts = o.pts /\ t.armed = TRUE
    /\ "meta" \notin Range(struck') => LastMeta(t, recording_json) = t.id
    /\ \/ stretch' = stretch /\ t.disc = o.disc
       \/ {"write", "append"} \cap Range(struck') # {}

LEMMA ChunkUnindexedKeeps ==
    ASSUME ReplayInv, NEW w \in Writers, NEW o, NEW t, ChunkUnindexed(w, o, t)
    PROVE  ReplayInv'
<1>0. /\ InSegment(w, o) /\ phase[w] = "up" /\ phase[w] \in Working /\ lease = w
      /\ UNCHANGED <<placed, recording_json, index, synced, lease, landed, hit>>
  BY WorkerFacts DEF ChunkUnindexed, InSegment, Working
<1>1. HolderMoves(w, t, "up")
  BY <1>0, SamePhase DEF ChunkUnindexed, HolderMoves, Holding, Phases, Working
<1>2. HolderLeaves(w, t, "up")
  <2>0. opened \subseteq opened' /\ opened' \subseteq Segments
    BY <1>0 DEF InSegment
  <2>1. DiskTypes'
    <3>1. staging' \subseteq opened'
      BY <1>0 DEF ChunkUnindexed, InSegment, Owns
    <3>2. placed' \subseteq opened'
      BY <1>0, <2>0 DEF ReplayInv, DiskTypes
    <3> QED BY <1>0, <3>1, <3>2 DEF ReplayInv, DiskTypes, ChunkUnindexed, InSegment
  <2>2. DiskNumbered'
    <3>1. Counted(recording_json, opened')
      <4>1. recording_json \in Int /\ Counted(recording_json, opened)
        BY DEF ReplayInv, DiskNumbered, DiskTypes
      <4> QED BY <2>0, <4>1, CountedMore
    <3>2. \A k \in 1 .. Len(index) : Counted(index[k].id + 1, opened')
      BY <2>0 DEF ReplayInv, DiskNumbered, Counted, Ids
    <3> QED BY <1>0, <3>1, <3>2 DEF DiskNumbered, InSegment
  <2>a. Range(struck) \subseteq Range(struck') /\ index' = index
    BY <1>0 DEF ChunkUnindexed
  <2>3. Named'
    BY <1>0, <2>a, KnownStays DEF ReplayInv, Named, InSegment
  <2>4. JoinsMarked'
    BY <2>a DEF ReplayInv, JoinsMarked
  <2>5. Stops(t, "up", recording_json', struck')
    BY <1>0 DEF Stops, ChunkUnindexed
  <2>6. Continues(t, Known', stretch', struck')
    <3> SUFFICES ASSUME Known # <<>>
                 PROVE  /\ Last(Known).pts <= t.pts
                        /\ {"write", "append"} \cap Range(struck') = {} =>
                             Last(Known).stretch = stretch' \/ t.disc
      BY <1>0, <2>a, KnownStays DEF Continues
    <3>1. Last(Known).pts \in Int
      BY KnownIs, LastPts DEF ReplayInv
    <3>2. /\ Last(Known).pts <= st[w].pts
          /\ {"write", "append"} \cap Range(struck) = {} =>
               Last(Known).stretch = stretch \/ st[w].disc
      BY <1>0, WorkerFacts DEF Continues
    <3> QED BY <1>0, <3>1, <3>2 DEF ChunkUnindexed, InSegment
  <2>b. Owns(t, staging', placed', Known')
    BY <1>0, <2>a, KnownStays DEF ChunkUnindexed
  <2>7. \A s \in opened' : s \in HeldBy(t) \/ (s \in opened /\ s \notin HeldBy(st[w]))
    <3>1. HeldBy(t) = HeldBy(o)
      BY DEF ChunkUnindexed
    <3>2. HeldBy(st[w]) \subseteq HeldBy(o) /\ opened' \subseteq opened \cup HeldBy(o)
      BY <1>0 DEF InSegment
    <3> QED BY <3>1, <3>2
  <2> QED BY <1>0, <2>0, <2>1, <2>2, <2>3, <2>4, <2>5, <2>6, <2>7, <2>b
          DEF HolderLeaves, ChunkUnindexed
<1> QED BY <1>1, <1>2, HolderStep

LEMMA WritePlainKeeps ==
    ASSUME ReplayInv, NEW w \in Writers, WritePlain(w)
    PROVE  ReplayInv'
<1>1. PICK roll \in BOOLEAN : Chunk(w, roll) /\ st' = [st EXCEPT ![w] = Observed(w, roll)]
  BY DEF WritePlain
<1>2. UNCHANGED <<placed, recording_json, index, synced, phase, lease, landed, hit,
                  stretch, struck>>
  BY DEF WritePlain
<1>3. PICK o : o = Observed(w, roll)
  OBVIOUS
<1>4. InSegment(w, o)
  BY <1>1, <1>3, ObservedIs
<1>5. ChunkUnindexed(w, o, o)
  BY <1>1, <1>2, <1>3, <1>4 DEF ChunkUnindexed, InSegment, ReplayInv, DiskTypes
<1> QED BY <1>5, ChunkUnindexedKeeps

LEMMA WriteUnindexedKeeps ==
    ASSUME ReplayInv, NEW w \in Writers, WriteUnindexed(w)
    PROVE  ReplayInv'
<1>1. PICK roll \in BOOLEAN :
        /\ Chunk(w, roll)
        /\ st' = [st EXCEPT ![w] = [Observed(w, roll) EXCEPT !.disc = FALSE]]
  BY DEF WriteUnindexed
<1>2. /\ Fails("append")
      /\ UNCHANGED <<placed, recording_json, index, synced, phase, lease, landed, hit, stretch>>
  BY DEF WriteUnindexed
<1>3. PICK o : o = Observed(w, roll)
  OBVIOUS
<1>4. InSegment(w, o)
  BY <1>1, <1>3, ObservedIs
<1>5. PICK t : t = [o EXCEPT !.disc = FALSE]
  OBVIOUS
<1>6. t \in States /\ SameHands(o, t) /\ t.pts = o.pts /\ t.armed = o.armed
  BY <1>4, <1>5 DEF InSegment, States, SameHands
<1>7. struck' \in Seq(Troubles) /\ Range(struck') = Range(struck) \cup {"append"}
  BY <1>2, StruckMore DEF ReplayInv, DiskTypes
<1>8. /\ Tidy(t) /\ Owns(t, staging', placed, Known) /\ Numbered(t, opened')
      /\ HeldBy(t) = HeldBy(o) /\ LastMeta(t, recording_json) = LastMeta(o, recording_json)
      /\ t.id = o.id
  BY <1>4, <1>6, SameHandsKeep DEF InSegment, SameHands
<1>9. ChunkUnindexed(w, o, t)
  <2>1. stretch' \in Nat
    BY <1>2 DEF ReplayInv, DiskTypes
  <2> QED BY <1>1, <1>2, <1>3, <1>4, <1>5, <1>6, <1>7, <1>8, <2>1 DEF ChunkUnindexed, InSegment
<1> QED BY <1>9, ChunkUnindexedKeeps

LEMMA WriteFailsKeeps ==
    ASSUME ReplayInv, NEW w \in Writers, WriteFails(w)
    PROVE  ReplayInv'
<1>1. PICK roll \in BOOLEAN, keyframe \in BOOLEAN :
        /\ Chunk(w, roll) /\ Fails("write") /\ stretch' = NextStretch
        /\ st' = [st EXCEPT ![w] =
                    CloseCurrent([Observed(w, roll) EXCEPT !.disc = @ /\ ~ keyframe])]
        /\ UNCHANGED <<placed, recording_json, index, synced, phase, lease, landed, hit>>
  BY DEF WriteFails
<1>2. PICK o : o = Observed(w, roll)
  OBVIOUS
<1>3. InSegment(w, o)
  BY <1>1, <1>2, ObservedIs
<1>4. PICK u : u = [o EXCEPT !.disc = o.disc /\ ~ keyframe]
  OBVIOUS
<1>5. u \in States /\ SameHands(o, u) /\ u.pts = o.pts /\ u.armed = o.armed
  <2>1. o.disc \in BOOLEAN /\ o \in States
    BY <1>3 DEF InSegment, States
  <2>2. (o.disc /\ ~ keyframe) \in BOOLEAN
    BY <2>1
  <2> QED BY <1>4, <2>1, <2>2 DEF States, SameHands
<1>6. /\ Tidy(u) /\ Owns(u, staging', placed, Known) /\ Numbered(u, opened')
      /\ HeldBy(u) = HeldBy(o)
      /\ "meta" \notin Range(struck) => LastMeta(u, recording_json) = u.id
  BY <1>3, <1>5, SameHandsKeep DEF InSegment, SameHands
<1>7. PICK t : t = CloseCurrent(u)
  OBVIOUS
<1>8. t \in States /\ t.pts = u.pts /\ t.armed = u.armed /\ Tidy(t) /\ HeldBy(t) = HeldBy(u)
  BY <1>5, <1>6, <1>7, CloseCurrentIs, ClosedIsTidy
<1>9. Owns(t, staging', placed, Known)
  <2>1. placed \subseteq Segments /\ Known \in Seq(Entries)
    BY KnownIs DEF ReplayInv, DiskTypes
  <2> QED BY <1>5, <1>6, <1>7, <2>1, ClosedOwns
<1>10. Numbered(t, opened')
  <2>1. /\ opened' \subseteq Segments /\ HeldBy(u) \subseteq opened'
        /\ \A a \in opened' : Counted(a.id + 1, opened')
    BY <1>3, <1>6 DEF InSegment
  <2>2. \A a \in u.current : Counted(a.id + 1, opened')
    BY <2>1 DEF HeldBy
  <2> QED BY <1>5, <1>6, <1>7, <2>1, <2>2, ClosedIsNumbered
<1>11. "meta" \notin Range(struck) => LastMeta(t, recording_json) = t.id
  BY <1>5, <1>6, <1>7, ClosedMeta
<1>12. struck' \in Seq(Troubles) /\ Range(struck') = Range(struck) \cup {"write"}
  BY <1>1, StruckMore DEF ReplayInv, DiskTypes
<1>13. ChunkUnindexed(w, o, t)
  <2>1. stretch' \in Nat
    BY <1>1, NextStretchType DEF ReplayInv, DiskTypes
  <2>2. st' = [st EXCEPT ![w] = t]
    BY <1>1, <1>2, <1>4, <1>7
  <2>3. {"write", "append"} \cap Range(struck') # {}
    BY <1>12
  <2>4. t.armed = TRUE /\ t.pts = o.pts /\ HeldBy(t) = HeldBy(o)
    BY <1>3, <1>5, <1>6, <1>8 DEF InSegment
  <2>5. Range(struck) \subseteq Range(struck')
        /\ ("meta" \notin Range(struck') => LastMeta(t, recording_json) = t.id)
    BY <1>11, <1>12
  <2> QED BY <1>1, <1>3, <1>8, <1>9, <1>10, <1>12, <2>1, <2>2, <2>3, <2>4, <2>5
          DEF ChunkUnindexed
<1> QED BY <1>13, ChunkUnindexedKeeps

(* The entry of a chunk is for the open segment, which nothing in place    *)
(* shares its id with, and goes to the end of the index.                   *)
LEMMA WriteIndexedKeeps ==
    ASSUME ReplayInv, NEW w \in Writers, WriteIndexed(w)
    PROVE  ReplayInv'
<1>1. PICK roll \in BOOLEAN :
        /\ Chunk(w, roll) /\ index' = Append(index, Entry(Observed(w, roll)))
        /\ \E s \in Persisted([Observed(w, roll) EXCEPT !.disc = FALSE]) :
             st' = [st EXCEPT ![w] = s]
        /\ UNCHANGED <<placed, recording_json, synced, phase, lease, landed, hit, stretch,
                       struck>>
  BY DEF WriteIndexed
<1>2. PICK o : o = Observed(w, roll)
  OBVIOUS
<1>3. InSegment(w, o)
  BY <1>1, <1>2, ObservedIs
<1>4. PICK u : u = [o EXCEPT !.disc = FALSE]
  OBVIOUS
<1>5. PICK t \in Persisted(u) : st' = [st EXCEPT ![w] = t]
  BY <1>1, <1>2, <1>4
<1>6. u \in States /\ SameHands(o, u) /\ u.pts = o.pts /\ u.armed = o.armed
  BY <1>3, <1>4 DEF InSegment, States, SameHands
<1>7. /\ Tidy(u) /\ Owns(u, staging', placed, Known) /\ Numbered(u, opened')
      /\ HeldBy(u) = HeldBy(o)
      /\ "meta" \notin Range(struck) => LastMeta(u, recording_json) = u.id
  BY <1>3, <1>6, SameHandsKeep DEF InSegment, SameHands
<1>8. /\ t \in States /\ t.current = o.current /\ t.id = o.id /\ t.pts = o.pts
      /\ t.armed = TRUE /\ Tidy(t) /\ Numbered(t, opened') /\ HeldBy(t) = HeldBy(o)
      /\ "meta" \notin Range(struck) => LastMeta(t, recording_json) = t.id
  <2>1. CASE t = u
    BY <1>3, <1>6, <1>7, <2>1 DEF InSegment, SameHands
  <2>2. CASE t = [u EXCEPT !.jobs = Append(u.jobs, MetaJob(u.id))]
    <3>1. u.jobs \in Seq(Jobs) /\ u.id \in Nat
      BY <1>6 DEF States
    <3>2. MetaJob(u.id) \in Jobs /\ MetaJob(u.id).seg = {} /\ MetaJob(u.id).meta = u.id
      BY <3>1 DEF MetaJob, Jobs
    <3>3. PICK js : js = Append(u.jobs, MetaJob(u.id))
      OBVIOUS
    <3>4. /\ js \in Seq(Jobs) /\ Len(js) = Len(u.jobs) + 1 /\ Len(u.jobs) \in Nat
          /\ \A k \in 1 .. Len(u.jobs) : js[k] = u.jobs[k]
          /\ js[Len(js)] = MetaJob(u.id) /\ js # <<>>
      BY <3>1, <3>2, <3>3
    <3>5. /\ t \in States /\ t.current = u.current /\ t.id = u.id /\ t.pts = u.pts
          /\ t.armed = u.armed /\ t.jobs = js /\ t.step = u.step /\ t.job = u.job
      BY <1>6, <2>2, <3>3, <3>4 DEF States
    <3>6. Tidy(t)
      <4>1. ASSUME NEW k \in 1 .. Len(js), NEW a \in js[k].seg
            PROVE  /\ js[k].seg = {a} /\ a.id < u.id
                   /\ \A l \in k + 1 .. Len(js) : \A b \in js[l].seg : a.id < b.id
        <5>1. k \in 1 .. Len(u.jobs)
          BY <3>2, <3>4, <4>1
        <5>2. /\ u.jobs[k].seg = {a} /\ a.id < u.id
              /\ \A l \in k + 1 .. Len(u.jobs) : \A b \in u.jobs[l].seg : a.id < b.id
          BY <1>7, <3>4, <4>1, <5>1 DEF Tidy
        <5>3. ASSUME NEW l \in k + 1 .. Len(js), NEW b \in js[l].seg PROVE a.id < b.id
          <6>1. js[Len(js)].seg = {}
            BY <3>2, <3>4
          <6>2. l # Len(js)
            BY <5>3, <6>1
          <6>3. l \in k + 1 .. Len(u.jobs) /\ l \in 1 .. Len(u.jobs)
            BY <3>4, <5>1, <6>2
          <6> QED BY <3>4, <5>2, <5>3, <6>3
        <5> QED BY <3>4, <5>1, <5>2, <5>3
      <4> QED BY <1>7, <3>5, <4>1 DEF Tidy
    <3>7. Numbered(t, opened')
      <4>1. Counted(u.id, opened') /\ \A k \in 1 .. Len(u.jobs) : Counted(u.jobs[k].meta, opened')
        BY <1>7 DEF Numbered
      <4>2. \A k \in 1 .. Len(js) : Counted(js[k].meta, opened')
        BY <3>2, <3>4, <4>1
      <4> QED BY <1>7, <3>5, <4>2 DEF Numbered
    <3>8. \A x : x \in HeldBy(t) <=> x \in HeldBy(u)
      <4> SUFFICES ASSUME NEW x PROVE x \in HeldBy(t) <=> x \in HeldBy(u)
        OBVIOUS
      <4>1. x \in HeldBy(u) <=>
              x \in u.current \/ \E k \in 1 .. Len(u.jobs) : x \in u.jobs[k].seg
        BY <1>6, HeldIn
      <4>2. x \in HeldBy(t) <=> x \in t.current \/ \E k \in 1 .. Len(t.jobs) : x \in t.jobs[k].seg
        BY <3>5, HeldIn
      <4> QED BY <3>2, <3>4, <3>5, <4>1, <4>2
    <3>9. HeldBy(t) = HeldBy(u)
      BY <3>8, Zenon
    <3>10. LastMeta(t, recording_json) = t.id
      BY <3>2, <3>4, <3>5 DEF LastMeta
    <3> QED BY <1>3, <1>6, <1>7, <3>5, <3>6, <3>7, <3>9, <3>10 DEF InSegment, SameHands
  <2> QED BY <2>1, <2>2 DEF Persisted
<1>9. PICK a : o.current = {a} /\ a.id = o.id /\ a \in opened' /\ a \in Segments
  BY <1>3 DEF InSegment, Tidy, HeldBy
<1>10. PICK e : e = [id |-> a.id, take |-> a.take, pts |-> o.pts, stretch |-> stretch,
                     disc |-> o.disc]
  OBVIOUS
<1>11. /\ index' = Append(index, e) /\ e \in Entries
       /\ e.id = a.id /\ e.take = a.take /\ e.pts = o.pts /\ e.stretch = stretch
       /\ e.disc = o.disc
  <2>1. (CHOOSE seg \in o.current : TRUE) = a
    BY <1>9
  <2>2. Entry(o) = e
    BY <1>10, <2>1 DEF Entry
  <2>3. o.pts \in Int /\ o.disc \in BOOLEAN /\ stretch \in Nat
    BY <1>3 DEF InSegment, States, ReplayInv, DiskTypes
  <2> QED BY <1>1, <1>2, <1>9, <1>10, <2>2, <2>3 DEF Entries, Segments
<1>12. /\ index \in Seq(Entries) /\ Len(index) \in Nat /\ index' \in Seq(Entries)
       /\ Len(index') = Len(index) + 1 /\ index' # <<>>
       /\ \A k \in 1 .. Len(index) : index'[k] = index[k]
       /\ index'[Len(index) + 1] = e /\ Last(index') = e
  BY <1>11 DEF ReplayInv, DiskTypes, Last
<1>a. Known' = <<>> \/ (Known = index /\ Known' = index')
  BY <1>1 DEF Known
<1>b. Known' = <<>> => 1 .. Len(Known') = {}
  OBVIOUS
<1>13. phase[w] = "up" /\ phase[w] \in Working /\ lease = w
  BY <1>3, WorkerFacts DEF InSegment, Working
<1>14. HolderMoves(w, t, "up")
  BY <1>1, <1>5, <1>8, <1>13, SamePhase DEF HolderMoves, Holding, Phases, Working
<1>15. HolderLeaves(w, t, "up")
  <2>0. opened \subseteq opened' /\ opened' \subseteq Segments /\ HeldBy(o) \subseteq opened'
    BY <1>3 DEF InSegment
  <2>1. DiskTypes'
    <3>1. staging' \subseteq opened' /\ placed' \subseteq opened'
      BY <1>1, <1>3, <2>0 DEF InSegment, Owns, ReplayInv, DiskTypes
    <3>2. synced' \in 0 .. Len(index')
      BY <1>1, <1>12 DEF ReplayInv, DiskTypes
    <3> QED BY <1>1, <1>3, <1>12, <3>1, <3>2 DEF ReplayInv, DiskTypes, InSegment
  <2>2. DiskNumbered'
    <3>1. Counted(recording_json, opened')
      BY <2>0, CountedMore DEF ReplayInv, DiskNumbered, DiskTypes
    <3>2. \A k \in 1 .. Len(index) : Counted(index[k].id + 1, opened')
      BY <2>0 DEF ReplayInv, DiskNumbered, Counted, Ids
    <3>3. \A s \in opened' : Counted(s.id + 1, opened')
      BY <1>3 DEF InSegment
    <3>4. Counted(e.id + 1, opened')
      BY <1>9, <1>11, <3>3
    <3>5. \A k \in 1 .. Len(index') : Counted(index'[k].id + 1, opened')
      BY <1>12, <3>2, <3>4
    <3> QED BY <1>1, <3>1, <3>3, <3>5 DEF DiskNumbered
  <2>3. Named'
    <3>1. \A p \in placed : p.id < a.id /\ p.id \in Nat /\ a.id \in Nat
      BY <1>3, <1>9 DEF InSegment, Owns, Segments, ReplayInv, DiskTypes
    <3>2. \A p \in placed : p.id # e.id
      BY <1>11, <3>1
    <3>3. ASSUME NEW p \in staging', p.id = e.id PROVE p.take = e.take
      <4>1. p \in HeldBy(o) /\ o \in States /\ Tidy(o)
        BY <1>3, <3>3 DEF InSegment, Owns
      <4>2. ASSUME NEW k \in 1 .. Len(o.jobs), p \in o.jobs[k].seg PROVE FALSE
        <5>1. p.id < o.id
          BY <4>1, <4>2 DEF Tidy
        <5>2. o.id \in Nat
          BY <4>1 DEF States
        <5> QED BY <1>9, <1>11, <3>3, <5>1, <5>2
      <4>3. p \in o.current
        BY <4>1, <4>2, HeldIn
      <4> QED BY <1>9, <1>11, <4>3
    <3>4. NoneOther(Known, placed) /\ NoneOther(Known, staging')
      BY <1>3 DEF ReplayInv, Named, InSegment
    <3>5. NoneOther(Known', placed) /\ NoneOther(Known', staging')
      <4>1. CASE Known' = <<>>
        BY <1>b, <4>1 DEF NoneOther
      <4>2. CASE Known = index /\ Known' = index'
        BY <1>12, <3>2, <3>3, <3>4, <4>2 DEF NoneOther
      <4> QED BY <1>a, <4>1, <4>2
    <3> QED BY <1>1, <3>5 DEF Named
  <2>4. JoinsMarked'
    <3> SUFFICES ASSUME {"write", "append", "load"} \cap Range(struck) = {},
                        NEW k \in 1 .. Len(index') - 1
                 PROVE  /\ index'[k].pts <= index'[k + 1].pts
                        /\ index'[k].stretch # index'[k + 1].stretch => index'[k + 1].disc
      BY <1>1 DEF JoinsMarked
    <3>1. CASE k + 1 \in 1 .. Len(index)
      BY <1>12, <3>1 DEF ReplayInv, JoinsMarked
    <3>2. CASE k = Len(index) /\ index # <<>>
      <4>1. index'[k] = Last(index) /\ index'[k + 1] = e
        BY <1>12, <3>2 DEF Last
      <4>2. Last(index).pts \in Int
        BY <3>2, LastPts DEF ReplayInv, DiskTypes
      <4>3. Last(index).pts <= st[w].pts /\ (Last(index).stretch = stretch \/ st[w].disc)
        <5>1. Known = index
          BY DEF Known
        <5> QED BY <1>13, <3>2, <5>1, WorkerFacts DEF Continues
      <4>4. st[w].pts <= o.pts /\ st[w].pts \in Int /\ o.pts \in Int /\ o.disc = st[w].disc
        BY <1>3 DEF InSegment
      <4> QED BY <1>11, <4>1, <4>2, <4>3, <4>4
    <3> QED BY <1>12, <3>1, <3>2
  <2>5. Owns(t, staging', placed', Known')
    <3>1. \A k \in 1 .. Len(Known') :
            \/ Known'[k].id < t.id
            \/ \E b \in t.current : Known'[k].id = b.id /\ Known'[k].take = b.take
      <4>1. CASE Known' = <<>>
        BY <1>b, <4>1
      <4>2. CASE Known = index /\ Known' = index'
        BY <1>3, <1>8, <1>9, <1>11, <1>12, <4>2 DEF InSegment, Owns
      <4> QED BY <1>a, <4>1, <4>2
    <3> QED BY <1>1, <1>3, <1>8, <3>1 DEF InSegment, Owns
  <2>6. Stops(t, "up", recording_json', struck')
    BY <1>1, <1>8 DEF Stops
  <2>7. Continues(t, Known', stretch', struck')
    <3>1. o.pts \in Int
      BY <1>3 DEF InSegment
    <3>2. CASE Known' = <<>>
      BY <3>2 DEF Continues
    <3>3. CASE Known' = index'
      BY <1>1, <1>8, <1>11, <1>12, <3>1, <3>3 DEF Continues
    <3> QED BY <1>a, <3>2, <3>3
  <2>8. \A s \in opened' : s \in HeldBy(t) \/ (s \in opened /\ s \notin HeldBy(st[w]))
    <3>1. HeldBy(st[w]) \subseteq HeldBy(o) /\ opened' \subseteq opened \cup HeldBy(o)
      BY <1>3 DEF InSegment
    <3> QED BY <1>8, <3>1
  <2> QED BY <1>1, <1>8, <2>0, <2>1, <2>2, <2>3, <2>4, <2>5, <2>6, <2>7, <2>8 DEF HolderLeaves
<1> QED BY <1>14, <1>15, HolderStep

------------------------------------------------------------------------------
(* The closer                                                              *)

(* The closer takes the first job: its segment, if any, is told from all   *)
(* that the writer still holds by its id.                                  *)
LEMMA ReceivedIs ==
    ASSUME NEW s \in States, Tidy(s), s.jobs # <<>>, NEW step \in {"recv", "sync"}
    PROVE  LET t == Received(s, step) IN
           /\ t \in States /\ Tidy(t)
           /\ t.current = s.current /\ t.id = s.id /\ t.armed = s.armed /\ t.pts = s.pts
           /\ t.disc = s.disc /\ t.step = step /\ t.job = s.jobs[1] /\ t.job \in Jobs
           /\ Head(s.jobs) = s.jobs[1] /\ Len(s.jobs) \in Nat
           /\ t.jobs \in Seq(Jobs) /\ Len(t.jobs) = Len(s.jobs) - 1
           /\ \A k \in 1 .. Len(t.jobs) : t.jobs[k] = s.jobs[k + 1]
           /\ \A x : x \in HeldBy(s) <=> x \in HeldBy(t) \/ x \in s.jobs[1].seg
           /\ \A a \in s.jobs[1].seg : \A x \in HeldBy(t) : x.id # a.id
<1>1. s.jobs \in Seq(Jobs) /\ s.id \in Nat /\ Len(s.jobs) \in Nat /\ Len(s.jobs) >= 1
  BY DEF States
<1>2. PICK h, js : h = Head(s.jobs) /\ js = Tail(s.jobs)
  OBVIOUS
<1>3. /\ h = s.jobs[1] /\ h \in Jobs /\ js \in Seq(Jobs) /\ Len(js) = Len(s.jobs) - 1
      /\ \A k \in 1 .. Len(js) : js[k] = s.jobs[k + 1]
  BY <1>1, <1>2
<1>4. PICK t : t = Received(s, step)
  OBVIOUS
<1>5. /\ t \in States /\ t.current = s.current /\ t.id = s.id /\ t.armed = s.armed
      /\ t.pts = s.pts /\ t.disc = s.disc /\ t.step = step /\ t.job = h /\ t.jobs = js
  BY <1>2, <1>3, <1>4 DEF Received, States
<1>6. ASSUME NEW k \in 1 .. Len(js)
      PROVE  /\ k + 1 \in 1 .. Len(s.jobs) /\ k + 1 \in 1 + 1 .. Len(s.jobs)
             /\ js[k] = s.jobs[k + 1]
  BY <1>1, <1>3
<1>7. ASSUME NEW k \in 1 .. Len(js), NEW a \in js[k].seg
      PROVE  /\ js[k].seg = {a} /\ a.id < s.id
             /\ \A l \in k + 1 .. Len(js) : \A b \in js[l].seg : a.id < b.id
  <2>1. /\ s.jobs[k + 1].seg = {a} /\ a.id < s.id
        /\ \A l \in (k + 1) + 1 .. Len(s.jobs) : \A b \in s.jobs[l].seg : a.id < b.id
    BY <1>6, <1>7 DEF Tidy
  <2>2. ASSUME NEW l \in k + 1 .. Len(js) PROVE l + 1 \in (k + 1) + 1 .. Len(s.jobs) /\ l \in 1 .. Len(js)
    BY <1>1, <1>3
  <2> QED BY <1>6, <2>1, <2>2
<1>8. Tidy(t)
  BY <1>3, <1>5, <1>7 DEF Tidy
<1>9. ASSUME NEW x
      PROVE  x \in HeldBy(s) <=> x \in HeldBy(t) \/ x \in s.jobs[1].seg
  <2>1. x \in HeldBy(s) <=> x \in s.current \/ \E k \in 1 .. Len(s.jobs) : x \in s.jobs[k].seg
    BY HeldIn
  <2>2. x \in HeldBy(t) <=> x \in s.current \/ \E k \in 1 .. Len(js) : x \in js[k].seg
    BY <1>5, HeldIn
  <2>3. (\E k \in 1 .. Len(s.jobs) : x \in s.jobs[k].seg) <=>
          x \in s.jobs[1].seg \/ \E k \in 1 .. Len(js) : x \in js[k].seg
    <3>1. ASSUME NEW k \in 1 .. Len(s.jobs), x \in s.jobs[k].seg, k # 1
          PROVE  \E l \in 1 .. Len(js) : x \in js[l].seg
      <4>1. k - 1 \in 1 .. Len(js) /\ js[k - 1] = s.jobs[k]
        BY <1>1, <1>3, <3>1
      <4> QED BY <3>1, <4>1
    <3>2. 1 \in 1 .. Len(s.jobs)
      BY <1>1
    <3> QED BY <1>6, <3>1, <3>2
  <2> QED BY <2>1, <2>2, <2>3
<1>10. ASSUME NEW a \in s.jobs[1].seg, NEW x \in HeldBy(t) PROVE x.id # a.id
  <2>0. 1 \in 1 .. Len(s.jobs) /\ s.jobs[1] \in Jobs
    BY <1>1
  <2>1. a.id \in Nat /\ a.id < s.id
    BY <1>10, <2>0 DEF Tidy, Jobs, Segments
  <2>2. CASE x \in s.current
    BY <2>1, <2>2 DEF Tidy
  <2>3. ASSUME NEW k \in 1 .. Len(js), x \in js[k].seg PROVE x.id # a.id
    <3>1. a.id < x.id
      BY <1>6, <1>10, <2>0, <2>3 DEF Tidy
    <3>2. x.id \in Nat
      <4>1. js[k] \in Jobs
        BY <1>3
      <4> QED BY <2>3, <4>1 DEF Jobs, Segments
    <3> QED BY <2>1, <3>1, <3>2
  <2> QED BY <1>5, <1>10, <2>2, <2>3, HeldIn
<1> QED BY <1>1, <1>2, <1>3, <1>4, <1>5, <1>8, <1>9, <1>10

LEMMA ReceivedNumbered ==
    ASSUME NEW s \in States, Tidy(s), s.jobs # <<>>, NEW step \in {"recv", "sync"},
           NEW segs, Numbered(s, segs)
    PROVE  Numbered(Received(s, step), segs) /\ Counted(s.jobs[1].meta, segs)
<1>1. PICK t : t = Received(s, step)
  OBVIOUS
<1>2. /\ t.id = s.id /\ t.step = step /\ t.job = s.jobs[1] /\ Len(s.jobs) \in Nat
      /\ Len(t.jobs) = Len(s.jobs) - 1
      /\ \A k \in 1 .. Len(t.jobs) : t.jobs[k] = s.jobs[k + 1]
  BY <1>1, ReceivedIs
<1>3. Len(s.jobs) >= 1
  BY DEF States
<1>4. \A k \in 1 .. Len(t.jobs) : k + 1 \in 1 .. Len(s.jobs)
  BY <1>2
<1> QED BY <1>1, <1>2, <1>3, <1>4 DEF Numbered

LEMMA ReceivedMeta ==
    ASSUME NEW s \in States, Tidy(s), s.jobs # <<>>, NEW j, NEW i
    PROVE  /\ LastMeta(Received(s, "sync"), j) = LastMeta(s, i)
           /\ LastMeta(Received(s, "recv"), s.jobs[1].meta) = LastMeta(s, i)
<1>1. s.jobs \in Seq(Jobs) /\ Len(s.jobs) \in Nat /\ Len(s.jobs) >= 1
  BY DEF States
<1>2. ASSUME NEW step \in {"recv", "sync"}, NEW t, t = Received(s, step), NEW k,
             step = "recv" => k = s.jobs[1].meta
      PROVE  LastMeta(t, k) = LastMeta(s, i)
  <2>1. /\ t.step = step /\ t.job = s.jobs[1] /\ t.jobs \in Seq(Jobs)
        /\ Len(t.jobs) = Len(s.jobs) - 1
        /\ \A l \in 1 .. Len(t.jobs) : t.jobs[l] = s.jobs[l + 1]
    <3> DEFINE r == Received(s, step)
    <3>1. /\ r.step = step /\ r.job = s.jobs[1] /\ r.jobs \in Seq(Jobs)
          /\ Len(r.jobs) = Len(s.jobs) - 1
          /\ \A l \in 1 .. Len(r.jobs) : r.jobs[l] = s.jobs[l + 1]
      <4> HIDE DEF r
      <4>1. r = Received(s, step)
        BY DEF r
      <4> QED BY <4>1, ReceivedIs
    <3>2. t = r
      BY <1>2
    <3> HIDE DEF r
    <3> QED BY <3>1, <3>2
  <2>2. CASE t.jobs # <<>>
    <3>1. Len(t.jobs) \in 1 .. Len(t.jobs)
      BY <2>1, <2>2
    <3>2. t.jobs[Len(t.jobs)] = s.jobs[Len(s.jobs)]
      BY <1>1, <2>1, <3>1
    <3> QED BY <2>2, <3>2 DEF LastMeta
  <2>3. CASE t.jobs = <<>>
    <3>1. Len(s.jobs) = 1
      BY <1>1, <2>1, <2>3
    <3> QED BY <1>2, <2>1, <2>3, <3>1 DEF LastMeta
  <2> QED BY <2>2, <2>3
<1> QED BY <1>2

(* What the closer of writer w knows when it takes a job.                  *)
LEMMA ClosingFacts ==
    ASSUME ReplayInv, NEW w \in Writers, NEW step, Closing(w, step)
    PROVE  /\ phase[w] \in Working /\ st[w] \in States /\ st[w].step = step
           /\ phase[w] = "up" /\ ~ st[w].armed => st[w].jobs = <<>> /\ step = "recv"
           /\ phase[w] \in {"drain", "exit"} \/ ~ st[w].armed => st[w].current = {}
           /\ "meta" \notin Range(struck) => LastMeta(st[w], recording_json) = st[w].id
<1>1. phase[w] \in Working /\ st[w].step = step
  BY DEF Closing, Working
<1> QED BY <1>1, WorkerFacts DEF Stops

(* The closer takes a job with a segment, which leaves .tmp/, into place   *)
(* or for good.                                                            *)
LEMMA CloseSegmentKeeps ==
    ASSUME ReplayInv, NEW w \in Writers, CloseSegment(w) \/ CloseSegmentFails(w)
    PROVE  ReplayInv'
<1>1. /\ Closing(w, "recv") /\ st[w].jobs # <<>> /\ Head(st[w].jobs).seg # {}
      /\ st' = [st EXCEPT ![w] = Received(st[w], "sync")]
      /\ UNCHANGED <<recording_json, index, synced, phase, lease, opened, stretch>>
  BY DEF CloseSegment, CloseSegmentFails
<1>2. PICK s \in States : s = st[w]
  BY <1>1, ClosingFacts
<1>3. /\ phase[w] \in Working /\ lease = w /\ Tidy(s) /\ Numbered(s, opened)
      /\ Owns(s, staging, placed, Known) /\ Continues(s, Known, stretch, struck)
      /\ HeldBy(s) \subseteq opened
  BY <1>1, <1>2, ClosingFacts, WorkerFacts
<1>4. PICK t : t = Received(s, "sync")
  OBVIOUS
<1>5. /\ t \in States /\ Tidy(t) /\ t.current = s.current /\ t.id = s.id
      /\ t.armed = s.armed /\ t.pts = s.pts /\ t.disc = s.disc /\ Head(s.jobs) = s.jobs[1]
  BY <1>1, <1>2, <1>3, <1>4, ReceivedIs
<1>6. PICK a : s.jobs[1].seg = {a} /\ a.id < s.id
  <2>1. 1 \in 1 .. Len(s.jobs)
    BY <1>1, <1>2 DEF States
  <2> QED BY <1>1, <1>2, <1>3, <1>5, <2>1 DEF Tidy
<1>7. /\ \A x : x \in HeldBy(s) <=> x \in HeldBy(t) \/ x \in {a}
      /\ \A x \in HeldBy(t) : x.id # a.id
  BY <1>1, <1>2, <1>3, <1>4, <1>6, ReceivedIs
<1>8. a \in staging /\ staging = HeldBy(s) /\ a \in opened
  BY <1>3, <1>7 DEF Owns
<1>9. \/ /\ placed' = {p \in placed : p.id # a.id} \cup {a} /\ staging' = staging \ {a}
         /\ landed' = landed \cup {a} /\ hit' = hit /\ struck' = struck
      \/ /\ placed' = placed /\ staging' = {x \in staging : x.id # a.id}
         /\ landed' = landed /\ hit' = hit \cup {a} /\ Fails("close")
  <2>1. CASE CloseSegment(w)
    BY <1>2, <1>5, <1>6, <2>1 DEF CloseSegment, Ids
  <2>2. CASE CloseSegmentFails(w)
    BY <1>2, <1>5, <1>6, <1>8, <2>2 DEF CloseSegmentFails, Ids
  <2> QED BY <2>1, <2>2
<1>10. staging' = HeldBy(t)
  <2>1. \A x : x \in staging' <=> x \in HeldBy(t)
    BY <1>7, <1>8, <1>9
  <2> QED BY <2>1, Zenon
<1>11. placed' \subseteq placed \cup {a}
  BY <1>9
<1>12. struck' \in Seq(Troubles) /\ Range(struck) \subseteq Range(struck')
       /\ {"write", "append", "load", "meta"} \cap Range(struck')
            = {"write", "append", "load", "meta"} \cap Range(struck)
  BY <1>9, StruckMore DEF ReplayInv, DiskTypes
<1>13. HolderMoves(w, t, phase[w])
  BY <1>1, <1>2, <1>3, <1>4, <1>5, SamePhase DEF HolderMoves, Holding, Phases, Working
<1>14. HolderLeaves(w, t, phase[w])
  <2>1. DiskTypes'
    <3>1. staging' \subseteq opened /\ placed' \subseteq opened
      BY <1>8, <1>9, <1>11 DEF ReplayInv, DiskTypes
    <3> QED BY <1>1, <1>12, <3>1 DEF ReplayInv, DiskTypes
  <2>2. DiskNumbered'
    BY <1>1 DEF ReplayInv, DiskNumbered
  <2>3. Named'
    <3>1. NoneOther(Known, placed) /\ NoneOther(Known, staging)
      BY DEF ReplayInv, Named
    <3>2. staging' \subseteq staging
      BY <1>9
    <3>3. NoneOther(Known, placed') /\ NoneOther(Known, staging')
      BY <1>8, <1>11, <3>1, <3>2 DEF NoneOther
    <3> QED BY <1>1, <1>12, <3>3, KnownStays DEF Named
  <2>4. JoinsMarked'
    BY <1>1, <1>12 DEF ReplayInv, JoinsMarked
  <2>5. Numbered(t, opened')
    BY <1>1, <1>2, <1>3, <1>4, ReceivedNumbered
  <2>6. Owns(t, staging', placed', Known')
    <3>1. Owns(t, staging', placed', Known)
      BY <1>1, <1>3, <1>5, <1>6, <1>10, <1>11 DEF Owns
    <3> QED BY <1>1, <1>12, <3>1, KnownStays
  <2>7. Stops(t, phase[w], recording_json', struck')
    <3>1. LastMeta(t, recording_json) = LastMeta(s, recording_json)
      BY <1>1, <1>2, <1>3, <1>4, ReceivedMeta
    <3>2. "meta" \notin Range(struck') => "meta" \notin Range(struck)
      BY <1>12
    <3>3. ~ (phase[w] = "up" /\ ~ s.armed)
      BY <1>1, <1>2, ClosingFacts
    <3>4. phase[w] \in {"drain", "exit"} \/ ~ s.armed => s.current = {}
      BY <1>1, <1>2, ClosingFacts
    <3>5. "meta" \notin Range(struck) => LastMeta(s, recording_json) = s.id
      BY <1>1, <1>2, ClosingFacts
    <3> QED BY <1>1, <1>5, <3>1, <3>2, <3>3, <3>4, <3>5 DEF Stops
  <2>8. Continues(t, Known', stretch', struck')
    <3>1. {"write", "append"} \cap Range(struck') = {} => {"write", "append"} \cap Range(struck) = {}
      BY <1>12
    <3>2. Continues(t, Known, stretch', struck')
      BY <1>1, <1>3, <1>5, <3>1 DEF Continues
    <3> QED BY <1>1, <1>12, <3>2, KnownStays
  <2>9. \A x \in opened' : \/ x \in landed' \cup hit' \cup HeldBy(t)
                           \/ x \in opened /\ x \notin HeldBy(st[w])
    BY <1>1, <1>2, <1>7, <1>9
  <2>10. landed \subseteq landed' /\ hit \subseteq hit'
    BY <1>9
  <2> QED BY <1>1, <1>5, <2>1, <2>2, <2>3, <2>4, <2>5, <2>6, <2>7, <2>8, <2>9, <2>10
          DEF HolderLeaves
<1> QED BY <1>13, <1>14, HolderStep

LEMMA WriteMetaAloneKeeps ==
    ASSUME ReplayInv, NEW w \in Writers, WriteMetaAlone(w)
    PROVE  ReplayInv'
<1>1. /\ Closing(w, "recv") /\ st[w].jobs # <<>> /\ Head(st[w].jobs).seg = {}
      /\ st' = [st EXCEPT ![w] = Received(st[w], "recv")]
      /\ UNCHANGED <<placed, staging, index, synced, phase, lease, opened, landed, hit, stretch>>
      /\ \/ recording_json' = Head(st[w].jobs).meta /\ struck' = struck
         \/ Fails("meta") /\ recording_json' = recording_json
  BY DEF WriteMetaAlone
<1>2. PICK s \in States : s = st[w]
  BY <1>1, ClosingFacts
<1>3. /\ phase[w] \in Working /\ lease = w /\ Tidy(s) /\ Numbered(s, opened)
      /\ Owns(s, staging, placed, Known) /\ Continues(s, Known, stretch, struck)
  BY <1>1, <1>2, ClosingFacts, WorkerFacts
<1>4. PICK t : t = Received(s, "recv")
  OBVIOUS
<1>5. /\ t \in States /\ Tidy(t) /\ t.current = s.current /\ t.id = s.id
      /\ t.armed = s.armed /\ t.pts = s.pts /\ t.disc = s.disc /\ Head(s.jobs) = s.jobs[1]
      /\ s.jobs[1] \in Jobs
  BY <1>1, <1>2, <1>3, <1>4, ReceivedIs
<1>6. \A x : x \in HeldBy(s) <=> x \in HeldBy(t) \/ x \in s.jobs[1].seg
  BY <1>1, <1>2, <1>3, <1>4, ReceivedIs
<1>7. HeldBy(t) = HeldBy(s)
  <2>1. s.jobs[1].seg = {}
    BY <1>1, <1>2, <1>5
  <2>2. \A x : x \in HeldBy(t) <=> x \in HeldBy(s)
    BY <1>6, <2>1
  <2> QED BY <2>2, Zenon
<1>8. /\ struck' \in Seq(Troubles) /\ Range(struck) \subseteq Range(struck')
      /\ {"write", "append"} \cap Range(struck') = {} => {"write", "append"} \cap Range(struck) = {}
      /\ "meta" \notin Range(struck') =>
           "meta" \notin Range(struck) /\ recording_json' = s.jobs[1].meta
  <2>1. CASE recording_json' = Head(st[w].jobs).meta /\ struck' = struck
    BY <1>2, <1>5, <2>1 DEF ReplayInv, DiskTypes
  <2>2. CASE Fails("meta")
    BY <2>2, StruckMore DEF ReplayInv, DiskTypes
  <2> QED BY <1>1, <2>1, <2>2
<1>9. HolderMoves(w, t, phase[w])
  BY <1>1, <1>2, <1>3, <1>4, <1>5, SamePhase DEF HolderMoves, Holding, Phases, Working
<1>10. HolderLeaves(w, t, phase[w])
  <2>0. /\ recording_json' \in Nat /\ Counted(recording_json', opened)
        /\ Numbered(t, opened)
    <3>1. Numbered(t, opened) /\ Counted(s.jobs[1].meta, opened) /\ s.jobs[1].meta \in Nat
      BY <1>1, <1>2, <1>3, <1>4, <1>5, ReceivedNumbered DEF Jobs
    <3>2. recording_json \in Nat /\ Counted(recording_json, opened)
      BY DEF ReplayInv, DiskTypes, DiskNumbered
    <3> QED BY <1>1, <1>2, <1>5, <3>1, <3>2
  <2>1. DiskTypes'
    BY <1>1, <1>8, <2>0 DEF ReplayInv, DiskTypes
  <2>2. DiskNumbered' /\ Named'
    BY <1>1, <1>8, <2>0, KnownStays DEF ReplayInv, DiskNumbered, Named
  <2>3. JoinsMarked'
    BY <1>1, <1>8 DEF ReplayInv, JoinsMarked
  <2>4. Owns(t, staging', placed', Known')
    <3>1. Owns(t, staging', placed', Known)
      BY <1>1, <1>3, <1>5, <1>7 DEF Owns
    <3> QED BY <1>1, <1>8, <3>1, KnownStays
  <2>5. Stops(t, phase[w], recording_json', struck')
    <3>1. LastMeta(t, s.jobs[1].meta) = LastMeta(s, recording_json)
      BY <1>1, <1>2, <1>3, <1>4, ReceivedMeta
    <3>2. ~ (phase[w] = "up" /\ ~ s.armed)
      BY <1>1, <1>2, ClosingFacts
    <3>3. phase[w] \in {"drain", "exit"} \/ ~ s.armed => s.current = {}
      BY <1>1, <1>2, ClosingFacts
    <3>4. "meta" \notin Range(struck) => LastMeta(s, recording_json) = s.id
      BY <1>1, <1>2, ClosingFacts
    <3> QED BY <1>5, <1>8, <3>1, <3>2, <3>3, <3>4 DEF Stops
  <2>6. Continues(t, Known', stretch', struck')
    <3>1. Continues(t, Known, stretch', struck')
      BY <1>1, <1>3, <1>5, <1>8 DEF Continues
    <3> QED BY <1>1, <1>8, <3>1, KnownStays
  <2>7. \A x \in opened' : \/ x \in landed' \cup hit' \cup HeldBy(t)
                           \/ x \in opened /\ x \notin HeldBy(st[w])
    BY <1>1, <1>2, <1>7
  <2> QED BY <1>1, <1>5, <2>0, <2>1, <2>2, <2>3, <2>4, <2>5, <2>6, <2>7 DEF HolderLeaves
<1> QED BY <1>9, <1>10, HolderStep

(* The closer goes on with its job.                                        *)
LEMMA StepIs ==
    ASSUME NEW s \in States, Tidy(s), s.step # "recv", NEW step \in {"meta", "retain", "recv"}
    PROVE  LET t == [s EXCEPT !.step = step] IN
           /\ t \in States /\ Tidy(t) /\ HeldBy(t) = HeldBy(s) /\ t.current = s.current
           /\ t.id = s.id /\ t.jobs = s.jobs /\ t.job = s.job /\ t.step = step
           /\ t.armed = s.armed /\ t.pts = s.pts /\ t.disc = s.disc /\ s.job \in Jobs
<1>1. PICK t : t = [s EXCEPT !.step = step]
  OBVIOUS
<1>2. /\ t \in States /\ t.current = s.current
      /\ t.id = s.id /\ t.jobs = s.jobs /\ t.job = s.job /\ t.step = step
      /\ t.armed = s.armed /\ t.pts = s.pts /\ t.disc = s.disc
  BY <1>1 DEF States
<1>3. Tidy(t) /\ s.job \in Jobs
  BY <1>2 DEF Tidy
<1>4. HeldBy(t) = HeldBy(s)
  BY <1>2 DEF HeldBy
<1> QED BY <1>1, <1>2, <1>3, <1>4

(* It does so when it has synced the index, written recording.json or not, *)
(* and removed the oldest segments.                                        *)
CloserGoesOn(w, from, to) ==
    /\ Closing(w, from) /\ st' = [st EXCEPT ![w].step = to]
    /\ UNCHANGED <<staging, index, phase, lease, opened, landed, hit, stretch>>
    /\ placed' \subseteq placed /\ synced' \in 0 .. Len(index)
    /\ recording_json' \in {recording_json, st[w].job.meta}
    /\ struck' \in Seq(Troubles) /\ Range(struck) \subseteq Range(struck')
    /\ \/ from = "sync" /\ to = "meta" /\ recording_json' = recording_json
       \/ from = "meta" /\ to = "retain" /\ recording_json' = st[w].job.meta
       \/ from = "meta" /\ to = "retain" /\ "meta" \in Range(struck')
       \/ from = "retain" /\ to = "recv" /\ recording_json' = recording_json

LEMMA CloserGoesOnKeeps ==
    ASSUME ReplayInv, NEW w \in Writers, NEW from \in {"sync", "meta", "retain"},
           NEW to \in {"meta", "retain", "recv"}, CloserGoesOn(w, from, to),
           from = "retain" => recording_json' = recording_json
    PROVE  ReplayInv'
<1>1. /\ Closing(w, from) /\ st' = [st EXCEPT ![w].step = to]
      /\ UNCHANGED <<staging, index, phase, lease, opened, landed, hit, stretch>>
      /\ placed' \subseteq placed /\ synced' \in 0 .. Len(index)
      /\ recording_json' \in {recording_json, st[w].job.meta}
      /\ struck' \in Seq(Troubles) /\ Range(struck) \subseteq Range(struck')
  BY DEF CloserGoesOn
<1>2. PICK s \in States : s = st[w]
  BY <1>1, ClosingFacts
<1>3. /\ phase[w] \in Working /\ lease = w /\ Tidy(s) /\ Numbered(s, opened)
      /\ Owns(s, staging, placed, Known) /\ Continues(s, Known, stretch, struck)
      /\ s.step = from /\ s.step # "recv"
  BY <1>1, <1>2, ClosingFacts, WorkerFacts
<1>4. PICK t : t = [s EXCEPT !.step = to]
  OBVIOUS
<1>5. /\ t \in States /\ Tidy(t) /\ HeldBy(t) = HeldBy(s) /\ t.current = s.current
      /\ t.id = s.id /\ t.jobs = s.jobs /\ t.job = s.job /\ t.step = to
      /\ t.armed = s.armed /\ t.pts = s.pts /\ t.disc = s.disc /\ s.job \in Jobs
  BY <1>3, <1>4, StepIs
<1>6. HolderMoves(w, t, phase[w])
  <2>1. st' = [st EXCEPT ![w] = t]
    BY <1>1, <1>2, <1>4
  <2> QED BY <1>1, <1>3, <1>5, <2>1, SamePhase DEF HolderMoves, Holding, Phases, Working
<1>7. HolderLeaves(w, t, phase[w])
  <2>0. recording_json' \in Nat /\ Counted(recording_json', opened)
    <3>1. recording_json \in Nat /\ Counted(recording_json, opened)
      BY DEF ReplayInv, DiskTypes, DiskNumbered
    <3>2. s.job.meta \in Nat
      BY <1>5 DEF Jobs
    <3>3. from \in {"sync", "meta"} => Counted(s.job.meta, opened)
      BY <1>3 DEF Numbered
    <3> QED BY <1>1, <1>2, <3>1, <3>2, <3>3
  <2>1. DiskTypes'
    BY <1>1, <2>0 DEF ReplayInv, DiskTypes
  <2>2. DiskNumbered' /\ Named'
    <3>1. NoneOther(Known, placed') /\ NoneOther(Known, staging')
      BY <1>1 DEF ReplayInv, Named, NoneOther
    <3> QED BY <1>1, <2>0, <3>1, KnownStays DEF ReplayInv, DiskNumbered, Named
  <2>3. JoinsMarked'
    BY <1>1 DEF ReplayInv, JoinsMarked
  <2>4. Numbered(t, opened')
    <3>1. to = "meta" => from = "sync"
      BY DEF CloserGoesOn
    <3> QED BY <1>1, <1>3, <1>5, <3>1 DEF Numbered
  <2>5. Owns(t, staging', placed', Known')
    <3>1. Owns(t, staging', placed', Known)
      BY <1>1, <1>3, <1>5 DEF Owns
    <3> QED BY <1>1, <3>1, KnownStays
  <2>6. Stops(t, phase[w], recording_json', struck')
    <3>1. ~ (phase[w] = "up" /\ ~ s.armed)
      BY <1>1, <1>2, <1>3, ClosingFacts
    <3>2. phase[w] \in {"drain", "exit"} \/ ~ s.armed => s.current = {}
      BY <1>1, <1>2, ClosingFacts
    <3>3. "meta" \notin Range(struck') => LastMeta(t, recording_json') = t.id
      <4> SUFFICES ASSUME "meta" \notin Range(struck') PROVE LastMeta(t, recording_json') = t.id
        OBVIOUS
      <4>1. LastMeta(s, recording_json) = s.id
        BY <1>1, <1>2, ClosingFacts
      <4> QED BY <1>2, <1>3, <1>5, <4>1 DEF LastMeta, CloserGoesOn
    <3> QED BY <1>5, <3>1, <3>2, <3>3 DEF Stops
  <2>7. Continues(t, Known', stretch', struck')
    <3>1. {"write", "append"} \cap Range(struck') = {} => {"write", "append"} \cap Range(struck) = {}
      BY <1>1
    <3>2. Continues(t, Known, stretch', struck')
      BY <1>1, <1>3, <1>5, <3>1 DEF Continues
    <3> QED BY <1>1, <3>2, KnownStays
  <2>8. \A x \in opened' : \/ x \in landed' \cup hit' \cup HeldBy(t)
                           \/ x \in opened /\ x \notin HeldBy(st[w])
    BY <1>1, <1>2, <1>5
  <2> QED BY <1>1, <1>5, <2>1, <2>2, <2>3, <2>4, <2>5, <2>6, <2>7, <2>8 DEF HolderLeaves
<1> QED BY <1>6, <1>7, HolderStep

LEMMA CloserKeeps ==
    ASSUME ReplayInv, NEW w \in Writers, CloserStep(w)
    PROVE  ReplayInv'
<1>0. /\ index \in Seq(Entries) /\ synced \in 0 .. Len(index) /\ Len(index) \in Nat
      /\ struck \in Seq(Troubles)
  BY DEF ReplayInv, DiskTypes
<1>1. CASE SyncIndex(w)
  <2> DEFINE S == {synced} \cup {k \in DOMAIN index : index[k].id \in Ids(st[w].job.seg)}
  <2>1. PICK T : T = S
    OBVIOUS
  <2>2. PICK n \in Nat : n = Len(index)
    BY <1>0
  <2>3. Max(S) \in 0 .. Len(index)
    <3>1. T \subseteq 0 .. n /\ T # {}
      BY <1>0, <2>1, <2>2
    <3> HIDE DEF S
    <3>2. T \subseteq Int /\ n \in Int /\ \A k \in T : k <= n
      BY <2>2, <3>1
    <3>3. Max(T) \in T
      BY <3>1, <3>2, BoundedMax
    <3> QED BY <2>1, <2>2, <3>1, <3>3
  <2>4. CloserGoesOn(w, "sync", "meta")
    BY <1>0, <1>1, <2>3 DEF CloserGoesOn, SyncIndex, past
  <2> QED BY <1>1, <2>4, CloserGoesOnKeeps DEF SyncIndex
<1>2. CASE WriteMeta(w)
  <2>1. CloserGoesOn(w, "meta", "retain")
    BY <1>0, <1>2 DEF CloserGoesOn, WriteMeta, past
  <2> QED BY <2>1, CloserGoesOnKeeps
<1>3. CASE WriteMetaFails(w)
  <2>1. struck' \in Seq(Troubles) /\ Range(struck') = Range(struck) \cup {"meta"}
    BY <1>0, <1>3, StruckMore DEF WriteMetaFails
  <2>2. CloserGoesOn(w, "meta", "retain")
    BY <1>0, <1>3, <2>1 DEF CloserGoesOn, WriteMetaFails, disk
  <2> QED BY <2>2, CloserGoesOnKeeps
<1>4. CASE RunRetention(w)
  <2>1. CloserGoesOn(w, "retain", "recv") /\ recording_json' = recording_json
    BY <1>0, <1>4 DEF CloserGoesOn, RunRetention, past
  <2> QED BY <2>1, CloserGoesOnKeeps
<1>5. CASE CloseSegment(w) \/ CloseSegmentFails(w) \/ WriteMetaAlone(w)
  BY <1>5, CloseSegmentKeeps, WriteMetaAloneKeeps
<1> QED BY <1>1, <1>2, <1>3, <1>4, <1>5 DEF CloserStep

------------------------------------------------------------------------------
(* The theorems                                                            *)

LEMMA ReplayNext == ReplayInv /\ [Next]_vars => ReplayInv'
<1> SUFFICES ASSUME ReplayInv, [Next]_vars PROVE ReplayInv'
  OBVIOUS
<1>1. CASE Crash
  BY <1>1, CrashKeeps
<1>2. ASSUME NEW w \in Writers,
             Spawn(w) \/ StopFlow(w) \/ TakeAfter(w) \/ GiveUp(w) \/ Refuse(w)
      PROVE  ReplayInv'
  BY <1>2, BystanderStep
<1>3. ASSUME NEW w \in Writers, WriterStep(w)
      PROVE  ReplayInv'
  BY <1>3, WritePlainKeeps, WriteIndexedKeeps, WriteUnindexedKeeps, WriteFailsKeeps,
     WriteNothingKeeps, RollFailsKeeps DEF WriterStep
<1>4. ASSUME NEW w \in Writers,
             \/ Sweep(w) \/ OpenWriter(w) \/ OpenWriterUnindexed(w) \/ OpenWriterUnread(w)
             \/ OpenWriterFails(w) \/ Exit(w)
             \/ StartRecording(w) \/ StopRecording(w) \/ StopAnswered(w) \/ ShutDown(w)
      PROVE  ReplayInv'
  BY <1>4, SweepKeeps, OpenWriterKeeps, OpenWriterUnindexedKeeps,
     OpenWriterUnreadKeeps, OpenWriterFailsKeeps, ExitKeeps,
     StartRecordingKeeps, StopRecordingKeeps, StopAnsweredKeeps
<1>5. CASE UNCHANGED vars
  <2>1. UNCHANGED <<placed, staging, recording_json, index, synced, phase, stopping, lease, st,
                    opened, landed, hit, stretch, struck, events>>
    BY <1>5 DEF vars, disk, procs, past
  <2>2. DiskTypes' /\ WritersTypes' /\ Leased'
    BY <2>1 DEF ReplayInv, DiskTypes, WritersTypes, Leased
  <2>3. DiskNumbered' /\ Named' /\ Accounted'
    BY <2>1, KnownKept DEF ReplayInv, DiskNumbered, Named, Accounted
  <2>4. \A w \in Writers : WorkerInv(w) => WorkerInv(w)'
    BY <2>1, KnownKept DEF WorkerInv
  <2>5. JoinsMarked'
    BY <2>1 DEF ReplayInv, JoinsMarked
  <2> QED BY <2>1, <2>2, <2>3, <2>4, <2>5 DEF ReplayInv
<1> QED BY <1>1, <1>2, <1>3, <1>4, <1>5, CloserKeeps DEF Next, Proceed

LEMMA ReplayAlways == Spec => []ReplayInv
BY InitKeeps, ReplayNext, PTL DEF Spec

LEMMA InHandIsStaging ==
    ASSUME ReplayInv, NEW w \in Writers
    PROVE  InHand(w) = HeldBy(st[w]) /\ InHand(w) \subseteq staging
<1>1. InHand(w) = HeldBy(st[w])
  BY DEF InHand, HeldBy
<1>2. CASE phase[w] \in Working
  BY <1>1, <1>2, WorkerFacts DEF Owns
<1>3. CASE phase[w] \notin Working
  <2>1. st[w] = NewState
    BY <1>3 DEF ReplayInv, Leased
  <2> QED BY <1>1, <2>1, NewIsAState
<1> QED BY <1>1, <1>2, <1>3

(* No entry of index.bin names media recorded later under its id: the id   *)
(* that open_writer resumes at is past every id the directory or the index *)
(* names, whatever crashed between the rename, the sync of the index and   *)
(* recording.json, unless index.bin could not be read.                     *)
THEOREM EntriesNameTheirOwnMedia == Spec => []NamedMediaIsItsOwn
<1>1. ReplayInv => NamedMediaIsItsOwn
  <2> SUFFICES ASSUME ReplayInv, "load" \notin Range(struck), NEW e \in Range(index),
                      NEW s \in placed \cup UNION {InHand(w) : w \in Writers}, s.id = e.id
               PROVE  s.take = e.take
    BY DEF NamedMediaIsItsOwn
  <2>1. PICK k \in 1 .. Len(index) : e = index[k]
    BY DEF Range, ReplayInv, DiskTypes
  <2>2. s \in placed \cup staging
    BY InHandIsStaging
  <2>3. Known = index
    BY DEF Known
  <2> QED BY <2>1, <2>2, <2>3 DEF ReplayInv, Named, NoneOther
<1> QED BY <1>1, ReplayAlways, PTL

(* Every segment roll_segment opened is renamed into place, is in a        *)
(* writer's hands, or met a crash or a failing disk: no sweep and no       *)
(* staging file of another writer takes one away.  And the ids below a     *)
(* writer's next one all were segments'.                                   *)
THEOREM EverySegmentIsAccountedFor == Spec => []EveryIdAccounted
<1>1. ReplayInv => EveryIdAccounted
  <2> SUFFICES ASSUME ReplayInv PROVE EveryIdAccounted
    OBVIOUS
  <2>1. \A w \in Writers : InHand(w) = HeldBy(st[w])
    BY InHandIsStaging
  <2>2. opened \subseteq landed \cup hit \cup UNION {InHand(w) : w \in Writers}
    BY <2>1 DEF ReplayInv, Accounted
  <2>3. \A w \in Writers : 0 .. st[w].id - 1 \subseteq Ids(opened)
    BY DEF ReplayInv, Numbered, Counted
  <2> QED BY <2>2, <2>3 DEF EveryIdAccounted
<1> QED BY <1>1, ReplayAlways, PTL

(* When Stop has been answered the closer has nothing left, .tmp/ is empty *)
(* and recording.json names the next id, unless a write of it failed:      *)
(* drain_closer waits for all that was handed over, in its order.          *)
THEOREM StopLeavesItComplete == Spec => []StoppedIsComplete
<1>1. ReplayInv => StoppedIsComplete
  <2> SUFFICES ASSUME ReplayInv, NEW w \in Writers, phase[w] = "up", ~ st[w].armed
               PROVE  /\ InHand(w) = {} /\ staging = {}
                      /\ "meta" \in Range(struck) \/ recording_json = st[w].id
    BY DEF StoppedIsComplete
  <2>1. phase[w] \in Working
    BY DEF Working
  <2>2. /\ st[w] \in States /\ staging = HeldBy(st[w])
        /\ st[w].current = {} /\ st[w].jobs = <<>> /\ st[w].step = "recv"
        /\ "meta" \notin Range(struck) => LastMeta(st[w], recording_json) = st[w].id
    BY <2>1, WorkerFacts DEF Owns, Stops
  <2>3. HeldBy(st[w]) = {}
    BY <2>2, DrainedHolds
  <2>4. InHand(w) = HeldBy(st[w])
    BY InHandIsStaging
  <2> QED BY <2>2, <2>3, <2>4 DEF LastMeta
<1> QED BY <1>1, ReplayAlways, PTL

(* The index is sorted by its counter over restarts, stops and crashes,    *)
(* and the first entry after a gap carries the mark an export looks for,   *)
(* where no write, append or load of it failed: open_writer, a failed roll *)
(* and Start set it, and only the entry that carries it clears it.         *)
THEOREM GapsAreMarked == Spec => []JoinsMarked
<1>1. ReplayInv => JoinsMarked
  BY DEF ReplayInv
<1> QED BY <1>1, ReplayAlways, PTL
===============================================================================
