------------------------ MODULE BufferedMergerProofs ------------------------
(***************************************************************************)
(* The buffered merger implements the ordered hold, for every window, hold,*)
(* buffer size and sequence space, and whatever the hitless merger in it   *)
(* admits.  The invariant is HeldInPlace: the held packets have places of  *)
(* their own between the cursor and the anchor.  A packet that re-anchors  *)
(* the window from behind is placed past the anchor, hence past all that   *)
(* is held or was released, and so is the first packet after a restart.    *)
(*                                                                         *)
(* Behind a source and two legs it does what the pair promises, until the  *)
(* source moves.  FeedInv puts the source's packets on the virtual line    *)
(* and says that the window, the anchor, the hold, its memory and its      *)
(* counters all stand there with them.                                     *)
(***************************************************************************)
EXTENDS BufferedPair, HitlessProofs, Maxima, TLAPS

BufferTypeOK ==
    /\ \A e \in held : e.virt \in Int
    /\ cursor \in Int \cup {None}
    /\ anchor_virtual \in Int
    /\ anchor_real \in Seqs

HoldInv == BufferTypeOK /\ HeldInPlace

----------------------------------------------------------------------------
(* A release. *)

\* Entries with places of their own past the cursor and up to a bound.
Placed(entries, bound) ==
    /\ \A e \in entries : e.virt \in Int /\ e.virt <= bound /\ ~ Passed(e.virt)
    /\ \A d, e \in entries : d.virt = e.virt => d = e
    /\ cursor # None => cursor <= bound

\* What goes takes everything before it along.
FirstOf(going, entries) ==
    /\ going \subseteq entries
    /\ \A e \in going, d \in entries : d.virt <= e.virt => d \in going

\* drain_ready takes entries from the front.
LEMMA ReadyIsFirst ==
    ASSUME NEW entries, NEW now, \A e \in entries : e.virt \in Int
    PROVE  FirstOf(Ready(entries, now), entries)
  BY DEF FirstOf, Ready

\* Releasing the first of some placed entries leaves the others placed, and is
\* a step of the ordered hold.
LEMMA ReleaseStep ==
    ASSUME NEW entries, NEW going, NEW bound \in Int,
           cursor \in Int \cup {None},
           Placed(entries, bound), FirstOf(going, entries),
           Virts(held) \subseteq Virts(entries),
           Release(entries, going)
    PROVE  /\ Order!Next
           /\ \A e \in held' : e.virt \in Int /\ e.virt <= bound /\ ~ Passed(e.virt)'
           /\ \A d, e \in held' : d.virt = e.virt => d = e
           /\ cursor' \in Int \cup {None}
           /\ cursor' # None => cursor' <= bound
<1>1. held' = entries \ going /\ batch' = going /\ going \subseteq entries
  BY DEF Release, FirstOf
<1>2. \A k \in Virts(batch') : k \in Int /\ k <= bound /\ ~ Passed(k)
  BY <1>1 DEF Virts, Placed
<1>3. \A k \in Virts(held) \ Virts(held') : k \in Virts(batch')
  BY <1>1 DEF Virts
<1>4. \A e \in held', d \in batch' : d.virt < e.virt
  BY <1>1 DEF Placed, FirstOf
<1>5. \A e \in held' : e.virt \in Int /\ e.virt <= bound /\ ~ Passed(e.virt)
  BY <1>1 DEF Placed
<1>6. /\ cursor' \in Int \cup {None}
      /\ cursor' # None => cursor' <= bound
      /\ IF Virts(batch') = {} THEN cursor' = cursor
                               ELSE /\ cursor' \in Virts(batch')
                                    /\ \A j \in Virts(batch') : j <= cursor'
  <2>1. CASE going = {}
    <3>1. cursor' = cursor /\ Virts(batch') = {}
      BY <1>1, <2>1 DEF Release, Virts
    <3> QED
      BY <3>1 DEF Placed
  <2>2. CASE going # {}
    <3>1. cursor' = Max(Virts(batch')) /\ Virts(batch') # {}
      BY <1>1, <2>2 DEF Release, Virts
    <3>2. Virts(batch') \subseteq Int /\ \A v \in Virts(batch') : v <= bound
      BY <1>2
    <3>3. cursor' \in Virts(batch') /\ \A v \in Virts(batch') : v <= cursor'
      BY <3>1, <3>2, BoundedMax
    <3> QED
      BY <3>1, <3>2, <3>3
  <2> QED
    BY <2>1, <2>2
<1>7. \A e \in held' : ~ Passed(e.virt)'
  <2> SUFFICES ASSUME NEW e \in held' PROVE ~ (cursor' # None /\ e.virt <= cursor')
    BY DEF Passed
  <2>1. CASE Virts(batch') = {}
    BY <2>1, <1>5, <1>6 DEF Passed
  <2>2. CASE Virts(batch') # {}
    <3>1. PICK d \in batch' : d.virt = cursor'
      BY <2>2, <1>6 DEF Virts
    <3> QED
      BY <3>1, <1>1, <1>4, <1>5 DEF Placed
  <2> QED
    BY <2>1, <2>2
<1>8. Order!Next
  <2>1. \A k \in Virts(batch') : ~ Order!Past(k)
    BY <1>2 DEF Order!Past, Passed
  <2>2. \A k \in Virts(held'), j \in Virts(batch') : j < k
    BY <1>4 DEF Virts
  <2>3. \A k \in Virts(held') : ~ Order!Past(k)
    BY <1>5 DEF Order!Past, Passed, Virts
  <2> QED
    BY <1>3, <1>6, <2>1, <2>2, <2>3 DEF Order!Next, Virts
<1>9. \A d, e \in held' : d.virt = e.virt => d = e
  BY <1>1 DEF Placed
<1> QED
  BY <1>5, <1>6, <1>7, <1>8, <1>9

----------------------------------------------------------------------------
(* The anchor, and where a packet is placed. *)

LEMMA ProjectType ==
    ASSUME BufferTypeOK, NEW seq \in Seqs
    PROVE  /\ Project(seq) \in Int
           /\ ~ anchor_set => Project(seq) = anchor_virtual
<1>1. WrappingSub(seq, anchor_real) \in Int
  BY HalfAssumption DEF WrappingSub, Seqs, SeqSpace, BufferTypeOK
<1>2. Signed(WrappingSub(seq, anchor_real)) \in Int
  BY <1>1, HalfAssumption DEF Signed, SeqSpace
<1> QED
  BY <1>2 DEF Project, BufferTypeOK

\* The anchor moves forward only, and as far as the packet.
LEMMA SlideBound ==
    ASSUME BufferTypeOK, NEW seq \in Seqs, NEW virt \in Int,
           ~ anchor_set => virt = anchor_virtual,
           Slide(seq, virt)
    PROVE  /\ anchor_virtual' \in Int /\ anchor_real' \in Seqs
           /\ anchor_virtual <= anchor_virtual' /\ virt <= anchor_virtual'
<1>1. CASE anchor_set /\ virt <= anchor_virtual
  BY <1>1 DEF Slide, BufferTypeOK
<1>2. CASE ~ (anchor_set /\ virt <= anchor_virtual)
  <2>1. anchor_real' = seq /\ anchor_virtual' = virt
    BY <1>2 DEF Slide
  <2>2. anchor_virtual <= virt
    BY <1>2 DEF BufferTypeOK
  <2> QED
    BY <2>1, <2>2
<1> QED
  BY <1>1, <1>2

\* What is held is placed up to the anchor, and up to any bound past it.
LEMMA HeldPlaced ==
    ASSUME HoldInv, NEW bound \in Int, anchor_virtual <= bound
    PROVE  Placed(held, bound)
<1>1. anchor_virtual \in Int /\ \A e \in held : e.virt \in Int
  BY DEF HoldInv, BufferTypeOK
<1>2. \A e \in held : e.virt <= bound /\ ~ Passed(e.virt)
  BY <1>1 DEF HoldInv, HeldInPlace
<1>3. cursor # None => cursor <= bound
  BY <1>1 DEF HoldInv, HeldInPlace, BufferTypeOK
<1> QED
  BY <1>1, <1>2, <1>3 DEF Placed, HoldInv, HeldInPlace

\* Draining what is held, with the anchor where it was or further on.
LEMMA DrainStep ==
    ASSUME HoldInv, NEW going,
           anchor_virtual' \in Int, anchor_real' \in Seqs,
           anchor_virtual <= anchor_virtual',
           FirstOf(going, held), Release(held, going)
    PROVE  Order!Next /\ HoldInv'
<1>1. cursor \in Int \cup {None}
  BY DEF HoldInv, BufferTypeOK
<1>2. Placed(held, anchor_virtual')
  BY HeldPlaced
<1>3. PICK bound \in Int : bound = anchor_virtual'
  OBVIOUS
<1>4. Placed(held, bound)
  BY <1>2, <1>3
<1>5. /\ Order!Next
      /\ \A e \in held' : e.virt \in Int /\ e.virt <= bound /\ ~ Passed(e.virt)'
      /\ \A d, e \in held' : d.virt = e.virt => d = e
      /\ cursor' \in Int \cup {None}
      /\ cursor' # None => cursor' <= bound
  BY <1>1, <1>4, ReleaseStep
<1>6. BufferTypeOK'
  BY <1>5 DEF BufferTypeOK
<1>7. HeldInPlace'
  BY <1>3, <1>5 DEF HeldInPlace, Passed
<1> QED
  BY <1>5, <1>6, <1>7 DEF HoldInv

\* A packet admitted is placed where nothing is held, up to the new anchor.
LEMMA KeyOfPlace ==
    ASSUME HoldInv, NEW seq \in Seqs, Project(seq) \notin Virts(held)
    PROVE  /\ KeyOf(seq) \in Int
           /\ KeyOf(seq) \notin Virts(held)
           /\ ~ anchor_set => KeyOf(seq) = anchor_virtual
<1>1. /\ Project(seq) \in Int /\ anchor_virtual \in Int
      /\ ~ anchor_set => Project(seq) = anchor_virtual
  BY ProjectType DEF HoldInv, BufferTypeOK
<1>2. anchor_virtual + 1 \notin Virts(held)
  BY <1>1 DEF HoldInv, HeldInPlace, BufferTypeOK, Virts
<1> QED
  BY <1>1, <1>2 DEF KeyOf

----------------------------------------------------------------------------
(* The operations. *)

LEMMA IngestStep ==
    ASSUME HoldInv, NEW seq \in Seqs, NEW leg \in Legs, NEW payload, NEW now,
           Ingest(seq, leg, payload, now)
    PROVE  Order!Next /\ HoldInv'
<1>1. /\ anchor_virtual \in Int /\ BufferTypeOK
      /\ cursor \in Int \cup {None}
      /\ \A e \in held : e.virt \in Int
  BY DEF HoldInv, BufferTypeOK
<1>2. FirstOf(Ready(held, now), held)
  BY <1>1, ReadyIsFirst
<1>3. /\ Project(seq) \in Int
      /\ ~ anchor_set => Project(seq) = anchor_virtual
  BY <1>1, ProjectType
<1>4. ASSUME Slide(seq, Project(seq)), Drain(held, now)
      PROVE  Order!Next /\ HoldInv'
  <2>1. /\ anchor_virtual' \in Int /\ anchor_real' \in Seqs
        /\ anchor_virtual <= anchor_virtual'
    BY <1>1, <1>3, <1>4, SlideBound
  <2> QED
    BY <2>1, <1>2, <1>4, DrainStep DEF Drain
<1>5. ASSUME Admitted(seq, leg, now)
      PROVE  /\ KeyOf(seq) \in Int /\ KeyOf(seq) \notin Virts(held)
             /\ anchor_virtual' \in Int /\ anchor_real' \in Seqs
             /\ anchor_virtual <= anchor_virtual' /\ KeyOf(seq) <= anchor_virtual'
  <2>1. Project(seq) \notin Virts(held) /\ Slide(seq, KeyOf(seq))
    BY <1>5 DEF Admitted
  <2>2. /\ KeyOf(seq) \in Int /\ KeyOf(seq) \notin Virts(held)
        /\ ~ anchor_set => KeyOf(seq) = anchor_virtual
    BY <2>1, KeyOfPlace
  <2> QED
    BY <1>1, <2>1, <2>2, SlideBound
<1>6. CASE IngestHeldCopy(seq, leg, now)
  BY <1>6, <1>4 DEF IngestHeldCopy
<1>7. CASE IngestRefused(seq, leg, now)
  BY <1>7, <1>4 DEF IngestRefused
<1>8. CASE IngestTooLate(seq, leg, now) \/ IngestOverflow(seq, leg, now)
  <2>1. Admitted(seq, leg, now) /\ Release(held, Ready(held, now))
    BY <1>8 DEF IngestTooLate, IngestOverflow, Drain
  <2> QED
    BY <2>1, <1>2, <1>5, DrainStep
<1>9. CASE IngestNew(seq, leg, payload, now)
  <2> DEFINE entry == [virt |-> KeyOf(seq), payload |-> payload, release_at |-> now + Hold]
             entries == held \cup {entry}
  <2>1. /\ Admitted(seq, leg, now) /\ ~ Passed(KeyOf(seq))
        /\ Release(entries, Ready(entries, now))
    BY <1>9 DEF IngestNew, Drain, TooLateToHold
  <2>2. PICK key \in Int : key = KeyOf(seq)
    BY <2>1, <1>5
  <2>3. PICK bound \in Int : bound = anchor_virtual'
    BY <2>1, <1>5
  <2>4. PICK new : new = entry
    OBVIOUS
  <2>5. new.virt = key
    BY <2>2, <2>4
  <2>6. PICK all : all = held \cup {new}
    OBVIOUS
  <2>7. Placed(held, bound) /\ key <= bound /\ ~ Passed(key) /\ key \notin Virts(held)
    BY <2>1, <2>2, <2>3, <1>5, HeldPlaced
  <2>8. Placed(all, bound)
    BY <2>5, <2>6, <2>7 DEF Placed, Virts
  <2>9. Virts(held) \subseteq Virts(all)
    BY <2>6 DEF Virts
  <2>10. FirstOf(Ready(all, now), all)
    BY <2>8, ReadyIsFirst DEF Placed
  <2>11. Release(all, Ready(all, now))
    BY <2>1, <2>4, <2>6
  <2>12. /\ Order!Next
         /\ \A e \in held' : e.virt \in Int /\ e.virt <= bound /\ ~ Passed(e.virt)'
         /\ \A d, e \in held' : d.virt = e.virt => d = e
         /\ cursor' \in Int \cup {None}
         /\ cursor' # None => cursor' <= bound
    BY <1>1, <2>8, <2>9, <2>10, <2>11, ReleaseStep
  <2>13. BufferTypeOK'
    BY <2>1, <2>12, <1>5 DEF BufferTypeOK
  <2>14. HeldInPlace'
    BY <2>3, <2>12 DEF HeldInPlace, Passed
  <2> QED
    BY <2>12, <2>13, <2>14 DEF HoldInv
<1> QED
  BY <1>6, <1>7, <1>8, <1>9 DEF Ingest

\* drain_expired and release_all.
LEMMA DrainOperations ==
    ASSUME HoldInv, (\E now : DrainExpired(now)) \/ ReleaseAll
    PROVE  Order!Next /\ HoldInv'
<1>1. /\ anchor_virtual' = anchor_virtual /\ anchor_real' = anchor_real
      /\ \A e \in held : e.virt \in Int
      /\ anchor_virtual \in Int /\ anchor_real \in Seqs
  BY DEF HoldInv, BufferTypeOK, DrainExpired, ReleaseAll, anchorVars
<1>2. PICK going : FirstOf(going, held) /\ Release(held, going)
  <2>1. CASE \E now : DrainExpired(now)
    <3>1. PICK now : Release(held, Ready(held, now))
      BY <2>1 DEF DrainExpired, Drain
    <3>2. FirstOf(Ready(held, now), held)
      BY <1>1, ReadyIsFirst
    <3> QED
      BY <3>1, <3>2
  <2>2. CASE ReleaseAll
    BY <2>2 DEF ReleaseAll, FirstOf
  <2> QED
    BY <2>1, <2>2
<1> QED
  BY <1>1, <1>2, DrainStep

\* A step that leaves the hold as it is and releases nothing.
LEMMA IdleOrder ==
    ASSUME HoldInv, batch' = {}, held' = held, cursor' = cursor
    PROVE  Order!Next
<1>1. Virts(batch') = {} /\ Virts(held') = Virts(held)
  BY DEF Virts
<1>2. \A k \in Virts(held') : ~ Order!Past(k)
  BY DEF HoldInv, HeldInPlace, Passed, Order!Past, Virts
<1> QED
  BY <1>1, <1>2 DEF Order!Next

LEMMA RestartStep ==
    ASSUME HoldInv, RestartHold
    PROVE  Order!Next /\ HoldInv'
<1>1. /\ batch' = {} /\ held' = held /\ cursor' = cursor /\ anchor_real' = anchor_real
      /\ anchor_virtual \in Int /\ anchor_real \in Seqs
      /\ cursor \in Int \cup {None} /\ \A e \in held : e.virt \in Int
  BY DEF RestartHold, HoldInv, BufferTypeOK
<1> DEFINE reached == Virts(held) \cup ({cursor} \ {None})
<1>2. reached \subseteq Int /\ \A v \in reached : v <= anchor_virtual
  BY <1>1 DEF Virts, HoldInv, HeldInPlace
<1>3. anchor_virtual' \in Int /\ \A v \in reached : v <= anchor_virtual'
  <2>1. CASE reached = {}
    BY <1>1, <2>1 DEF RestartHold
  <2>2. CASE reached # {}
    <3>1. Max(reached) \in reached /\ \A v \in reached : v <= Max(reached)
      BY <1>1, <1>2, <2>2, BoundedMax
    <3>2. anchor_virtual' = Max(reached) + Window
      BY <2>2 DEF RestartHold, StretchAnchor
    <3>3. PICK m \in Int : m = Max(reached)
      BY <1>2, <3>1
    <3>4. \A v \in reached : v \in Int /\ v <= m
      BY <1>2, <3>1, <3>3
    <3>5. anchor_virtual' = m + Window
      BY <3>2, <3>3
    <3> HIDE DEF reached
    <3> QED
      BY <3>4, <3>5, WindowAssumption
  <2> QED
    BY <2>1, <2>2
<1>4. Order!Next
  BY <1>1, IdleOrder
<1>5. BufferTypeOK'
  BY <1>1, <1>3 DEF BufferTypeOK
<1>6. HeldInPlace'
  <2>1. \A e \in held : e.virt \in reached
    BY DEF Virts
  <2>2. cursor # None => cursor \in reached
    OBVIOUS
  <2> QED
    BY <1>1, <1>3, <2>1, <2>2 DEF HoldInv, HeldInPlace, Passed
<1> QED
  BY <1>4, <1>5, <1>6 DEF HoldInv

LEMMA BufferStep ==
    ASSUME HoldInv, BufferNext
    PROVE  Order!Next /\ HoldInv'
<1>1. CASE \E seq \in Seqs, leg \in Legs, payload \in Payloads, now \in Times :
             Ingest(seq, leg, payload, now)
  BY <1>1, IngestStep
<1>2. CASE (\E now \in Times : DrainExpired(now)) \/ ReleaseAll
  BY <1>2, DrainOperations
<1>3. CASE RestartHold
  BY <1>3, RestartStep
<1>4. CASE \E t \in StaleTimes : SetLegLag(t)
  <2>1. batch' = {} /\ UNCHANGED <<held, cursor, anchor_virtual, anchor_real>>
    BY <1>4 DEF SetLegLag, anchorVars
  <2>2. Order!Next
    BY <2>1, IdleOrder
  <2>3. HoldInv'
    BY <2>1 DEF HoldInv, BufferTypeOK, HeldInPlace, Passed
  <2> QED
    BY <2>2, <2>3
<1> QED
  BY <1>1, <1>2, <1>3, <1>4 DEF BufferNext

LEMMA BufferStutter ==
    ASSUME HoldInv, UNCHANGED mergingVars
    PROVE  UNCHANGED Order!holdVars /\ HoldInv'
<1>1. UNCHANGED <<held, batch, cursor, anchor_virtual, anchor_real>>
  BY DEF mergingVars, bufferVars, anchorVars
<1>2. UNCHANGED Order!holdVars
  BY <1>1 DEF Order!holdVars, Virts
<1>3. HoldInv'
  BY <1>1 DEF HoldInv, BufferTypeOK, HeldInPlace, Passed
<1> QED
  BY <1>2, <1>3

LEMMA BufferInitial ==
    ASSUME BufferInit
    PROVE  Order!Init /\ HoldInv
<1>1. HoldInv
  BY HalfAssumption, WindowAssumption
     DEF BufferInit, HoldInv, BufferTypeOK, HeldInPlace, Seqs, SeqSpace
<1>2. Order!Init
  BY DEF BufferInit, Order!Init, Virts
<1> QED
  BY <1>1, <1>2

----------------------------------------------------------------------------

(* Whatever the legs bring, the packets the merger holds have places of     *)
(* their own between its cursor and its anchor: nothing is held that would  *)
(* go out behind what was released, and no two packets under one key.       *)
THEOREM HeldInPlaceAlways == BufferSpec => []HeldInPlace
<1>1. BufferInit => HoldInv
  BY BufferInitial
<1>2. HoldInv /\ [BufferNext]_mergingVars => HoldInv'
  BY BufferStep, BufferStutter
<1>3. HoldInv => HeldInPlace
  BY DEF HoldInv
<1> QED
  BY <1>1, <1>2, <1>3, PTL DEF BufferSpec

(* The buffered merger implements the ordered hold: every packet it holds   *)
(* goes out once, in order, and none is given up, for every window, hold,   *)
(* buffer size and sequence space and whatever the hitless merger admits.   *)
THEOREM MergerReleasesInOrder == BufferSpec => ReleasesInOrder
<1>1. BufferInit => Order!Init /\ HoldInv
  BY BufferInitial
<1>2. HoldInv /\ [BufferNext]_mergingVars => HoldInv' /\ [Order!Next]_(Order!holdVars)
  BY BufferStep, BufferStutter
<1> QED
  BY <1>1, <1>2, PTL DEF BufferSpec, ReleasesInOrder, Order!Spec
----------------------------------------------------------------------------
(* The pair with a path differential, while its source does not move. *)

\* The packets up to here were sent before both legs were lost.
Base == IF cut = None THEN -1 ELSE cut

\* Where packet p stands on the virtual line: one of the first stream at its own
\* position, one sent after both legs were lost at a distance of o from it.
Place(b, o, p) == IF p <= b THEN p ELSE p + o

Kept == sent \cup HeldPackets

\* The entries stand where their packets do, and the cursor with the last one sent.
OnLine(b, o, entries) ==
    /\ \A e \in entries : e.payload \in Nat /\ e.virt = Place(b, o, e.payload)
    /\ \A p \in sent : cursor # None /\ Place(b, o, p) <= cursor
    /\ cursor # None => \E p \in sent : cursor = Place(b, o, p)

\* The memory knows every packet sent in its reach, and no place but of one sent.
Remembered(b, o) ==
    /\ released \in [0 .. Remember - 1 -> Int \cup {None}]
    /\ \A p \in sent : p > b /\ (\A q \in sent : q - p < Remember)
                         => released[(p + o) % Remember] = p + o
    /\ \A slot \in 0 .. Remember - 1 :
          released[slot] # None => \E p \in sent : released[slot] = Place(b, o, p)

\* The first stream stands a window behind the anchor a, and ahead of nothing that
\* came after it.
Apart(b, o, K, a) ==
    \A p \in K : p <= b => p + Window <= a /\ \A q \in K : q > b => p < q + o

\* A packet goes out a hold after it was sent, at the earliest.
Timed(b, entries) ==
    /\ \A e \in entries : /\ e.release_at \in Int
                          /\ e.payload + Hold <= e.release_at
                          /\ e.release_at <= e.payload + lag + Hold
    /\ \A p \in sent : p <= b \/ p + Hold <= clock

\* The places between packets sent of one stream where none was.
LineGaps(b, o, S) ==
    {v \in Int :
        /\ \E p, q \in S : ((p <= b) <=> (q <= b)) /\ Place(b, o, p) < v /\ v < Place(b, o, q)
        /\ \A r \in S : Place(b, o, r) # v}

\* A stretch begins right behind the first stream, until something after it is sent.
Stretched(b, K) ==
    /\ \A s \in stretches :
          /\ \E m \in K : m <= b /\ s = m + 1 /\ \A p \in K : p <= b => p < s
          /\ \A p \in sent : p <= b
    /\ (\E p \in K : p <= b) /\ (\A p \in sent : p <= b) => stretches # {}

Gapped(b, o, K) == Stretched(b, K) /\ gap_lost = Cardinality(LineGaps(b, o, sent))

\* The newest packet seen is t, by the window and by the anchor.
Tracks(b, o, t) ==
    /\ highest_seq = SeqAt(t)
    /\ Agrees({p \in aired : p > b}, t)
    /\ t <= last_accept /\ last_accept <= clock
    /\ anchor_set /\ anchor_real = SeqAt(t) /\ anchor_virtual = t + o

Reach == IF Lead \in due THEN MaxMissed + 1 ELSE missed[Lead]

Merging(b, o) ==
    /\ aired \subseteq 0 .. clock
    /\ last_break.leg # Lead
    /\ b \in Int /\ o \in Int /\ b <= clock
    /\ \A l \in due : clock - Delay(l) > b
    /\ cut = None => o = 0
    /\ ~ initialized => /\ ~ anchor_set /\ clock - b <= Reach
                        /\ \A p \in aired : p <= b
                        /\ cut = None => clock = 0 /\ Lead \in due /\ anchor_virtual = 0
    /\ initialized => \E t \in aired : t > b /\ Tracks(b, o, t) /\ clock - t <= Reach

Holding(b, o) ==
    /\ Kept \subseteq aired
    /\ OnLine(b, o, held) /\ Remembered(b, o)
    /\ Apart(b, o, Kept, anchor_virtual) /\ Timed(b, held) /\ Gapped(b, o, Kept)
    /\ IsFiniteSet(held)
    /\ Cardinality(aired) = Cardinality(sent) + Cardinality(held) + unreleased
    /\ lag <= Hold /\ overflow_dropped = 0 => aired \subseteq Kept

FeedTypes ==
    /\ PairTypes /\ HoldInv
    /\ lag \in Lags /\ (NewIsns = {} => move = NotMoved)
    /\ cut \in Nat \cup {None}
    /\ unreleased \in Nat /\ late_dropped \in Nat /\ overflow_dropped \in Nat

FeedInv ==
    /\ FeedTypes
    /\ move = NotMoved /\ lag <= Half =>
          BoundedLatency /\ \E o \in Int : Merging(Base, o) /\ Holding(Base, o)
    /\ SkewTolerated

\* Places are in the order of the packets.
LEMMA PlaceOrder ==
    ASSUME NEW b \in Int, NEW o \in Int, NEW p \in Int, NEW q \in Int,
           p <= b /\ q > b => p < q + o, q <= b /\ p > b => q < p + o
    PROVE  /\ Place(b, o, p) \in Int /\ Place(b, o, q) \in Int
           /\ Place(b, o, p) < Place(b, o, q) <=> p < q
  BY DEF Place

LEMMA Divided ==
    ASSUME NEW n \in Nat \ {0}, NEW x \in Int, NEW a, a = x % n
    PROVE  a \in 0 .. n - 1 /\ \E p \in Int : x = n * p + a
<1>1. x % n \in 0 .. n - 1 /\ x \div n \in Int
  OBVIOUS
<1>2. x = n * (x \div n) + (x % n)
  OBVIOUS
<1> QED BY <1>1, <1>2, Zenon

\* Two numbers less than n apart with one remainder are one.
LEMMA SameRemainder ==
    ASSUME NEW n \in Nat \ {0}, NEW x \in Int, NEW y \in Int, x % n = y % n,
           0 <= y - x, y - x < n
    PROVE  x = y
<1>1. PICK a : a = x % n /\ a = y % n
  OBVIOUS
<1>2. a \in 0 .. n - 1 /\ \E p \in Int : x = n * p + a
  BY <1>1, Divided, Zenon
<1>3. PICK p \in Int : x = n * p + a
  BY <1>2
<1>4. PICK q \in Int : y = n * q + a
  BY <1>1, Divided, Zenon
<1>5. PICK k \in Int : k = q - p
  OBVIOUS
<1>6. n * q - n * p = n * k
  BY <1>5
<1>7. 0 <= n * k /\ n * k < n
  BY <1>2, <1>3, <1>4, <1>6
<1>8. k = 0
  BY <1>7
<1> QED BY <1>2, <1>3, <1>4, <1>5, <1>8

\* The memory after a release.
LEMMA NotedIs ==
    ASSUME NEW virts, virts \subseteq Int, NEW bound \in Int, \A v \in virts : v <= bound,
           released' = NotedReleased(virts)
    PROVE  /\ DOMAIN released' = 0 .. Remember - 1
           /\ \A slot \in 0 .. Remember - 1 :
                IF \E v \in virts : v % Remember = slot
                THEN /\ released'[slot] \in virts /\ released'[slot] % Remember = slot
                     /\ \A v \in virts : v % Remember = slot => v <= released'[slot]
                ELSE released'[slot] = released[slot]
<1>1. DOMAIN released' = 0 .. Remember - 1
  BY DEF NotedReleased
<1>2. ASSUME NEW slot \in 0 .. Remember - 1
      PROVE  IF \E v \in virts : v % Remember = slot
             THEN /\ released'[slot] \in virts /\ released'[slot] % Remember = slot
                  /\ \A v \in virts : v % Remember = slot => v <= released'[slot]
             ELSE released'[slot] = released[slot]
  <2>1. PICK at : at = {v \in virts : v % Remember = slot}
    OBVIOUS
  <2>2. released'[slot] = IF at = {} THEN released[slot] ELSE Max(at)
    BY <2>1 DEF NotedReleased
  <2>3. ASSUME at # {} PROVE Max(at) \in at /\ \A v \in at : v <= Max(at)
    BY <2>1, <2>3, BoundedMax
  <2>4. CASE at = {}
    BY <2>1, <2>2, <2>4
  <2>5. CASE at # {}
    BY <2>1, <2>2, <2>3, <2>5
  <2> QED BY <2>4, <2>5
<1> QED BY <1>1, <1>2

----------------------------------------------------------------------------
(* A release, of packets that stand on the line. *)

PacketsOf(entries) == {e.payload : e \in entries}

\* What goes leaves the cursor with the last packet sent, and is remembered.
LEMMA ReleaseOnLine ==
    ASSUME NEW b \in Int, NEW o \in Int, NEW bound \in Int, NEW entries, NEW going,
           going \subseteq entries, cursor \in Int \cup {None}, sent \subseteq Nat,
           OnLine(b, o, entries), Placed(entries, bound),
           NEW a, Apart(b, o, sent \cup PacketsOf(entries), a),
           Remembered(b, o), Release(entries, going), Sends
    PROVE  OnLine(b, o, held)' /\ Remembered(b, o)'
<1>1. /\ held' = entries \ going
      /\ \A p : p \in sent' <=> p \in sent \/ \E e \in going : e.payload = p
  BY DEF Release, Sends
<1>2. \A e \in entries : /\ e.payload \in Nat /\ e.virt \in Int /\ e.virt <= bound
                         /\ e.virt = Place(b, o, e.payload)
  BY DEF OnLine, Placed
<1>3. ASSUME NEW e \in entries, NEW p \in sent
      PROVE  /\ Place(b, o, p) \in Int /\ cursor \in Int
             /\ Place(b, o, p) <= cursor /\ cursor < e.virt
  <2>1. cursor # None /\ Place(b, o, p) <= cursor
    BY DEF OnLine
  <2>2. ~ Passed(e.virt)
    BY DEF Placed
  <2>3. Place(b, o, p) \in Int
    BY DEF Place
  <2> QED BY <1>2, <2>1, <2>2, <2>3 DEF Passed
<1>4. CASE going = {}
  <2>1. sent' = sent /\ cursor' = cursor /\ released' = released
    BY <1>4 DEF Release, Sends
  <2>2. OnLine(b, o, held)'
    BY <1>1, <2>1 DEF OnLine
  <2>3. Remembered(b, o)'
    BY <2>1 DEF Remembered
  <2> QED BY <2>2, <2>3
<1>5. CASE going # {}
  <2>1. PICK virts : virts = Virts(going)
    OBVIOUS
  <2>2. /\ virts \subseteq Int /\ virts # {} /\ \A v \in virts : v <= bound
        /\ \A v : v \in virts <=> \E e \in going : e.virt = v
    BY <1>2, <1>5, <2>1 DEF Virts
  <2>3. PICK m : m = Max(virts)
    OBVIOUS
  <2>4. m \in virts /\ m \in Int /\ \A v \in virts : v <= m
    BY <2>2, <2>3, BoundedMax
  <2>5. cursor' = m /\ released' = NotedReleased(virts)
    BY <1>5, <2>1, <2>3 DEF Release
  <2>6. OnLine(b, o, held)'
    <3>1. \A e \in held' : e.payload \in Nat /\ e.virt = Place(b, o, e.payload)
      BY <1>1, <1>2
    <3>2. m # None
      BY <2>4, LegsAssumption
    <3>3. ASSUME NEW p \in sent' PROVE Place(b, o, p) <= m
      <4>1. CASE p \in sent
        <5>1. PICK e \in going : e.virt = m
          BY <2>2, <2>4
        <5> QED BY <1>3, <2>4, <4>1, <5>1
      <4>2. CASE \E e \in going : e.payload = p
        <5>1. PICK e \in going : e.payload = p
          BY <4>2
        <5> QED BY <1>2, <2>2, <2>4, <5>1
      <4> QED BY <1>1, <4>1, <4>2
    <3>4. \E p \in sent' : m = Place(b, o, p)
      <4>1. PICK e \in going : e.virt = m
        BY <2>2, <2>4
      <4> QED BY <1>1, <1>2, <4>1
    <3> QED BY <2>5, <3>1, <3>2, <3>3, <3>4 DEF OnLine
  <2>7. PICK mem : mem = released'
    OBVIOUS
  <2>8. /\ DOMAIN mem = 0 .. Remember - 1
        /\ \A slot \in 0 .. Remember - 1 :
             IF \E v \in virts : v % Remember = slot
             THEN /\ mem[slot] \in virts /\ mem[slot] % Remember = slot
                  /\ \A v \in virts : v % Remember = slot => v <= mem[slot]
             ELSE mem[slot] = released[slot]
    BY <2>2, <2>5, <2>7, NotedIs
  <2>9. ASSUME NEW slot \in 0 .. Remember - 1
        PROVE  /\ mem[slot] \in Int \cup {None}
               /\ mem[slot] # None => \E p \in sent' : mem[slot] = Place(b, o, p)
    <3>1. CASE \E v \in virts : v % Remember = slot
      <4>1. PICK e \in going : e.virt = mem[slot]
        BY <2>2, <2>8, <3>1
      <4> QED BY <1>1, <1>2, <4>1
    <3>2. CASE ~ \E v \in virts : v % Remember = slot
      <4>1. mem[slot] = released[slot]
        BY <2>8, <3>2
      <4> QED BY <1>1, <4>1 DEF Remembered
    <3> QED BY <3>1, <3>2
  <2>10. ASSUME NEW p \in sent', p > b, \A q \in sent' : q - p < Remember
         PROVE  mem[(p + o) % Remember] = p + o
    <3>1. p \in Nat
      BY <1>1, <1>2, <2>10
    <3>2. p \in Nat /\ Place(b, o, p) = p + o /\ p + o \in Int
      BY <2>10, <3>1 DEF Place
    <3>3. PICK slot \in 0 .. Remember - 1 : slot = (p + o) % Remember
      <4>1. PICK x \in Int : x = p + o
        BY <3>2
      <4>2. PICK s : s = x % Remember
        OBVIOUS
      <4>3. s \in 0 .. Remember - 1
        BY <4>2, HoldAssumption, Divided
      <4> QED BY <4>1, <4>2, <4>3
    <3>4. CASE ~ \E v \in virts : v % Remember = slot
      <4>1. p \in sent
        <5>1. ASSUME NEW e \in going, e.payload = p PROVE FALSE
          <6>1. p + o \in virts
            BY <1>2, <2>2, <3>2, <5>1
          <6> QED BY <3>3, <3>4, <6>1
        <5> QED BY <1>1, <5>1
      <4>2. released[(p + o) % Remember] = p + o
        BY <1>1, <2>10, <4>1 DEF Remembered
      <4> QED BY <2>8, <3>3, <3>4, <4>2
    <3>5. CASE \E v \in virts : v % Remember = slot
      <4>1. PICK e \in going : e.virt = mem[slot]
        BY <2>2, <2>8, <3>5
      <4>2. PICK q \in Nat, w \in Int : q = e.payload /\ w = mem[slot] /\ w = Place(b, o, q)
        BY <1>2, <4>1
      <4>3. w % Remember = slot /\ q \in sent' /\ q - p < Remember
        BY <1>1, <2>8, <2>10, <3>5, <4>1, <4>2
      <4>4. p + o <= w
        <5>1. CASE p \in sent
          BY <1>3, <3>2, <4>1, <4>2, <5>1
        <5>2. CASE p \notin sent
          <6>1. PICK d \in going : d.payload = p
            BY <1>1, <5>2
          <6>2. p + o \in virts
            BY <1>2, <2>2, <3>2, <6>1
          <6>3. \A v \in virts : v % Remember = slot => v <= mem[slot]
            BY <2>8, <3>5
          <6> QED BY <3>3, <4>2, <6>2, <6>3
        <5> QED BY <5>1, <5>2
      <4>5. w - (p + o) < Remember
        <5>1. CASE q > b
          BY <3>2, <4>2, <4>3, <5>1, HoldAssumption DEF Place
        <5>2. CASE q <= b
          <6>1. q \in PacketsOf(entries) /\ p \in sent \cup PacketsOf(entries)
            BY <1>1, <4>1, <4>2, <2>10 DEF PacketsOf
          <6>2. q < p + o
            BY <2>10, <5>2, <6>1 DEF Apart
          <6>3. w = q
            BY <4>2, <5>2 DEF Place
          <6> QED BY <3>2, <4>2, <4>4, <6>2, <6>3
        <5> QED BY <4>2, <5>1, <5>2
      <4>6. (p + o) % Remember = w % Remember
        BY <3>3, <4>3
      <4>7. p + o = w
        BY <3>2, <4>2, <4>4, <4>5, <4>6, SameRemainder, HoldAssumption
      <4> QED BY <3>3, <4>2, <4>7
    <3> QED BY <3>4, <3>5
  <2>11. Remembered(b, o)'
    <3>1. mem \in [0 .. Remember - 1 -> Int \cup {None}]
      <4>1. mem = [slot \in 0 .. Remember - 1 |-> mem[slot]]
        BY <2>5, <2>7 DEF NotedReleased
      <4> QED BY <2>9, <4>1
    <3> QED BY <2>7, <2>9, <2>10, <3>1 DEF Remembered
  <2> QED BY <2>6, <2>11
<1> QED BY <1>4, <1>5

\* Packets that stand on the line are different ones, later than those sent, and
\* in the order of their virtual seqs.
LEMMA LineOrder ==
    ASSUME NEW b \in Int, NEW o \in Int, NEW bound, NEW entries,
           cursor \in Int \cup {None}, sent \subseteq Nat,
           OnLine(b, o, entries), Placed(entries, bound),
           NEW a, Apart(b, o, sent \cup PacketsOf(entries), a)
    PROVE  /\ \A d, e \in entries : d.payload = e.payload => d = e
           /\ \A d, e \in entries : d.virt < e.virt <=> d.payload < e.payload
           /\ \A e \in entries, p \in sent : p < e.payload
           /\ \A p, q \in sent \cup PacketsOf(entries) : Place(b, o, p) < Place(b, o, q) <=> p < q
<1>1. \A e \in entries : /\ e.payload \in Nat /\ e.virt \in Int /\ ~ Passed(e.virt)
                         /\ e.virt = Place(b, o, e.payload)
                         /\ e.payload \in PacketsOf(entries)
  BY DEF OnLine, Placed, PacketsOf
<1>2. \A d, e \in entries : d.payload = e.payload => d = e
  BY <1>1 DEF Placed
<1>3. ASSUME NEW p \in sent \cup PacketsOf(entries), NEW q \in sent \cup PacketsOf(entries)
      PROVE  /\ Place(b, o, p) \in Int /\ Place(b, o, q) \in Int
             /\ Place(b, o, p) < Place(b, o, q) <=> p < q
  <2>1. p \in Int /\ q \in Int
    <3>1. \A x \in PacketsOf(entries) : x \in Int
      BY <1>1 DEF PacketsOf
    <3> QED BY <3>1
  <2>2. (p <= b /\ q > b => p < q + o) /\ (q <= b /\ p > b => q < p + o)
    BY DEF Apart
  <2> QED BY <2>1, <2>2, PlaceOrder
<1>4. \A d, e \in entries : d.virt < e.virt <=> d.payload < e.payload
  BY <1>1, <1>3
<1>5. ASSUME NEW e \in entries, NEW p \in sent PROVE p < e.payload
  <2>1. cursor # None /\ Place(b, o, p) <= cursor
    BY DEF OnLine
  <2>2. Place(b, o, p) \in Int /\ (Place(b, o, p) < e.virt => p < e.payload)
    BY <1>1, <1>3
  <2> QED BY <1>1, <2>1, <2>2 DEF Passed
<1> QED BY <1>2, <1>3, <1>4, <1>5

LEMMA SizeOfPackets ==
    ASSUME NEW E, IsFiniteSet(E), \A d, e \in E : d.payload = e.payload => d = e
    PROVE  IsFiniteSet(PacketsOf(E)) /\ Cardinality(PacketsOf(E)) = Cardinality(E)
<1> DEFINE f == [e \in E |-> e.payload]
<1>1. f \in [E -> PacketsOf(E)] /\ (\A p \in PacketsOf(E) : \E e \in E : f[e] = p)
      /\ (\A d, e \in E : f[d] = f[e] => d = e)
  BY DEF PacketsOf
<1>2. f \in Bijection(E, PacketsOf(E))
  BY <1>1 DEF Bijection, Injection, Surjection, IsInjective
<1> QED BY <1>2, FS_Bijection DEF ExistsBijection

\* What goes out is no longer held, and nothing else changes hands.
LEMMA ReleaseCounts ==
    ASSUME NEW entries, NEW going, going \subseteq entries,
           IsFiniteSet(entries), IsFiniteSet(sent),
           \A d, e \in entries : d.payload = e.payload => d = e,
           \A e \in entries : e.payload \notin sent,
           held' = entries \ going, sent' = sent \cup PacketsOf(going)
    PROVE  /\ IsFiniteSet(held') /\ IsFiniteSet(sent')
           /\ Cardinality(sent') + Cardinality(held') = Cardinality(sent) + Cardinality(entries)
<1>1. IsFiniteSet(going) /\ IsFiniteSet(entries \ going)
  BY FS_Subset
<1>2. Cardinality(entries) = Cardinality(going) + Cardinality(entries \ going)
  <2>1. going \cap (entries \ going) = {} /\ going \cup (entries \ going) = entries
    OBVIOUS
  <2> QED BY <1>1, <2>1, SizeOfUnion
<1>3. IsFiniteSet(PacketsOf(going)) /\ Cardinality(PacketsOf(going)) = Cardinality(going)
  BY <1>1, SizeOfPackets
<1>4. sent \cap PacketsOf(going) = {}
  BY DEF PacketsOf
<1>5. IsFiniteSet(sent') /\ Cardinality(sent') = Cardinality(sent) + Cardinality(going)
  BY <1>3, <1>4, SizeOfUnion
<1>6. /\ Cardinality(sent) \in Nat /\ Cardinality(going) \in Nat
      /\ Cardinality(entries \ going) \in Nat
  BY <1>1, FS_CardinalityType
<1> QED BY <1>1, <1>2, <1>5, <1>6

\* A release adds to the gaps between the packets sent exactly those that drain_ready
\* counts: a stretch hides the jump from the first stream to the one after it.
LEMMA NewGaps ==
    ASSUME NEW b \in Int, NEW o \in Int, NEW G, NEW K, G # {}, sent \cup G \subseteq K,
           K \subseteq Nat, cursor \in Int \cup {None},
           \A p, q \in K : Place(b, o, p) < Place(b, o, q) <=> p < q,
           \A p \in sent : cursor # None /\ Place(b, o, p) <= cursor,
           cursor # None => \E p \in sent : cursor = Place(b, o, p),
           \A p \in sent, q \in G : p < q,
           \A p \in K, q \in G : p < q => p \in sent \cup G,
           Stretched(b, K),
           NEW ends, ends = {Place(b, o, q) : q \in G} \cup ({cursor} \ {None}),
           NEW lo \in Int, NEW hi \in Int, ends \subseteq lo .. hi
    PROVE  /\ LineGaps(b, o, sent) \subseteq LineGaps(b, o, sent \cup G)
           /\ Gaps(ends) = LineGaps(b, o, sent \cup G) \ LineGaps(b, o, sent)
<1> DEFINE T == sent \cup G
<1>1. \A p \in K : p \in Int /\ Place(b, o, p) \in Int /\ (p <= b => Place(b, o, p) = p)
  <2>1. \A p \in K : p \in Int
    OBVIOUS
  <2> QED BY <2>1 DEF Place
<1>2. /\ \A p \in sent : p \in K /\ p \in T
      /\ \A q \in G : q \in K /\ q \in T /\ Place(b, o, q) \in ends
      /\ \A r \in T : r \in K
      /\ cursor # None => cursor \in ends /\ cursor \in Int
  OBVIOUS
<1>3. \A q \in G : cursor # None => cursor < Place(b, o, q)
  <2> SUFFICES ASSUME NEW q \in G, cursor # None PROVE cursor < Place(b, o, q)
    OBVIOUS
  <2>1. PICK p \in sent : cursor = Place(b, o, p)
    OBVIOUS
  <2>2. p < q
    OBVIOUS
  <2> QED BY <1>2, <2>1, <2>2
<1>4. \A x \in ends : /\ x \in Int
                      /\ \E p \in T : x = Place(b, o, p) /\ (p \in G \/ x = cursor)
  <2>1. \A x \in ends : x \in Int
    OBVIOUS
  <2>2. ASSUME NEW x \in ends PROVE \E p \in T : x = Place(b, o, p) /\ (p \in G \/ x = cursor)
    <3>1. CASE \E q \in G : x = Place(b, o, q)
      BY <3>1
    <3>2. CASE x = cursor /\ cursor # None
      BY <3>2
    <3> QED BY <3>1, <3>2
  <2> QED BY <2>1, <2>2
<1>5. ASSUME NEW v
      PROVE  v \in Min(ends) .. Max(ends) <=> v \in Int /\ \E x, y \in ends : x <= v /\ v <= y
  <2>1. ends # {}
    BY <1>2
  <2> QED BY ONLY lo \in Int, hi \in Int, ends \subseteq lo .. hi, <2>1, Spanned
<1>6. ASSUME NEW v \in Int, NEW p \in K, NEW q \in K, p <= b, ~ (q <= b), q \in G, p \in T,
             v \notin ends, Place(b, o, p) \in ends, p \in G \/ Place(b, o, p) = cursor,
             Place(b, o, p) < v, v < Place(b, o, q),
             ~ \E s \in stretches : \A e \in ends : ~ (s <= e /\ e <= v) /\ ~ (v <= e /\ e < s)
      PROVE  \E x, y \in T : /\ (x <= b) <=> (y <= b)
                             /\ Place(b, o, x) < v /\ v < Place(b, o, y)
  <2>1. p \in Int /\ q \in Int /\ p < q /\ Place(b, o, p) = p
    BY <1>1, <1>6
  <2>2. \A r \in sent : r <= b
    <3> SUFFICES ASSUME NEW r \in sent, ~ (r <= b) PROVE FALSE
      OBVIOUS
    <3>1. r \in K /\ r \in Int /\ p < r /\ Place(b, o, p) < Place(b, o, r)
      BY <1>1, <1>2, <1>6, <2>1
    <3>2. Place(b, o, r) <= cursor /\ cursor \in Int
      BY <1>2
    <3>3. p \in G
      BY <1>1, <1>6, <3>1, <3>2
    <3> QED BY <2>1, <3>1, <3>3
  <2>3. PICK s \in stretches : TRUE
    BY <1>2, <1>6, <2>2 DEF Stretched
  <2>4. PICK m \in K : m <= b /\ s = m + 1 /\ (\A r \in K : r <= b => r < s)
    BY <2>3 DEF Stretched
  <2>5. m \in Int /\ s \in Int /\ Place(b, o, m) = m /\ m < q
    BY <1>1, <1>6, <2>1, <2>4
  <2>6. m \in T
    BY <1>6, <2>5
  <2>7. m \in ends
    <3>1. CASE m \in G
      BY <1>2, <2>5, <3>1
    <3>2. CASE m \in sent
      <4>1. cursor # None /\ m <= cursor /\ cursor \in Int
        BY <1>2, <2>5, <3>2
      <4>2. PICK r \in sent : cursor = Place(b, o, r)
        BY <4>1
      <4>3. r \in Int /\ cursor = r /\ r < s
        BY <1>1, <1>2, <2>2, <2>4, <4>2
      <4>4. cursor = m
        BY <2>4, <2>5, <4>1, <4>3
      <4> QED BY <1>2, <4>1, <4>4
    <3> QED BY <2>6, <3>1, <3>2
  <2>8. CASE v < m
    BY <1>6, <2>4, <2>5, <2>6, <2>8
  <2>9. CASE v > m
    <3>1. PICK e \in ends : (s <= e /\ e <= v) \/ (v <= e /\ e < s)
      BY <1>6, <2>3
    <3>2. e \in Int /\ e # v
      BY <1>4, <1>6
    <3>3. s <= e /\ e < v
      BY <1>6, <2>4, <2>5, <2>9, <3>1, <3>2
    <3>4. PICK r \in T : e = Place(b, o, r)
      BY <1>4
    <3>5. ~ (r <= b)
      <4>1. r \in K /\ r \in Int
        BY <1>1, <1>2
      <4> SUFFICES ASSUME r <= b PROVE FALSE
        OBVIOUS
      <4>2. e = r /\ r < s
        BY <1>1, <2>4, <3>4, <4>1
      <4> QED BY <2>5, <3>3, <4>1, <4>2
    <3> QED BY <1>6, <3>3, <3>4, <3>5
  <2>10. v # m
    BY <1>6, <2>7
  <2> QED BY <1>6, <2>5, <2>8, <2>9, <2>10
<1>7. ASSUME NEW v, v \in Gaps(ends) PROVE v \in LineGaps(b, o, T) /\ v \notin LineGaps(b, o, sent)
  <2>1. /\ v \in Min(ends) .. Max(ends) /\ v \notin ends
        /\ ~ \E s \in stretches : \A e \in ends : ~ (s <= e /\ e <= v) /\ ~ (v <= e /\ e < s)
    BY <1>7 DEF Gaps
  <2>2. PICK x \in ends, y \in ends : v \in Int /\ x <= v /\ v <= y
    BY <1>5, <2>1
  <2>3. x \in Int /\ y \in Int /\ x < v /\ v < y
    BY <1>4, <2>1, <2>2
  <2>4. cursor # None => cursor < v
    <3>1. cursor # None => cursor <= x
      BY <1>1, <1>2, <1>3, <1>4
    <3> QED BY <1>2, <2>2, <2>3, <3>1
  <2>5. ASSUME NEW r \in sent PROVE Place(b, o, r) < v
    <3>1. Place(b, o, r) \in Int /\ cursor # None /\ Place(b, o, r) <= cursor /\ cursor \in Int
      BY <1>1, <1>2
    <3> QED BY <2>2, <2>4, <3>1
  <2>6. \A r \in T : Place(b, o, r) # v
    <3>1. \A r \in sent : Place(b, o, r) # v
      BY <1>1, <1>2, <2>2, <2>5
    <3> QED BY <1>2, <2>1, <3>1
  <2>7. v \notin LineGaps(b, o, sent)
    <3> SUFFICES ASSUME v \in LineGaps(b, o, sent) PROVE FALSE
      OBVIOUS
    <3>1. PICK q \in sent : v < Place(b, o, q)
      BY DEF LineGaps
    <3>2. Place(b, o, q) \in Int /\ Place(b, o, q) < v
      BY <1>1, <1>2, <2>5
    <3> QED BY <2>2, <3>1, <3>2
  <2>8. PICK q \in T : y = Place(b, o, q) /\ (q \in G \/ y = cursor)
    BY <1>4
  <2>9. q \in G
    BY <1>2, <2>2, <2>3, <2>4, <2>8
  <2>10. PICK p \in T : x = Place(b, o, p) /\ (p \in G \/ x = cursor)
    BY <1>4
  <2>11. p \in K /\ q \in K /\ p \in Int /\ q \in Int
    BY <1>1, <1>2
  <2>12. p < q
    <3>1. Place(b, o, p) < Place(b, o, q)
      BY <2>2, <2>3, <2>8, <2>10
    <3> QED BY <2>11, <3>1
  <2>13. \E r, t \in T : ((r <= b) <=> (t <= b)) /\ Place(b, o, r) < v /\ v < Place(b, o, t)
    <3>1. CASE (p <= b) <=> (q <= b)
      BY <2>3, <2>8, <2>10, <3>1
    <3>2. CASE p <= b /\ ~ (q <= b)
      BY <1>6, <2>1, <2>2, <2>3, <2>8, <2>9, <2>10, <2>11, <3>2
    <3> QED BY <2>11, <2>12, <3>1, <3>2
  <2> QED BY <2>2, <2>6, <2>7, <2>13 DEF LineGaps
<1>8. ASSUME NEW v, v \in LineGaps(b, o, T), v \notin LineGaps(b, o, sent)
      PROVE  v \in Gaps(ends)
  <2>1. PICK p \in T, q \in T : /\ (p <= b) <=> (q <= b)
                                /\ Place(b, o, p) < v /\ v < Place(b, o, q)
    BY <1>8 DEF LineGaps
  <2>2. v \in Int /\ \A r \in T : Place(b, o, r) # v
    BY <1>8 DEF LineGaps
  <2>3. p \in K /\ q \in K /\ p \in Int /\ q \in Int
    BY <1>1, <1>2
  <2>4. ~ \E r, t \in sent : ((r <= b) <=> (t <= b)) /\ Place(b, o, r) < v /\ v < Place(b, o, t)
    BY <1>2, <1>8, <2>2 DEF LineGaps
  <2>5. PICK P \in Int, Q \in Int : P = Place(b, o, p) /\ Q = Place(b, o, q) /\ P < v /\ v < Q
    BY <1>1, <2>1, <2>3
  <2>6. q \in G
    <3> SUFFICES ASSUME q \in sent PROVE FALSE
      OBVIOUS
    <3>1. Q <= cursor /\ cursor # None
      BY <2>5
    <3>2. p \notin G
      BY <1>2, <1>3, <2>2, <2>5, <3>1
    <3> QED BY <2>1, <2>4, <3>2
  <2>7. v \notin ends
    BY <1>4, <2>2
  <2>8. \E x \in ends : x <= v
    <3>1. CASE p \in G
      BY <1>2, <2>2, <2>5, <3>1
    <3>2. CASE p \in sent
      <4>1. PICK r \in sent : cursor = Place(b, o, r) /\ cursor # None /\ cursor \in Int
        BY <1>2, <3>2
      <4>2. r \in K /\ r \in Int /\ r < q
        BY <1>1, <1>2, <2>6
      <4>3. ~ (v < cursor)
        <5> SUFFICES ASSUME v < cursor PROVE FALSE
          OBVIOUS
        <5>1. Place(b, o, p) < Place(b, o, r)
          BY <2>2, <2>5, <4>1
        <5>2. p < r
          BY <2>3, <4>2, <5>1
        <5>3. (p <= b) <=> (r <= b)
          BY <2>1, <2>3, <4>2, <5>2
        <5> QED BY <2>1, <2>4, <3>2, <4>1, <5>3
      <4> QED BY <1>2, <2>2, <4>1, <4>3
    <3> QED BY <3>1, <3>2
  <2>9. v \in Min(ends) .. Max(ends)
    <3>1. Q \in ends /\ v <= Q
      BY <1>2, <2>2, <2>5, <2>6
    <3> QED BY <1>5, <2>2, <2>8, <3>1
  <2>10. ASSUME NEW s \in stretches,
                \A e \in ends : ~ (s <= e /\ e <= v) /\ ~ (v <= e /\ e < s)
         PROVE  FALSE
    <3>1. PICK m \in K : m <= b /\ s = m + 1 /\ (\A r \in K : r <= b => r < s)
                         /\ (\A r \in sent : r <= b)
      BY <2>10 DEF Stretched
    <3>2. m \in Int /\ s \in Int /\ Place(b, o, m) = m
      BY <1>1, <3>1
    <3>3. Q \in ends
      BY <1>2, <2>5, <2>6
    <3>4. CASE q <= b
      <4>1. Q < s
        BY <1>1, <2>3, <2>5, <3>1, <3>4
      <4> QED BY <2>2, <2>5, <2>10, <3>3, <4>1
    <3>5. CASE ~ (q <= b)
      <4>1. ~ (p <= b) /\ p \in G
        BY <2>1, <3>1, <3>5
      <4>2. m < p
        BY <2>3, <3>1, <3>2, <4>1
      <4>3. Place(b, o, m) < Place(b, o, p)
        BY <2>3, <4>2
      <4>4. s <= P /\ P \in ends
        BY <1>2, <2>5, <3>1, <3>2, <4>1, <4>3
      <4> QED BY <2>2, <2>5, <2>10, <4>4
    <3> QED BY <3>4, <3>5
  <2> QED BY <2>7, <2>9, <2>10 DEF Gaps
<1>9. ASSUME NEW v, v \in LineGaps(b, o, sent) PROVE v \in LineGaps(b, o, T)
  <2>1. PICK p \in sent, q \in sent : /\ (p <= b) <=> (q <= b)
                                      /\ Place(b, o, p) < v /\ v < Place(b, o, q)
    BY <1>9 DEF LineGaps
  <2>2. v \in Int /\ \A r \in sent : Place(b, o, r) # v
    BY <1>9 DEF LineGaps
  <2>3. \A r \in G : Place(b, o, r) # v
    <3>1. cursor # None /\ cursor \in Int /\ Place(b, o, q) <= cursor /\ Place(b, o, q) \in Int
      BY <1>1, <1>2
    <3>2. v < cursor
      BY <2>1, <2>2, <3>1
    <3> QED BY <1>1, <1>2, <1>3, <2>2, <3>1, <3>2
  <2> QED BY <1>2, <2>1, <2>2, <2>3 DEF LineGaps
<1> QED BY <1>7, <1>8, <1>9

\* What goes out keeps gap_lost the number of places missed.
LEMMA ReleaseGaps ==
    ASSUME NEW b \in Int, NEW o \in Int, NEW bound \in Int, NEW entries, NEW going,
           FirstOf(going, entries), cursor \in Int \cup {None}, sent \subseteq Nat,
           OnLine(b, o, entries), Placed(entries, bound),
           NEW a, Apart(b, o, sent \cup PacketsOf(entries), a),
           NEW K, K = sent \cup PacketsOf(entries), Gapped(b, o, K),
           Release(entries, going), Sends
    PROVE  Gapped(b, o, K)'
<1>1. PICK G : G = PacketsOf(going)
  OBVIOUS
<1>2. PICK S : S = sent
  OBVIOUS
<1>3. /\ sent' = S \cup G /\ batch' = going /\ going \subseteq entries
      /\ gap_lost = Cardinality(LineGaps(b, o, S)) /\ Stretched(b, K)
  BY <1>1, <1>2 DEF Release, Sends, PacketsOf, FirstOf, Gapped
<1>4. CASE going = {}
  <2>1. gap_lost' = gap_lost /\ stretches' = stretches /\ sent' = sent
    BY <1>1, <1>2, <1>3, <1>4 DEF Release, PacketsOf
  <2> QED BY <2>1 DEF Gapped, Stretched, LineGaps, Place
<1>5. CASE going # {}
  <2>1. /\ \A p, q \in K : Place(b, o, p) < Place(b, o, q) <=> p < q
        /\ \A e \in entries, p \in sent : p < e.payload
        /\ \A d, e \in entries : d.virt < e.virt <=> d.payload < e.payload
    BY LineOrder
  <2>2. \A e \in entries : /\ e.payload \in Nat /\ e.virt = Place(b, o, e.payload)
                           /\ e.virt \in Int /\ e.virt <= bound /\ e.payload \in K
    BY DEF OnLine, Placed, PacketsOf
  <2>3. K \subseteq Nat /\ G # {} /\ G \subseteq K /\ sent \cup G \subseteq K
    <3>1. \A p \in K : p \in Nat
      BY <2>2 DEF PacketsOf
    <3>2. G # {} /\ G \subseteq K
      BY <1>1, <1>3, <1>5, <2>2 DEF PacketsOf
    <3> QED BY <3>1, <3>2
  <2>4. \A p \in sent, q \in G : p < q
    BY <1>1, <1>3, <2>1 DEF PacketsOf
  <2>5. ASSUME NEW p \in K, NEW q \in G, p < q PROVE p \in sent \cup G
    <3>1. PICK e \in going : q = e.payload
      BY <1>1 DEF PacketsOf
    <3>2. CASE p \in sent
      BY <3>2
    <3>3. CASE p \notin sent
      <4>1. PICK d \in entries : p = d.payload
        BY <3>3 DEF PacketsOf
      <4>2. d.virt < e.virt
        BY <1>3, <2>1, <2>5, <3>1, <4>1
      <4>3. d \in going
        BY <1>3, <2>2, <3>1, <4>1, <4>2 DEF FirstOf
      <4> QED BY <1>1, <4>1, <4>3 DEF PacketsOf
    <3> QED BY <3>2, <3>3
  <2>6. Virts(going) = {Place(b, o, q) : q \in G}
    BY <1>1, <1>3, <2>2 DEF Virts, PacketsOf
  <2>7. PICK ends : ends = {Place(b, o, q) : q \in G} \cup ({cursor} \ {None})
    OBVIOUS
  <2>8. PICK lo \in Int : \A p \in K : Place(b, o, p) \in Int /\ lo <= Place(b, o, p)
    <3>1. PICK lo \in Int : lo <= 0 /\ lo <= o
      <4>1. CASE o <= 0
        BY <4>1
      <4>2. CASE o > 0
        BY <4>2
      <4> QED BY <4>1, <4>2
    <3>2. ASSUME NEW p \in K PROVE Place(b, o, p) \in Int /\ lo <= Place(b, o, p)
      <4>1. p \in Nat
        BY <2>3
      <4> QED BY <3>1, <4>1 DEF Place
    <3> QED BY <3>2
  <2>9. \A p \in sent \cup G : Place(b, o, p) \in lo .. bound
    <3>1. ASSUME NEW p \in sent PROVE Place(b, o, p) \in lo .. bound
      <4>1. cursor # None /\ Place(b, o, p) <= cursor /\ cursor <= bound /\ cursor \in Int
        BY DEF OnLine, Placed
      <4>2. Place(b, o, p) \in Int /\ lo <= Place(b, o, p)
        BY <2>3, <2>8
      <4> QED BY <4>1, <4>2
    <3>2. ASSUME NEW p \in G PROVE Place(b, o, p) \in lo .. bound
      <4>1. PICK e \in entries : p = e.payload
        BY <1>1, <1>3 DEF PacketsOf
      <4> QED BY <2>2, <2>8, <4>1
    <3> QED BY <3>1, <3>2
  <2>10. ends \subseteq lo .. bound
    <3>1. cursor # None => cursor \in lo .. bound
      BY <2>9 DEF OnLine
    <3> QED BY <2>7, <2>9, <3>1
  <2>11. /\ LineGaps(b, o, sent) \subseteq LineGaps(b, o, sent \cup G)
         /\ Gaps(ends) = LineGaps(b, o, sent \cup G) \ LineGaps(b, o, sent)
    <3>1. /\ \A p \in sent : cursor # None /\ Place(b, o, p) <= cursor
          /\ cursor # None => \E p \in sent : cursor = Place(b, o, p)
      BY DEF OnLine
    <3> QED BY <1>3, <2>1, <2>3, <2>4, <2>5, <2>7, <2>10, <3>1, NewGaps
  <2>12. PICK L1 : L1 = LineGaps(b, o, S)
    OBVIOUS
  <2>13. PICK L2 : L2 = LineGaps(b, o, S \cup G)
    OBVIOUS
  <2>14. L1 \subseteq L2 /\ Gaps(ends) = L2 \ L1
    BY <1>2, <2>11, <2>12, <2>13
  <2>15. IsFiniteSet(L2)
    <3>1. L2 \subseteq lo .. bound
      <4> SUFFICES ASSUME NEW v \in L2 PROVE v \in lo .. bound
        OBVIOUS
      <4>1. PICK p \in S \cup G, q \in S \cup G : /\ v \in Int /\ Place(b, o, p) < v
                                                  /\ v < Place(b, o, q)
        BY <2>13 DEF LineGaps
      <4>2. Place(b, o, p) \in lo .. bound /\ Place(b, o, q) \in lo .. bound
        BY <1>2, <2>9
      <4> QED BY <4>1, <4>2
    <3>2. IsFiniteSet(lo .. bound)
      BY FS_Interval
    <3> QED BY <3>1, <3>2, FS_Subset
  <2>16. Cardinality(L2) = Cardinality(L1) + Cardinality(L2 \ L1)
    <3>1. IsFiniteSet(L1) /\ IsFiniteSet(L2 \ L1)
      BY <2>14, <2>15, FS_Subset
    <3>2. L1 \cup (L2 \ L1) = L2 /\ L1 \cap (L2 \ L1) = {}
      BY <2>14
    <3>3. /\ Cardinality(L1) \in Nat /\ Cardinality(L2 \ L1) \in Nat
          /\ Cardinality({}) = 0
      BY <3>1, FS_CardinalityType, FS_EmptySet
    <3>4. Cardinality(L2) = Cardinality(L1) + Cardinality(L2 \ L1) - Cardinality({})
      BY <3>1, <3>2, FS_Union
    <3> QED BY <3>3, <3>4
  <2>17. /\ gap_lost' = gap_lost + Cardinality(Gaps(ends))
         /\ stretches' = {s \in stretches : s > Max(Virts(going))}
    BY <1>5, <2>6, <2>7 DEF Release
  <2>18. gap_lost' = Cardinality(L2)
    BY <1>3, <2>12, <2>14, <2>16, <2>17
  <2>19. LineGaps(b, o, sent)' = L2
    BY <1>3, <2>13 DEF LineGaps, Place
  <2>20. /\ Virts(going) \subseteq Int /\ Virts(going) # {} /\ \A v \in Virts(going) : v <= bound
    BY <1>3, <1>5, <2>2 DEF Virts
  <2>21. PICK m \in Virts(going) : m = Max(Virts(going)) /\ \A v \in Virts(going) : v <= m
    BY <2>20, BoundedMax
  <2>22. Stretched(b, K)'
    <3>1. ASSUME NEW s \in stretches'
          PROVE  /\ \E x \in K : x <= b /\ s = x + 1 /\ \A p \in K : p <= b => p < s
                 /\ \A p \in sent' : p <= b
      <4>1. s \in stretches /\ s > m
        BY <2>17, <2>21, <3>1
      <4>2. PICK x \in K : x <= b /\ s = x + 1 /\ \A p \in K : p <= b => p < s
        BY <1>3, <4>1 DEF Stretched
      <4>3. x \in Nat /\ m \in Int
        BY <2>3, <2>20, <2>21
      <4>4. ASSUME NEW p \in G PROVE p <= b
        <5>1. p \in K /\ p \in Nat /\ Place(b, o, p) \in Virts(going) /\ Place(b, o, p) \in Int
          BY <2>3, <2>6, <2>8
        <5>2. Place(b, o, p) <= m
          BY <2>21, <5>1
        <5> SUFFICES ASSUME ~ (p <= b) PROVE FALSE
          OBVIOUS
        <5>3. x < p
          BY <4>2, <4>3, <5>1
        <5>4. Place(b, o, x) < Place(b, o, p) /\ Place(b, o, x) = x
          BY <2>1, <4>2, <5>1, <5>3 DEF Place
        <5> QED BY <4>1, <4>2, <4>3, <5>1, <5>2, <5>4
      <4>5. \A p \in sent : p <= b
        BY <1>3, <4>1 DEF Stretched
      <4> QED BY <1>2, <1>3, <4>2, <4>4, <4>5
    <3>2. ASSUME \E p \in K : p <= b, \A p \in sent' : p <= b PROVE stretches' # {}
      <4>1. \A p \in sent \cup G : p <= b
        BY <1>2, <1>3, <3>2
      <4>2. PICK s \in stretches : \E x \in K : s = x + 1 /\ \A p \in K : p <= b => p < s
        BY <1>3, <3>2, <4>1 DEF Stretched
      <4>3. PICK q \in G : m = Place(b, o, q)
        BY <2>6
      <4>4. q \in K /\ q <= b /\ q \in Nat
        BY <2>3, <4>1
      <4>5. m = q /\ q < s
        BY <4>2, <4>3, <4>4 DEF Place
      <4>6. s \in Int
        BY <2>3, <4>2
      <4>7. s > m
        BY <4>4, <4>5, <4>6
      <4> QED BY <2>17, <2>21, <4>7
    <3> QED BY <3>1, <3>2 DEF Stretched
  <2> QED BY <2>18, <2>19, <2>22 DEF Gapped
<1> QED BY <1>4, <1>5

\* Everything the hold keeps in step stays so through a release.
LEMMA ReleaseHolds ==
    ASSUME NEW b \in Int, NEW o \in Int, NEW bound \in Int, NEW entries, NEW going,
           FirstOf(going, entries), cursor \in Int \cup {None},
           sent \subseteq Nat, IsFiniteSet(sent), IsFiniteSet(entries),
           OnLine(b, o, entries), Placed(entries, bound), Remembered(b, o),
           NEW a \in Int, Apart(b, o, sent \cup PacketsOf(entries), a),
           Gapped(b, o, sent \cup PacketsOf(entries)),
           Timed(b, entries), \A e \in going : e.payload <= b \/ e.payload + Hold <= clock,
           Release(entries, going), Sends, clock' = clock, lag' = lag,
           anchor_virtual' \in Int, a <= anchor_virtual'
    PROVE  /\ OnLine(b, o, held)' /\ Remembered(b, o)' /\ Timed(b, held)'
           /\ Apart(b, o, Kept, anchor_virtual)' /\ Kept' = sent \cup PacketsOf(entries)
           /\ Gapped(b, o, Kept)'
           /\ IsFiniteSet(held')
           /\ Cardinality(sent') + Cardinality(held') = Cardinality(sent) + Cardinality(entries)
           /\ batch' = going
           /\ \A e \in going, p \in sent : p < e.payload
           /\ \A d, e \in going : d.virt < e.virt <=> d.payload < e.payload
<1>1. going \subseteq entries
  BY DEF FirstOf
<1>2. held' = entries \ going /\ sent' = sent \cup PacketsOf(going) /\ batch' = going
  BY DEF Release, Sends, PacketsOf
<1>3. /\ \A d, e \in entries : d.payload = e.payload => d = e
      /\ \A d, e \in entries : d.virt < e.virt <=> d.payload < e.payload
      /\ \A e \in entries, p \in sent : p < e.payload
  BY LineOrder
<1>4. \A e \in entries : e.payload \notin sent
  <2>1. \A e \in entries : e.payload \in Nat /\ ~ (e.payload < e.payload)
    BY DEF OnLine
  <2> QED BY <1>3, <2>1
<1>5. /\ IsFiniteSet(held')
      /\ Cardinality(sent') + Cardinality(held') = Cardinality(sent) + Cardinality(entries)
  BY <1>1, <1>2, <1>3, <1>4, ReleaseCounts
<1>6. Kept' = sent \cup PacketsOf(entries)
  BY <1>1, <1>2 DEF Kept, HeldPackets, PacketsOf
<1>7. Apart(b, o, Kept, anchor_virtual)'
  <2>1. PICK K : K = sent \cup PacketsOf(entries)
    OBVIOUS
  <2>2. PICK z \in Int : z = anchor_virtual'
    OBVIOUS
  <2>3. \A p \in K : p \in Int
    <3>1. \A p \in PacketsOf(entries) : p \in Int
      BY DEF PacketsOf, OnLine
    <3> QED BY <2>1, <3>1
  <2>4. Apart(b, o, K, a) /\ a <= z
    BY <2>1, <2>2
  <2>5. Apart(b, o, K, z)
    BY <2>3, <2>4, WindowAssumption DEF Apart
  <2> QED BY <1>6, <2>1, <2>2, <2>5 DEF Apart
<1>8. Gapped(b, o, Kept)'
  <2>1. PICK K : K = sent \cup PacketsOf(entries)
    OBVIOUS
  <2>2. Gapped(b, o, K)'
    BY <2>1, ReleaseGaps
  <2> QED BY <1>6, <2>1, <2>2 DEF Gapped, Stretched
<1>9. Timed(b, held)'
  BY <1>1, <1>2 DEF Timed, PacketsOf
<1>10. OnLine(b, o, held)' /\ Remembered(b, o)'
  BY <1>1, ReleaseOnLine
<1> QED BY <1>1, <1>2, <1>3, <1>5, <1>6, <1>7, <1>9, <1>10, <1>8

----------------------------------------------------------------------------
(* A packet arrives. *)

\* The virtual seq of a packet within half the sequence space of the anchor.
LEMMA ProjectAt ==
    ASSUME NEW i \in Nat, NEW t \in Nat, NEW o \in Int, anchor_set, anchor_real = SeqAt(t),
           anchor_virtual = t + o, i - t < Half, t - i <= Half
    PROVE  Project(SeqAt(i)) = i + o
<1>1. Half \in Nat /\ Half > 0 /\ SeqSpace = 2 * Half
  BY WindowAssumption, HalfAssumption DEF SeqSpace
<1>2. PICK d : d = WrappingSub(SeqAt(i), SeqAt(t))
  OBVIOUS
<1>3. Project(SeqAt(i)) = t + o + (IF d < Half THEN d ELSE d - SeqSpace)
  BY <1>2 DEF Project, Signed
<1>4. CASE i >= t
  <2>1. d = i - t
    BY <1>1, <1>2, <1>4, SeqDistance
  <2> QED BY <1>1, <1>3, <2>1
<1>5. CASE i < t
  <2>1. d = SeqSpace - (t - i)
    BY <1>1, <1>2, <1>5, SeqDistance
  <2> QED BY <1>1, <1>3, <1>5, <2>1
<1> QED BY <1>4, <1>5

\* A packet is a copy of one held, or is given to the hitless merger.
LEMMA IngestIs ==
    ASSUME NEW seq, NEW leg, NEW payload, NEW now, Ingest(seq, leg, payload, now)
    PROVE  \/ IngestHeldCopy(seq, leg, now)
           \/ /\ Project(seq) \notin Virts(held) /\ TryMerge(seq, leg, now)
              /\ out' = None => Slide(seq, Project(seq))
              /\ out' # None => Slide(seq, KeyOf(seq))
  BY DEF Ingest, IngestRefused, IngestTooLate, IngestOverflow, IngestNew, Admitted

\* Packet i arrives over leg l, and on a line that it may be the first to stand on.
Arriving(b, o, l, i) ==
    /\ FeedTypes /\ move = NotMoved /\ lag <= Half
    /\ Merging(b, o) /\ Holding(b, o)
    /\ FeedDeliver(l) /\ l \in Legs /\ i \in Nat /\ i = clock - Delay(l)
    /\ ~ initialized => anchor_virtual = i + o

\* The merger is in step again, and what it made of the packet.
Settled(b, o, i) ==
    /\ Merging(b, o)'
    /\ Project(SeqAt(i)) = i + o
    /\ out' # None => KeyOf(SeqAt(i)) = i + o /\ i \notin aired /\ anchor_virtual < i + o + Window
    /\ lag < Window => anchor_virtual < i + o + Window
    /\ lag < Window /\ out' = None /\ Project(SeqAt(i)) \notin Virts(held) => i \in aired

LEMMA ArrivingFacts ==
    ASSUME NEW b, NEW o, NEW l, NEW i, Arriving(b, o, l, i)
    PROVE  /\ b \in Int /\ o \in Int /\ l \in Legs /\ l \in due /\ i \in Nat
           /\ i = clock - Delay(l) /\ clock \in Nat /\ i <= clock /\ clock - i <= lag
           /\ lag \in Nat /\ i > b /\ Half \in Nat /\ last_accept \in Nat
           /\ anchor_virtual \in Int /\ cursor \in Int \cup {None}
           /\ missed[Lead] \in 0 .. MaxMissed /\ MaxMissed \in Nat /\ Reach <= MaxMissed + 1
           /\ PairTypes /\ HoldInv /\ aired \subseteq 0 .. clock /\ Kept \subseteq aired
           /\ last_break.leg # Lead
           /\ l = Lead => i = clock
           /\ Ingest(SeqAt(i), l, i, clock)
           /\ aired' = IF out' = None THEN aired ELSE aired \cup {i}
           /\ here' = i /\ clock' = clock /\ missed' = missed /\ lag' = lag /\ cut' = cut
           /\ move' = move /\ due' = due \ {l} /\ Sends
<1>1. /\ FeedTypes /\ PairTypes /\ HoldInv /\ Merging(b, o) /\ Holding(b, o) /\ FeedDeliver(l)
      /\ l \in Legs /\ i \in Nat /\ i = clock - Delay(l) /\ move = NotMoved
  BY DEF Arriving, FeedTypes
<1>2. l \in due /\ clock \in Nat /\ lag \in Nat /\ last_accept \in Nat
  BY <1>1 DEF FeedDeliver, PairTypes, TypeOK
<1>3. i <= clock /\ clock - i <= lag
  BY <1>1, <1>2, Delivered
<1>4. missed[Lead] \in 0 .. MaxMissed /\ MaxMissed \in Nat
  BY <1>1, PairAssumption DEF PairTypes
<1>5. Reach <= MaxMissed + 1
  BY <1>4 DEF Reach
<1>6. i > b /\ b \in Int /\ o \in Int
  BY <1>1, <1>2 DEF Merging
<1>7. l = Lead => i = clock
  BY <1>1, <1>2 DEF Delay
<1>8. Ingest(SeqAt(i), l, i, clock)
  BY <1>1, SeqAtType DEF FeedDeliver
<1>9. anchor_virtual \in Int /\ cursor \in Int \cup {None}
  BY <1>1 DEF HoldInv, BufferTypeOK
<1> QED
  BY <1>1, <1>2, <1>3, <1>4, <1>5, <1>6, <1>7, <1>8, <1>9, HalfAssumption
     DEF FeedDeliver, Merging, Holding

\* The first of the merger, or of it since both legs were lost.
LEMMA FirstSettles ==
    ASSUME NEW b, NEW o, NEW l, NEW i, Arriving(b, o, l, i), ~ initialized
    PROVE  Settled(b, o, i)
<1>1. PICK seq \in Seqs : seq = SeqAt(i)
  BY ArrivingFacts, SeqAtType
<1>2. ~ anchor_set /\ clock - b <= Reach /\ (\A p \in aired : p <= b) /\ anchor_virtual = i + o
  BY DEF Arriving, Merging
<1>3. Project(seq) = i + o
  BY <1>2 DEF Project
<1>4. i + o \notin Virts(held)
  <2> SUFFICES ASSUME NEW e \in held, e.virt = i + o PROVE FALSE
    BY DEF Virts
  <2>1. PICK p \in Nat : p = e.payload /\ e.virt = Place(b, o, p)
    BY DEF Arriving, Holding, OnLine
  <2>2. p \in Kept
    BY <2>1 DEF Kept, HeldPackets
  <2>3. p <= b
    BY <1>2, <2>2, ArrivingFacts
  <2>4. p + Window <= anchor_virtual
    BY <2>2, <2>3 DEF Arriving, Holding, Apart
  <2> QED BY <1>2, <2>1, <2>3, <2>4, ArrivingFacts, WindowAssumption DEF Place
<1>5. /\ TryMerge(seq, l, clock)
      /\ out' = None => Slide(seq, Project(seq))
      /\ out' # None => Slide(seq, KeyOf(seq))
  BY <1>1, <1>3, <1>4, ArrivingFacts, IngestIs DEF IngestHeldCopy
<1>6. MergeFirst(seq, l, clock)
  BY <1>5 DEF TryMerge, MergeJump, MergeAdvance, MergeFill, MergeDuplicate, MergeMoved,
     MergeTooLate
<1>7. /\ initialized' /\ highest_seq' = seq /\ highest_slot' = 0 /\ emitted' = {0}
      /\ last_accept' = clock /\ out' # None /\ last_break'.leg # Lead /\ resets' = resets
  <2>1. l \in Legs /\ last_break.leg # Lead
    BY ArrivingFacts
  <2>2. Anchor(seq) /\ Accept(l, clock, moved, last_break) /\ UNCHANGED countVars /\ initialized'
    BY <1>6 DEF MergeFirst
  <2> QED
    BY <2>1, <2>2, LegsAssumption, PairAssumption DEF Anchor, Accept, NoBreak, countVars
<1>8. KeyOf(seq) = i + o
  BY <1>3, <1>7 DEF KeyOf
<1>9. anchor_set' /\ anchor_real' = seq /\ anchor_virtual' = i + o
  BY <1>2, <1>5, <1>7, <1>8 DEF Slide
<1>10. i \notin aired /\ aired' = aired \cup {i}
  BY <1>2, <1>7, ArrivingFacts
<1>11. Agrees({p \in aired : p > b}, i)'
  <2>1. PICK S : S = {}
    OBVIOUS
  <2>2. Agrees(S \cup {i}, i)'
    <3>1. i \in Int /\ S \subseteq Int /\ \A p \in S : p <= i - Window
      BY <2>1, ArrivingFacts
    <3> QED BY <1>7, <3>1, AnchorAgrees
  <2>3. {p \in aired' : p > b} = S \cup {i}
    <3>1. \A p \in aired : p \in Int
      BY ArrivingFacts
    <3> QED BY <1>2, <1>10, <2>1, <3>1, ArrivingFacts
  <2> QED BY <2>2, <2>3 DEF Agrees
<1>12. Tracks(b, o, i)'
  BY <1>1, <1>7, <1>9, <1>11, ArrivingFacts DEF Tracks
<1>13. clock - i <= Reach'
  <2>1. Reach' = IF Lead \in due \ {l} THEN MaxMissed + 1 ELSE missed[Lead]
    BY ArrivingFacts DEF Reach
  <2>2. /\ i > b /\ b \in Int /\ i \in Nat /\ clock \in Nat /\ missed[Lead] \in 0 .. MaxMissed
        /\ MaxMissed \in Nat
        /\ l = Lead => i = clock
    BY ArrivingFacts
  <2>3. CASE l = Lead
    BY <2>1, <2>2, <2>3
  <2>4. CASE l # Lead
    <3>1. Reach' = Reach
      BY <2>1, <2>4 DEF Reach
    <3> QED BY <1>2, <2>2, <3>1 DEF Reach
  <2> QED BY <2>3, <2>4
<1>14. Merging(b, o)'
  <2>1. aired' \subseteq 0 .. clock'
    BY <1>10, ArrivingFacts
  <2>2. \A k \in due' : clock' - Delay(k)' > b
    BY ArrivingFacts DEF Arriving, Merging, Delay
  <2>3. b <= clock' /\ (cut' = None => o = 0)
    BY ArrivingFacts DEF Arriving, Merging
  <2> QED BY <1>7, <1>10, <1>12, <1>13, <2>1, <2>2, <2>3, ArrivingFacts DEF Merging
<1> QED
  BY <1>1, <1>2, <1>3, <1>7, <1>8, <1>10, <1>14, ArrivingFacts, WindowAssumption DEF Settled

\* The merger is in step again if it tracks a packet no older than the one that came.
LEMMA InStepAgain ==
    ASSUME NEW b, NEW o, NEW l, NEW i, Arriving(b, o, l, i), initialized',
           last_break'.leg # Lead, NEW u \in aired', u \in Nat, u > b, i <= u,
           clock - u <= Reach, Tracks(b, o, u)'
    PROVE  Merging(b, o)'
<1>1. /\ clock \in Nat /\ i \in Nat /\ i <= clock /\ b \in Int /\ o \in Int
      /\ missed[Lead] \in 0 .. MaxMissed /\ MaxMissed \in Nat
      /\ clock' = clock /\ due' = due \ {l} /\ missed' = missed
  BY ArrivingFacts
<1>2. clock' - u <= Reach'
  <2>1. Reach' = IF Lead \in due \ {l} THEN MaxMissed + 1 ELSE missed[Lead]
    BY <1>1 DEF Reach
  <2>2. CASE l = Lead
    <3>1. i = clock
      BY <2>2, ArrivingFacts
    <3> QED BY <1>1, <2>1, <2>2, <3>1
  <2>3. CASE l # Lead
    <3>1. Reach' = Reach
      BY <2>1, <2>3 DEF Reach
    <3> QED BY <1>1, <3>1
  <2> QED BY <2>2, <2>3
<1>3. aired' \subseteq 0 .. clock'
  <2>1. aired \subseteq 0 .. clock /\ aired' \subseteq aired \cup {i}
    BY ArrivingFacts
  <2> QED BY <1>1, <2>1
<1>4. \A k \in due' : clock' - Delay(k)' > b
  BY ArrivingFacts DEF Arriving, Merging, Delay
<1>5. b <= clock' /\ (cut' = None => o = 0)
  BY ArrivingFacts DEF Arriving, Merging
<1> QED BY <1>1, <1>2, <1>3, <1>4, <1>5 DEF Merging

\* A packet while the merger tracks the stream.
LEMMA StreamSettles ==
    ASSUME MaxMissed + 1 < Half,
           NEW b, NEW o, NEW l, NEW i, Arriving(b, o, l, i), initialized
    PROVE  Settled(b, o, i)
<1>1. PICK seq \in Seqs : seq = SeqAt(i)
  BY ArrivingFacts, SeqAtType
<1>2. /\ clock \in Nat /\ i \in Nat /\ i <= clock /\ clock - i <= lag /\ lag \in Nat
      /\ b \in Int /\ o \in Int /\ Half \in Nat /\ i > b /\ lag <= Half
      /\ last_accept \in Nat /\ anchor_virtual \in Int /\ Reach <= MaxMissed + 1
      /\ MaxMissed \in Nat /\ missed[Lead] \in 0 .. MaxMissed
  BY ArrivingFacts DEF Arriving
<1>3. Reach \in Nat
  BY <1>2 DEF Reach
<1>4. PICK t \in aired : t > b /\ Tracks(b, o, t) /\ clock - t <= Reach
  BY DEF Arriving, Merging
<1>5. PICK S : S = {p \in aired : p > b}
  OBVIOUS
<1>6. /\ t \in Nat /\ t <= clock /\ t \in S /\ S \subseteq Int
  <2>1. \A p \in aired : p \in Int /\ 0 <= p /\ p <= clock
    <3>1. aired \subseteq 0 .. clock
      BY ArrivingFacts
    <3> QED BY <1>2, <3>1
  <2>2. S \subseteq Int /\ t \in S
    BY <1>4, <1>5, <2>1
  <2> QED BY <2>1, <2>2
<1>7. /\ highest_seq = SeqAt(t) /\ Agrees(S, t) /\ t <= last_accept /\ last_accept <= clock
      /\ anchor_set /\ anchor_real = SeqAt(t) /\ anchor_virtual = t + o
  BY <1>4, <1>5 DEF Tracks
<1>8. i - t < Half /\ t - i <= Half /\ clock - t <= MaxMissed + 1
  BY <1>2, <1>3, <1>4, <1>6
<1>9. Project(seq) = i + o
  BY <1>2, <1>1, <1>6, <1>7, <1>8, ProjectAt
<1>10. lag < Window => anchor_virtual < i + o + Window
  BY <1>2, <1>6, <1>7, WindowAssumption
<1>11. CASE IngestHeldCopy(seq, l, clock)
  <2>1. PICK e \in held : e.virt = i + o
    BY <1>9, <1>11 DEF IngestHeldCopy, Virts
  <2>2. i + o <= anchor_virtual
    BY <2>1, ArrivingFacts DEF HoldInv, HeldInPlace
  <2>3. i <= t
    BY <1>2, <1>6, <1>7, <2>2
  <2>4. /\ out' = None /\ UNCHANGED <<highest_seq, highest_slot, emitted, last_accept>>
        /\ last_break' = last_break /\ initialized' = initialized
    BY <1>11 DEF IngestHeldCopy, Observe, windowVars, legVars
  <2>5. anchor_set' /\ anchor_real' = anchor_real /\ anchor_virtual' = anchor_virtual
    BY <1>7, <1>9, <1>11, <2>2 DEF IngestHeldCopy, Slide
  <2>6. aired' = aired /\ clock' = clock /\ last_break.leg # Lead
    BY <2>4, ArrivingFacts
  <2>7. Agrees({p \in aired : p > b}, t)'
    <3>1. Agrees(S, t)'
      BY <1>7, <2>4, UnmovedAgrees
    <3> QED BY <1>5, <2>6, <3>1 DEF Agrees
  <2>8. Tracks(b, o, t)'
    BY <1>7, <2>4, <2>5, <2>6, <2>7 DEF Tracks
  <2>9. Merging(b, o)'
    BY <1>4, <1>6, <2>3, <2>4, <2>6, <2>8, InStepAgain
  <2>10. Project(seq) \in Virts(held)
    BY <1>11 DEF IngestHeldCopy
  <2> QED BY <1>1, <1>9, <1>10, <2>4, <2>9, <2>10 DEF Settled
<1>12. CASE ~ IngestHeldCopy(seq, l, clock)
  <2>1. /\ Project(seq) \notin Virts(held) /\ TryMerge(seq, l, clock)
        /\ out' = None => Slide(seq, Project(seq))
        /\ out' # None => Slide(seq, KeyOf(seq))
    BY <1>1, <1>12, ArrivingFacts, IngestIs
  <2>2. /\ initialized' /\ last_break'.leg # Lead
        /\ i > t => /\ highest_seq' = SeqAt(i) /\ last_accept' = clock
                    /\ out' # None /\ Agrees(S \cup {i}, i)'
        /\ i <= t => /\ highest_seq' = highest_seq /\ resets' = resets
                     /\ last_accept' \in {clock, last_accept}
                     /\ out' # None => t - i < Window /\ i \notin S /\ Agrees(S \cup {i}, t)'
                     /\ out' = None => (t - i < Window => i \in S) /\ Agrees(S, t)'
    <3>1. /\ PairTypes /\ last_break.leg # Lead /\ l \in Legs /\ l \in due /\ i = clock - Delay(l)
      BY ArrivingFacts
    <3> QED BY <1>2, <1>1, <1>6, <1>7, <1>8, <2>1, <3>1, StreamOutcome
  <2>3. aired' = (IF out' = None THEN aired ELSE aired \cup {i}) /\ clock' = clock
    BY ArrivingFacts
  <2>4. CASE i > t
    <3>1. KeyOf(seq) = i + o
      BY <1>2, <1>6, <1>7, <1>9, <2>4 DEF KeyOf
    <3>2. anchor_set' /\ anchor_real' = seq /\ anchor_virtual' = i + o
      <4>1. ~ (i + o <= anchor_virtual)
        BY <1>2, <1>6, <1>7, <2>4
      <4> QED BY <2>1, <2>2, <2>4, <3>1, <4>1 DEF Slide
    <3>3. i \notin aired
      <4>1. i \notin S
        BY <1>2, <1>6, <1>7, <2>4 DEF Agrees
      <4> QED BY <1>2, <1>5, <4>1
    <3>4. aired' = aired \cup {i}
      BY <2>2, <2>3, <2>4
    <3>5. Agrees({p \in aired : p > b}, i)'
      <4>1. {p \in aired' : p > b} = S \cup {i}
        BY <1>2, <1>5, <3>4
      <4> QED BY <2>2, <2>4, <4>1 DEF Agrees
    <3>6. Tracks(b, o, i)'
      BY <1>2, <1>1, <2>2, <2>3, <2>4, <3>2, <3>5 DEF Tracks
    <3>7. Merging(b, o)'
      <4>1. i \in aired' /\ clock - i <= Reach
        BY <1>2, <1>3, <1>4, <1>6, <2>4, <3>4
      <4> QED BY <1>2, <2>2, <3>6, <4>1, InStepAgain
    <3>8. anchor_virtual < i + o + Window
      BY <1>2, <1>6, <1>7, <2>4, WindowAssumption
    <3> QED BY <1>1, <1>9, <1>10, <2>2, <2>4, <3>1, <3>3, <3>7, <3>8 DEF Settled
  <2>5. CASE i <= t
    <3>1. KeyOf(seq) = i + o
      BY <1>9, <2>2, <2>5 DEF KeyOf
    <3>2. anchor_set' /\ anchor_real' = anchor_real /\ anchor_virtual' = anchor_virtual
      <4>1. i + o <= anchor_virtual
        BY <1>2, <1>6, <1>7, <2>5
      <4> QED BY <1>7, <1>9, <2>1, <3>1, <4>1 DEF Slide
    <3>3. Agrees({p \in aired : p > b}, t)'
      <4>1. CASE out' = None
        <5>1. aired' = aired /\ Agrees(S, t)'
          BY <2>2, <2>3, <2>5, <4>1
        <5> QED BY <1>5, <5>1 DEF Agrees
      <4>2. CASE out' # None
        <5>1. {p \in aired' : p > b} = S \cup {i} /\ Agrees(S \cup {i}, t)'
          BY <1>2, <1>5, <2>2, <2>3, <2>5, <4>2
        <5> QED BY <5>1 DEF Agrees
      <4> QED BY <4>1, <4>2
    <3>4. t <= last_accept' /\ last_accept' <= clock
      BY <1>2, <1>6, <1>7, <2>2, <2>5
    <3>5. Tracks(b, o, t)'
      BY <1>7, <2>2, <2>3, <2>5, <3>2, <3>3, <3>4 DEF Tracks
    <3>6. Merging(b, o)'
      <4>1. t \in aired'
        BY <2>3
      <4> QED BY <1>4, <1>6, <2>2, <2>5, <3>5, <4>1, InStepAgain
    <3>7. out' # None => i \notin aired /\ anchor_virtual < i + o + Window
      BY <1>2, <1>5, <1>6, <1>7, <2>2, <2>5, WindowAssumption
    <3>8. lag < Window /\ out' = None => i \in aired
      <4>1. lag < Window => t - i < Window
        BY <1>2, <1>6, WindowAssumption
      <4> QED BY <1>5, <2>2, <2>5, <4>1
    <3> QED BY <1>1, <1>9, <1>10, <3>1, <3>6, <3>7, <3>8 DEF Settled
  <2> QED BY <1>2, <1>6, <2>4, <2>5
<1> QED BY <1>11, <1>12

----------------------------------------------------------------------------
(* What the hold makes of a packet. *)

\* What goes out is in the order of the source, behind all that went before.
InOrder ==
    \A e \in batch' : /\ \A p \in sent : p < e.payload
                      /\ \A d \in batch' : d.virt < e.virt <=> d.payload < e.payload

\* drain_ready, over the entries held and perhaps a new one.
LEMMA DrainHolds ==
    ASSUME NEW b \in Int, NEW o \in Int, NEW bound \in Int, NEW entries,
           cursor \in Int \cup {None}, clock \in Nat,
           sent \subseteq Nat, IsFiniteSet(sent), IsFiniteSet(entries),
           OnLine(b, o, entries), Placed(entries, bound), Remembered(b, o),
           NEW a \in Int, Apart(b, o, sent \cup PacketsOf(entries), a), Timed(b, entries),
           Gapped(b, o, sent \cup PacketsOf(entries)),
           Drain(entries, clock), Sends, clock' = clock, lag' = lag,
           anchor_virtual' \in Int, a <= anchor_virtual'
    PROVE  /\ OnLine(b, o, held)' /\ Remembered(b, o)' /\ Timed(b, held)'
           /\ Apart(b, o, Kept, anchor_virtual)' /\ Kept' = sent \cup PacketsOf(entries)
           /\ Gapped(b, o, Kept)'
           /\ IsFiniteSet(held') /\ held' \subseteq entries
           /\ Cardinality(sent') + Cardinality(held') = Cardinality(sent) + Cardinality(entries)
           /\ InOrder
<1>1. PICK going : going = Ready(entries, clock)
  OBVIOUS
<1>2. going \subseteq entries /\ Release(entries, going) /\ FirstOf(going, entries)
  <2>1. \A e \in entries : e.virt \in Int
    BY DEF Placed
  <2> QED BY <1>1, <2>1, ReadyIsFirst DEF Ready, Drain
<1>3. ASSUME NEW e \in going PROVE e.payload + Hold <= clock
  <2>1. e \in entries /\ e.virt \in Int /\ e.payload \in Nat /\ e.release_at \in Int
    BY <1>2 DEF OnLine, Placed, Timed
  <2>2. e.release_at <= clock /\ e.payload + Hold <= e.release_at
    BY <1>1, <2>1 DEF Ready, Timed
  <2> QED BY <2>1, <2>2, HoldAssumption
<1>4. /\ OnLine(b, o, held)' /\ Remembered(b, o)' /\ Timed(b, held)'
      /\ Apart(b, o, Kept, anchor_virtual)' /\ Kept' = sent \cup PacketsOf(entries)
      /\ Gapped(b, o, Kept)'
      /\ IsFiniteSet(held')
      /\ Cardinality(sent') + Cardinality(held') = Cardinality(sent) + Cardinality(entries)
      /\ batch' = going
      /\ \A e \in going, p \in sent : p < e.payload
      /\ \A d, e \in going : d.virt < e.virt <=> d.payload < e.payload
  BY <1>2, <1>3, ReleaseHolds
<1>5. held' \subseteq entries
  BY <1>2 DEF Release
<1> QED BY <1>4, <1>5 DEF InOrder

\* The anchor moves forward only, and to the packet at least.
LEMMA AnchorForward ==
    ASSUME HoldInv, NEW seq \in Seqs, NEW leg, NEW payload, NEW now,
           Ingest(seq, leg, payload, now)
    PROVE  /\ anchor_virtual' \in Int /\ anchor_virtual <= anchor_virtual'
           /\ Admitted(seq, leg, now) => KeyOf(seq) \in Int /\ KeyOf(seq) <= anchor_virtual'
                                         /\ KeyOf(seq) \notin Virts(held)
<1>1. BufferTypeOK
  BY DEF HoldInv
<1>2. Project(seq) \in Int /\ (~ anchor_set => Project(seq) = anchor_virtual)
  BY <1>1, ProjectType
<1>3. ASSUME Admitted(seq, leg, now)
      PROVE  /\ anchor_virtual' \in Int /\ anchor_virtual <= anchor_virtual'
             /\ KeyOf(seq) \in Int /\ KeyOf(seq) <= anchor_virtual'
             /\ KeyOf(seq) \notin Virts(held)
  <2>1. Project(seq) \notin Virts(held) /\ Slide(seq, KeyOf(seq))
    BY <1>3 DEF Admitted
  <2>2. /\ KeyOf(seq) \in Int /\ KeyOf(seq) \notin Virts(held)
        /\ ~ anchor_set => KeyOf(seq) = anchor_virtual
    BY <2>1, KeyOfPlace
  <2> QED BY <1>1, <2>1, <2>2, SlideBound
<1>4. ASSUME Slide(seq, Project(seq))
      PROVE  anchor_virtual' \in Int /\ anchor_virtual <= anchor_virtual'
  BY <1>1, <1>2, <1>4, SlideBound
<1> QED
  BY <1>3, <1>4
     DEF Ingest, IngestHeldCopy, IngestRefused, IngestTooLate, IngestOverflow, IngestNew

\* The hold is in step again, and what it made of the packet.
Held(b, o, i) ==
    /\ Holding(b, o)'
    /\ lag <= Hold /\ lag < Window /\ overflow_dropped' = 0 => i \in Kept'
    /\ \A e \in held' : e \in held \/ e.release_at = clock + Hold
    /\ InOrder
    /\ late_dropped' > late_dropped /\ (\A p \in sent : p - i < Remember) => i \notin sent

LEMMA HoldingFacts ==
    ASSUME FeedTypes, NEW b \in Int, NEW o \in Int, Holding(b, o), aired \subseteq 0 .. clock
    PROVE  /\ clock \in Nat /\ lag \in Nat /\ anchor_virtual \in Int
           /\ cursor \in Int \cup {None} /\ aired \subseteq Nat /\ IsFiniteSet(aired)
           /\ sent \subseteq aired /\ sent \subseteq Nat /\ IsFiniteSet(sent)
           /\ IsFiniteSet(held) /\ Kept = sent \cup PacketsOf(held)
           /\ Cardinality(sent) \in Nat /\ Cardinality(held) \in Nat
           /\ Cardinality(aired) \in Nat /\ unreleased \in Nat
           /\ Cardinality(aired) = Cardinality(sent) + Cardinality(held) + unreleased
           /\ OnLine(b, o, held) /\ Remembered(b, o) /\ Timed(b, held)
           /\ Gapped(b, o, Kept) /\ Apart(b, o, Kept, anchor_virtual) /\ Kept \subseteq aired
<1>1. clock \in Nat /\ lag \in Nat /\ anchor_virtual \in Int /\ cursor \in Int \cup {None}
      /\ unreleased \in Nat
  BY DEF FeedTypes, PairTypes, TypeOK, HoldInv, BufferTypeOK
<1>2. IsFiniteSet(0 .. clock)
  BY <1>1, FS_Interval
<1>3. IsFiniteSet(aired)
  BY <1>2, FS_Subset
<1>4. sent \subseteq aired /\ IsFiniteSet(sent)
  BY <1>3, FS_Subset DEF Holding, Kept
<1>5. Kept = sent \cup PacketsOf(held)
  BY DEF Kept, HeldPackets, PacketsOf
<1>6. Cardinality(sent) \in Nat /\ Cardinality(held) \in Nat /\ Cardinality(aired) \in Nat
  BY <1>3, <1>4, FS_CardinalityType DEF Holding
<1> QED BY <1>1, <1>3, <1>4, <1>5, <1>6 DEF Holding

\* Nothing new is held.
LEMMA HeldDrains ==
    ASSUME FeedTypes, NEW b \in Int, NEW o \in Int, Holding(b, o), aired \subseteq 0 .. clock,
           Drain(held, clock), Sends, clock' = clock, lag' = lag,
           anchor_virtual' \in Int, anchor_virtual <= anchor_virtual'
    PROVE  /\ OnLine(b, o, held)' /\ Remembered(b, o)' /\ Timed(b, held)'
           /\ Apart(b, o, Kept, anchor_virtual)' /\ Kept' = Kept /\ Gapped(b, o, Kept)'
           /\ IsFiniteSet(held') /\ held' \subseteq held
           /\ Cardinality(sent') + Cardinality(held') = Cardinality(sent) + Cardinality(held)
           /\ InOrder
<1>1. /\ cursor \in Int \cup {None} /\ clock \in Nat
      /\ sent \subseteq Nat /\ IsFiniteSet(sent) /\ IsFiniteSet(held)
      /\ OnLine(b, o, held) /\ Remembered(b, o) /\ Timed(b, held)
      /\ Kept = sent \cup PacketsOf(held) /\ anchor_virtual \in Int
      /\ Apart(b, o, sent \cup PacketsOf(held), anchor_virtual)
      /\ Gapped(b, o, sent \cup PacketsOf(held))
  BY HoldingFacts
<1>2. PICK a \in Int : a = anchor_virtual
  BY <1>1
<1>3. Placed(held, a)
  BY <1>2, HeldPlaced DEF FeedTypes
<1>4. Apart(b, o, sent \cup PacketsOf(held), a) /\ a <= anchor_virtual'
  BY <1>1, <1>2
<1>5. PICK entries : entries = held
  OBVIOUS
<1>6. /\ OnLine(b, o, held)' /\ Remembered(b, o)' /\ Timed(b, held)'
      /\ Apart(b, o, Kept, anchor_virtual)' /\ Kept' = sent \cup PacketsOf(entries)
      /\ Gapped(b, o, Kept)'
      /\ IsFiniteSet(held') /\ held' \subseteq entries
      /\ Cardinality(sent') + Cardinality(held') = Cardinality(sent) + Cardinality(entries)
      /\ InOrder
  BY <1>1, <1>3, <1>4, <1>5, DrainHolds
<1> QED BY <1>1, <1>5, <1>6

\* A packet admitted stands past the first stream, was not sent before and is not in
\* the memory; with legs no further apart than the hold it comes in time.
LEMMA AdmittedIsNew ==
    ASSUME NEW b, NEW o, NEW l, NEW i, Arriving(b, o, l, i), Settled(b, o, i), out' # None
    PROVE  /\ KeyOf(SeqAt(i)) = i + o /\ i + o = Place(b, o, i)
           /\ i \notin aired /\ i \notin sent
           /\ \A p \in Kept : p <= b => p < i + o
           /\ ~ KnownReleased(i + o)
           /\ lag <= Hold => ~ Passed(i + o)
<1>1. /\ b \in Int /\ o \in Int /\ i \in Nat /\ i > b /\ clock \in Nat /\ clock - i <= lag
      /\ lag \in Nat /\ anchor_virtual \in Int /\ Kept \subseteq aired /\ aired \subseteq 0 .. clock
      /\ cursor \in Int \cup {None}
  BY ArrivingFacts
<1>2. KeyOf(SeqAt(i)) = i + o /\ i \notin aired /\ anchor_virtual < i + o + Window
  BY DEF Settled
<1>3. i + o = Place(b, o, i)
  BY <1>1 DEF Place
<1>4. /\ Apart(b, o, Kept, anchor_virtual) /\ sent \subseteq aired /\ Remembered(b, o)
      /\ OnLine(b, o, held) /\ Timed(b, held) /\ \A p \in sent : p \in Kept /\ p \in Nat
  <2>1. /\ Apart(b, o, Kept, anchor_virtual) /\ sent \subseteq aired /\ Remembered(b, o)
        /\ OnLine(b, o, held) /\ Timed(b, held) /\ sent \subseteq Nat
    BY <1>1, HoldingFacts DEF Arriving
  <2> QED BY <2>1 DEF Kept
<1>5. ASSUME NEW p \in Kept, p <= b PROVE p < i + o
  <2>1. p \in Int /\ p + Window <= anchor_virtual
    BY <1>1, <1>4, <1>5 DEF Apart
  <2> QED BY <1>1, <1>2, <2>1, WindowAssumption
<1>6. ASSUME NEW p \in sent PROVE i + o # Place(b, o, p) /\ (p <= b => Place(b, o, p) < i + o)
  <2>1. CASE p <= b
    BY <1>1, <1>4, <1>5, <2>1 DEF Place
  <2>2. CASE ~ (p <= b)
    <3>1. p # i
      BY <1>2, <1>4
    <3> QED BY <1>1, <1>4, <2>2, <3>1 DEF Place
  <2> QED BY <2>1, <2>2
<1>7. ~ KnownReleased(i + o)
  <2> SUFFICES ASSUME released[(i + o) % Remember] = i + o PROVE FALSE
    BY DEF KnownReleased
  <2>1. PICK x \in Int : x = i + o
    BY <1>1
  <2>2. PICK s : s = x % Remember
    OBVIOUS
  <2>3. s \in 0 .. Remember - 1
    BY <2>2, Divided, HoldAssumption
  <2>4. released[s] = x /\ x # None
    BY <2>1, <2>2, LegsAssumption
  <2>5. PICK p \in sent : released[s] = Place(b, o, p)
    BY <1>4, <2>3, <2>4 DEF Remembered
  <2> QED BY <1>6, <2>1, <2>4, <2>5
<1>8. ASSUME lag <= Hold PROVE ~ Passed(i + o)
  <2> SUFFICES ASSUME cursor # None, i + o <= cursor PROVE FALSE
    BY DEF Passed
  <2>1. PICK p \in sent : cursor = Place(b, o, p)
    BY <1>4 DEF OnLine
  <2>2. CASE p <= b
    BY <1>1, <1>6, <2>1, <2>2
  <2>3. CASE ~ (p <= b)
    <3>1. p \in Nat /\ p + Hold <= clock /\ cursor = p + o /\ p # i
      BY <1>2, <1>4, <2>1, <2>3 DEF Timed, Place
    <3> QED BY <1>1, <1>8, <3>1, HoldAssumption
  <2> QED BY <2>2, <2>3
<1> QED BY <1>2, <1>3, <1>4, <1>5, <1>7, <1>8

\* The new entry, on the line and in its time.
LEMMA NewPacketHeld ==
    ASSUME NEW b, NEW o, NEW l, NEW i, Arriving(b, o, l, i), Settled(b, o, i),
           IngestNew(SeqAt(i), l, i, clock)
    PROVE  Held(b, o, i)
<1>1. /\ b \in Int /\ o \in Int /\ i \in Nat /\ i > b /\ clock \in Nat /\ i <= clock
      /\ clock - i <= lag /\ lag \in Nat /\ anchor_virtual \in Int /\ HoldInv
      /\ cursor \in Int \cup {None} /\ aired \subseteq 0 .. clock
      /\ Ingest(SeqAt(i), l, i, clock)
      /\ aired' = IF out' = None THEN aired ELSE aired \cup {i}
      /\ clock' = clock /\ lag' = lag /\ Sends
  BY ArrivingFacts
<1>2. PICK seq \in Seqs : seq = SeqAt(i)
  BY <1>1, SeqAtType
<1>3. /\ Admitted(seq, l, clock) /\ out' # None /\ ~ Passed(KeyOf(seq)) /\ UNCHANGED lateVars
      /\ Drain(held \cup {[virt |-> KeyOf(seq), payload |-> i, release_at |-> clock + Hold]},
               clock)
  BY <1>2 DEF IngestNew, Admitted, TooLateToHold
<1>4. PICK key \in Int : key = KeyOf(seq) /\ key = i + o
  BY <1>1, <1>2, <1>3 DEF Settled
<1>5. PICK new : new = [virt |-> key, payload |-> i, release_at |-> clock + Hold]
  OBVIOUS
<1>6. PICK entries : entries = held \cup {new}
  OBVIOUS
<1>7. /\ new.virt = key /\ new.payload = i /\ new.release_at = clock + Hold
      /\ Drain(entries, clock)
  BY <1>3, <1>4, <1>5, <1>6
<1>8. /\ Kept = sent \cup PacketsOf(held) /\ sent \subseteq Nat /\ IsFiniteSet(sent)
      /\ IsFiniteSet(held) /\ OnLine(b, o, held) /\ Remembered(b, o) /\ Timed(b, held)
      /\ Apart(b, o, Kept, anchor_virtual) /\ Kept \subseteq aired /\ IsFiniteSet(aired)
      /\ Gapped(b, o, Kept) /\ Cardinality(sent) \in Nat /\ Cardinality(held) \in Nat
      /\ Cardinality(aired) \in Nat /\ unreleased \in Nat
      /\ Cardinality(aired) = Cardinality(sent) + Cardinality(held) + unreleased
  BY <1>1, HoldingFacts DEF Arriving
<1>9. /\ i + o = Place(b, o, i) /\ i \notin aired /\ \A p \in Kept : p <= b => p < i + o
  BY <1>3, AdmittedIsNew
<1>10. /\ anchor_virtual' \in Int /\ anchor_virtual <= anchor_virtual'
       /\ key <= anchor_virtual' /\ key \notin Virts(held)
  BY <1>1, <1>2, <1>3, <1>4, AnchorForward
<1>11. PICK bound \in Int : bound = anchor_virtual'
  BY <1>10
<1>12. Placed(entries, bound)
  <2>1. Placed(held, bound)
    BY <1>1, <1>10, <1>11, HeldPlaced
  <2>2. key <= bound /\ ~ Passed(key) /\ key \notin Virts(held)
    BY <1>3, <1>4, <1>10, <1>11
  <2> QED BY <1>6, <1>7, <2>1, <2>2 DEF Placed, Virts
<1>13. OnLine(b, o, entries)
  BY <1>1, <1>4, <1>6, <1>7, <1>8, <1>9 DEF OnLine
<1>14. Timed(b, entries)
  BY <1>1, <1>6, <1>7, <1>8, HoldAssumption DEF Timed
<1>15. sent \cup PacketsOf(entries) = Kept \cup {i}
  BY <1>6, <1>7, <1>8 DEF PacketsOf
<1>16. Apart(b, o, sent \cup PacketsOf(entries), anchor_virtual)
  <2>1. PICK K : K = Kept
    OBVIOUS
  <2>2. Apart(b, o, K, anchor_virtual) /\ \A p \in K : p <= b => p < i + o
    BY <1>8, <1>9, <2>1
  <2>3. Apart(b, o, K \cup {i}, anchor_virtual)
    BY <1>1, <2>2 DEF Apart
  <2> QED BY <1>15, <2>1, <2>3
<1>17. Gapped(b, o, sent \cup PacketsOf(entries))
  <2>1. PICK K : K = Kept
    OBVIOUS
  <2>2. Stretched(b, K) /\ ~ (i <= b)
    BY <1>1, <1>8, <2>1 DEF Gapped
  <2>3. Stretched(b, K \cup {i})
    BY <2>2 DEF Stretched
  <2> QED BY <1>8, <1>15, <2>1, <2>3 DEF Gapped
<1>18. new \notin held /\ IsFiniteSet(entries) /\ Cardinality(entries) = Cardinality(held) + 1
  <2>1. new \notin held
    BY <1>7, <1>10 DEF Virts
  <2> QED BY <1>6, <1>8, <2>1, FS_AddElement
<1>19. PICK a \in Int : a = anchor_virtual
  BY <1>1
<1>20. Apart(b, o, sent \cup PacketsOf(entries), a) /\ a <= anchor_virtual'
  BY <1>10, <1>16, <1>19
<1>21. /\ OnLine(b, o, held)' /\ Remembered(b, o)' /\ Timed(b, held)'
       /\ Apart(b, o, Kept, anchor_virtual)' /\ Kept' = sent \cup PacketsOf(entries)
       /\ Gapped(b, o, Kept)'
       /\ IsFiniteSet(held') /\ held' \subseteq entries
       /\ Cardinality(sent') + Cardinality(held') = Cardinality(sent) + Cardinality(entries)
       /\ InOrder
  BY <1>1, <1>7, <1>8, <1>10, <1>12, <1>13, <1>14, <1>18, <1>20, <1>17, DrainHolds
<1>22. aired' = aired \cup {i} /\ Kept' = Kept \cup {i} /\ unreleased' = unreleased
       /\ late_dropped' = late_dropped /\ overflow_dropped' = overflow_dropped
  BY <1>1, <1>3, <1>15, <1>21 DEF lateVars
<1>23. Cardinality(aired') = Cardinality(sent') + Cardinality(held') + unreleased'
  <2>1. Cardinality(aired') = Cardinality(aired) + 1
    BY <1>8, <1>9, <1>22, FS_AddElement
  <2>2. PICK n \in Nat, m \in Nat, k \in Nat, u \in Nat :
           /\ n = Cardinality(aired) /\ m = Cardinality(sent) /\ k = Cardinality(held)
           /\ u = unreleased
    BY <1>8
  <2>3. Cardinality(sent') + Cardinality(held') = m + (k + 1) /\ n = m + k + u
    BY <1>8, <1>18, <1>21, <2>2
  <2> QED BY <1>22, <2>1, <2>2, <2>3
<1>24. Holding(b, o)'
  <2>1. Kept' \subseteq aired'
    BY <1>8, <1>22
  <2>2. lag' <= Hold /\ overflow_dropped' = 0 => aired' \subseteq Kept'
    BY <1>1, <1>22 DEF Arriving, Holding
  <2> QED BY <1>21, <1>23, <2>1, <2>2 DEF Holding
<1>25. \A e \in held' : e \in held \/ e.release_at = clock + Hold
  BY <1>6, <1>7, <1>21
<1>26. i \notin sent
  BY <1>8, <1>9 DEF Kept
<1> QED BY <1>21, <1>22, <1>24, <1>25, <1>26 DEF Held

\* The branches of ingest that hold nothing new.
LEMMA OtherPacketHeld ==
    ASSUME NEW b, NEW o, NEW l, NEW i, Arriving(b, o, l, i), Settled(b, o, i),
           NEW seq \in Seqs, seq = SeqAt(i),
           \/ IngestHeldCopy(seq, l, clock) \/ IngestRefused(seq, l, clock)
           \/ IngestTooLate(seq, l, clock) \/ IngestOverflow(seq, l, clock)
    PROVE  Held(b, o, i)
<1>1. /\ b \in Int /\ o \in Int /\ i \in Nat /\ i > b /\ clock \in Nat
      /\ lag \in Nat /\ anchor_virtual \in Int /\ HoldInv /\ aired \subseteq 0 .. clock
      /\ Ingest(SeqAt(i), l, i, clock)
      /\ aired' = IF out' = None THEN aired ELSE aired \cup {i}
      /\ clock' = clock /\ lag' = lag /\ Sends /\ FeedTypes /\ Holding(b, o)
  BY ArrivingFacts DEF Arriving
<1>2. anchor_virtual' \in Int /\ anchor_virtual <= anchor_virtual'
  BY <1>1, AnchorForward
<1>3. Drain(held, clock)
  BY DEF IngestHeldCopy, IngestRefused, IngestTooLate, IngestOverflow
<1>4. /\ OnLine(b, o, held)' /\ Remembered(b, o)' /\ Timed(b, held)'
      /\ Apart(b, o, Kept, anchor_virtual)' /\ Kept' = Kept /\ Gapped(b, o, Kept)'
      /\ IsFiniteSet(held') /\ held' \subseteq held
      /\ Cardinality(sent') + Cardinality(held') = Cardinality(sent) + Cardinality(held)
      /\ InOrder
  BY <1>1, <1>2, <1>3, HeldDrains
<1>5. /\ Kept \subseteq aired /\ IsFiniteSet(aired) /\ unreleased \in Nat
      /\ Cardinality(sent) \in Nat /\ Cardinality(held) \in Nat /\ Cardinality(aired) \in Nat
      /\ Cardinality(aired) = Cardinality(sent) + Cardinality(held) + unreleased
      /\ sent \subseteq aired /\ Remembered(b, o)
      /\ OnLine(b, o, held) /\ Apart(b, o, Kept, anchor_virtual)
  BY <1>1, HoldingFacts
<1>6. /\ late_dropped \in Nat /\ overflow_dropped \in Nat
      /\ lag <= Hold /\ overflow_dropped = 0 => aired \subseteq Kept
  BY <1>1 DEF FeedTypes, Holding
<1>7. PICK n \in Nat, m \in Nat, k \in Nat, u \in Nat :
         /\ n = Cardinality(aired) /\ m = Cardinality(sent) /\ k = Cardinality(held)
         /\ u = unreleased
  BY <1>5
<1>8. Cardinality(sent') + Cardinality(held') = m + k /\ n = m + k + u
  BY <1>4, <1>5, <1>7
<1>9. CASE out' = None
  <2>1. aired' = aired
    BY <1>1, <1>9
  <2>2. unreleased' = unreleased /\ overflow_dropped' = overflow_dropped
    BY <1>9 DEF IngestHeldCopy, IngestRefused, IngestTooLate, IngestOverflow, Admitted, lateVars
  <2>3. Cardinality(aired') = Cardinality(sent') + Cardinality(held') + unreleased'
    BY <1>7, <1>8, <2>1, <2>2
  <2>4. Holding(b, o)'
    BY <1>1, <1>4, <1>5, <1>6, <2>1, <2>2, <2>3 DEF Holding
  <2>5. ASSUME lag <= Hold, lag < Window, overflow_dropped' = 0 PROVE i \in Kept'
    <3>1. CASE Project(SeqAt(i)) \notin Virts(held)
      BY <1>4, <1>6, <1>9, <2>2, <2>5, <3>1 DEF Settled
    <3>2. CASE Project(SeqAt(i)) \in Virts(held)
      <4>1. PICK e \in held : e.virt = i + o
        BY <3>2 DEF Virts, Settled
      <4>2. PICK p \in Nat : p = e.payload /\ i + o = Place(b, o, p)
        BY <1>5, <4>1 DEF OnLine
      <4>3. p \in Kept
        BY <4>2 DEF Kept, HeldPackets
      <4>4. ~ (p <= b)
        <5> SUFFICES ASSUME p <= b PROVE FALSE
          OBVIOUS
        <5>1. i + o = p /\ p + Window <= anchor_virtual
          BY <1>5, <4>2, <4>3 DEF Place, Apart
        <5>2. anchor_virtual < i + o + Window
          BY <2>5 DEF Settled
        <5> QED BY <1>1, <5>1, <5>2, WindowAssumption
      <4>5. p = i
        BY <1>1, <4>2, <4>4 DEF Place
      <4> QED BY <1>4, <4>3, <4>5
    <3> QED BY <3>1, <3>2
  <2>6. ASSUME late_dropped' > late_dropped, \A p \in sent : p - i < Remember PROVE i \notin sent
    <3>1. CASE IngestRefused(seq, l, clock)
      <4>1. ~ KnownReleased(i + o)
        <5>1. Project(seq) = i + o /\ LateCopy(Project(seq))
          BY <3>1 DEF Settled, IngestRefused
        <5>2. KnownReleased(Project(seq)) => late_dropped' = late_dropped
          BY <5>1 DEF LateCopy
        <5> QED BY <1>6, <2>6, <5>1, <5>2
      <4>2. i \in sent => released[(i + o) % Remember] = i + o
        BY <1>1, <1>5, <2>6 DEF Remembered
      <4> QED BY <4>1, <4>2 DEF KnownReleased
    <3>2. CASE ~ IngestRefused(seq, l, clock)
      <4>1. late_dropped' = late_dropped
        BY <1>9, <3>2 DEF IngestHeldCopy, IngestTooLate, IngestOverflow, Admitted, lateVars
      <4> QED BY <1>6, <2>6, <4>1
    <3> QED BY <3>1, <3>2
  <2> QED BY <1>4, <2>4, <2>5, <2>6 DEF Held
<1>10. CASE out' # None
  <2>1. /\ KeyOf(seq) = i + o /\ i \notin aired /\ i \notin sent /\ ~ KnownReleased(i + o)
        /\ lag <= Hold => ~ Passed(i + o)
    BY <1>10, AdmittedIsNew
  <2>2. aired' = aired \cup {i}
    BY <1>1, <1>10
  <2>3. /\ unreleased' = unreleased + 1
        /\ ~ (lag <= Hold /\ overflow_dropped' = 0)
    <3>1. CASE IngestTooLate(seq, l, clock)
      BY <2>1, <3>1 DEF IngestTooLate, CountedTooLate, TooLateToHold
    <3>2. CASE IngestOverflow(seq, l, clock)
      BY <1>6, <3>2 DEF IngestOverflow
    <3> QED BY <1>10, <3>1, <3>2 DEF IngestHeldCopy, IngestRefused, Observe
  <2>4. Cardinality(aired') = Cardinality(aired) + 1
    BY <1>5, <2>1, <2>2, FS_AddElement
  <2>5. Cardinality(aired') = Cardinality(sent') + Cardinality(held') + unreleased'
    <3>1. PICK w \in Nat : w = Cardinality(sent') + Cardinality(held') /\ w = m + k
      BY <1>8
    <3>2. Cardinality(aired') = n + 1 /\ unreleased' = u + 1 /\ n = w + u
      BY <1>7, <1>8, <2>3, <2>4, <3>1
    <3>3. Cardinality(aired') = w + unreleased'
      BY <3>2
    <3> QED BY <3>1, <3>3
  <2>6. Holding(b, o)'
    BY <1>1, <1>4, <1>5, <2>2, <2>3, <2>5 DEF Holding
  <2> QED BY <1>4, <2>1, <2>3, <2>6 DEF Held
<1> QED BY <1>9, <1>10

LEMMA PacketHeld ==
    ASSUME NEW b, NEW o, NEW l, NEW i, Arriving(b, o, l, i), Settled(b, o, i)
    PROVE  Held(b, o, i)
<1>1. PICK seq \in Seqs : seq = SeqAt(i)
  BY ArrivingFacts, SeqAtType
<1>2. Ingest(seq, l, i, clock)
  BY <1>1, ArrivingFacts
<1>3. CASE IngestNew(seq, l, i, clock)
  BY <1>1, <1>3, NewPacketHeld
<1>4. CASE ~ IngestNew(seq, l, i, clock)
  BY <1>1, <1>2, <1>4, OtherPacketHeld DEF Ingest
<1> QED BY <1>3, <1>4

----------------------------------------------------------------------------
(* The actions of the pair. *)

\* Before its first packet the line of a stream may begin anywhere.
LEMMA FreshLine ==
    ASSUME FeedTypes, NEW b \in Int, NEW o \in Int, NEW w \in Int, Merging(b, o),
           Holding(b, o), ~ initialized, cut = None => w = 0
    PROVE  Merging(b, w) /\ Holding(b, w)
<1>1. Merging(b, w)
  BY DEF Merging
<1>2. \A p \in Kept : p \in Int
  <2>1. aired \subseteq 0 .. clock
    BY DEF Merging
  <2>2. aired \subseteq Nat /\ Kept \subseteq aired
    BY <2>1, HoldingFacts
  <2> QED BY <2>2
<1>3. \A p \in Kept : p <= b /\ Place(b, o, p) = p /\ Place(b, w, p) = p
  BY DEF Merging, Holding, Place
<1>4. /\ \A p \in sent : p \in Kept
      /\ \A e \in held : e.payload \in Kept
  BY DEF Kept, HeldPackets
<1>5. OnLine(b, w, held)
  BY <1>3, <1>4 DEF Holding, OnLine
<1>6. Remembered(b, w)
  <2>1. \A p \in sent : ~ (p > b)
    <3>1. \A p \in Kept : ~ (p > b)
      BY <1>2, <1>3
    <3> QED BY <1>4, <3>1
  <2> QED BY <1>3, <1>4, <2>1 DEF Holding, Remembered
<1>7. Apart(b, w, Kept, anchor_virtual)
  <2>1. \A p \in Kept : ~ (p > b)
    BY <1>2, <1>3
  <2> QED BY <2>1 DEF Holding, Apart
<1>8. Gapped(b, w, Kept)
  <2>1. \A p \in sent : Place(b, o, p) = p /\ Place(b, w, p) = p
    BY <1>3, <1>4
  <2>2. LineGaps(b, w, sent) = LineGaps(b, o, sent)
    BY <2>1 DEF LineGaps
  <2> QED BY <2>2 DEF Holding, Gapped
<1> QED BY <1>1, <1>5, <1>6, <1>7, <1>8 DEF Holding

LEMMA DeliverKeeps ==
    ASSUME MaxMissed + 1 < Half, FeedTypes, move = NotMoved, lag <= Half,
           NEW b \in Int, NEW o \in Int, Merging(b, o), Holding(b, o),
           NEW l \in Legs, FeedDeliver(l)
    PROVE  /\ \E w \in Int : Merging(b, w)' /\ Holding(b, w)'
           /\ lag <= Hold /\ lag < Window /\ overflow_dropped' = 0 => here' \in Kept'
           /\ BoundedLatency => BoundedLatency'
           /\ InOrder
           /\ late_dropped' > late_dropped /\ (\A p \in sent : p - here' < Remember)
                => here' \notin sent
<1>1. PICK i \in Nat : i = clock - Delay(l)
  BY Delivered DEF FeedDeliver, FeedTypes
<1>2. i <= clock /\ clock \in Nat /\ anchor_virtual \in Int
  BY <1>1, Delivered DEF FeedDeliver, FeedTypes, PairTypes, TypeOK, HoldInv, BufferTypeOK
<1>3. PICK w \in Int : Arriving(b, w, l, i)
  <2>1. CASE initialized
    BY <1>1, <2>1 DEF Arriving
  <2>2. CASE ~ initialized
    <3>1. PICK w \in Int : w = anchor_virtual - i
      BY <1>2
    <3>2. cut = None => w = 0
      BY <1>2, <2>2, <3>1 DEF Merging
    <3>3. Merging(b, w) /\ Holding(b, w)
      BY <2>2, <3>2, FreshLine
    <3>4. anchor_virtual = i + w
      BY <1>2, <3>1
    <3> QED BY <1>1, <3>3, <3>4 DEF Arriving
  <2> QED BY <2>1, <2>2
<1>4. Settled(b, w, i)
  BY <1>3, FirstSettles, StreamSettles
<1>5. Held(b, w, i)
  BY <1>3, <1>4, PacketHeld
<1>6. here' = i /\ clock' = clock /\ lag' = lag /\ lag \in Nat
  BY <1>3, ArrivingFacts
<1>7. ASSUME BoundedLatency PROVE BoundedLatency'
  <2>1. \A e \in held' : e \in held \/ e.release_at = clock + Hold
    BY <1>5 DEF Held
  <2> QED BY <1>2, <1>6, <1>7, <2>1, HoldAssumption DEF BoundedLatency
<1> QED BY <1>4, <1>5, <1>6, <1>7 DEF Settled, Held

\* A step that leaves the hitless merger and the network alone, and the anchor.
LEMMA MergingIdle ==
    ASSUME NEW b, NEW o, Merging(b, o), DedupIdle,
           UNCHANGED <<clock, lag, netVars, here, aired, cut, anchorVars>>
    PROVE  Merging(b, o)'
<1>1. /\ UNCHANGED <<highest_seq, highest_slot, emitted, last_accept, last_break, initialized>>
      /\ UNCHANGED <<clock, lag, due, missed, aired, cut, anchor_set, anchor_real, anchor_virtual>>
  BY DEF DedupIdle, mergerVars, windowVars, legVars, netVars, anchorVars
<1>2. ASSUME NEW t, Tracks(b, o, t) PROVE Tracks(b, o, t)'
  BY <1>1, <1>2 DEF Tracks, Agrees, SlotBehind, Wrap
<1>3. Reach' = Reach /\ \A l : Delay(l)' = Delay(l)
  BY <1>1 DEF Reach, Delay
<1> QED BY <1>1, <1>2, <1>3 DEF Merging

\* The sleep ends, or what is held goes out before raw TS.
LEMMA ReleaseKeeps ==
    ASSUME FeedTypes, NEW b \in Int, NEW o \in Int, Merging(b, o), Holding(b, o),
           Wake \/ FlushForRaw
    PROVE  /\ Merging(b, o)' /\ Holding(b, o)' /\ Kept' = Kept /\ held' \subseteq held
           /\ InOrder
<1>1. /\ DedupIdle /\ Sends /\ UNCHANGED <<anchorVars, lateVars>>
      /\ UNCHANGED <<clock, lag, netVars, here, aired, cut>>
  BY DEF Wake, FlushForRaw, DrainExpired, ReleaseAll
<1>2. Merging(b, o)'
  BY <1>1, MergingIdle
<1>3. aired \subseteq 0 .. clock
  BY DEF Merging
<1>4. /\ cursor \in Int \cup {None} /\ clock \in Nat /\ anchor_virtual \in Int
      /\ sent \subseteq Nat /\ IsFiniteSet(sent) /\ IsFiniteSet(held)
      /\ OnLine(b, o, held) /\ Remembered(b, o) /\ Timed(b, held)
      /\ Kept = sent \cup PacketsOf(held) /\ Kept \subseteq aired
      /\ Apart(b, o, sent \cup PacketsOf(held), anchor_virtual)
      /\ Gapped(b, o, sent \cup PacketsOf(held))
      /\ Cardinality(aired) = Cardinality(sent) + Cardinality(held) + unreleased
  BY <1>3, HoldingFacts
<1>5. /\ clock' = clock /\ lag' = lag /\ anchor_virtual' = anchor_virtual
      /\ aired' = aired /\ unreleased' = unreleased /\ overflow_dropped' = overflow_dropped
  BY <1>1 DEF anchorVars, lateVars
<1>6. PICK a \in Int : a = anchor_virtual
  BY <1>4
<1>7. Placed(held, a) /\ Apart(b, o, sent \cup PacketsOf(held), a)
      /\ anchor_virtual' \in Int /\ a <= anchor_virtual'
  BY <1>4, <1>5, <1>6, HeldPlaced DEF FeedTypes
<1>8. PICK entries : entries = held
  OBVIOUS
<1>9. PICK going : /\ FirstOf(going, entries) /\ Release(entries, going)
                   /\ \A e \in going : e.payload <= b \/ e.payload + Hold <= clock
  <2>1. CASE Wake
    <3>1. Release(held, Ready(held, clock))
      BY <2>1 DEF Wake, DrainExpired, Drain
    <3>2. ASSUME NEW e \in Ready(held, clock) PROVE e.payload + Hold <= clock
      <4>1. e \in held /\ e.virt \in Int /\ e.payload \in Nat /\ e.release_at \in Int
        BY <1>4, <1>7 DEF OnLine, Placed, Timed, Ready
      <4>2. e.release_at <= clock /\ e.payload + Hold <= e.release_at
        BY <1>4, <4>1 DEF Ready, Timed
      <4> QED BY <1>4, <4>1, <4>2, HoldAssumption
    <3>3. FirstOf(Ready(held, clock), held)
      BY <1>7, ReadyIsFirst DEF Placed
    <3> QED BY <1>8, <3>1, <3>2, <3>3
  <2>2. CASE FlushForRaw
    <3>1. Release(held, held) /\ ~ initialized
      BY <2>2 DEF FlushForRaw, ReleaseAll
    <3>2. \A e \in held : e.payload <= b
      <4>1. \A e \in held : e.payload \in Kept
        BY DEF Kept, HeldPackets
      <4> QED BY <1>4, <3>1, <4>1 DEF Merging
    <3>3. FirstOf(held, held)
      BY DEF FirstOf
    <3> QED BY <1>8, <3>1, <3>2, <3>3
  <2> QED BY <2>1, <2>2
<1>10. /\ IsFiniteSet(entries) /\ OnLine(b, o, entries) /\ Placed(entries, a)
       /\ Apart(b, o, sent \cup PacketsOf(entries), a) /\ Timed(b, entries)
       /\ Gapped(b, o, sent \cup PacketsOf(entries))
  BY <1>4, <1>7, <1>8
<1>11. /\ OnLine(b, o, held)' /\ Remembered(b, o)' /\ Timed(b, held)'
       /\ Apart(b, o, Kept, anchor_virtual)' /\ Kept' = sent \cup PacketsOf(entries)
       /\ Gapped(b, o, Kept)'
       /\ IsFiniteSet(held')
       /\ Cardinality(sent') + Cardinality(held') = Cardinality(sent) + Cardinality(entries)
       /\ batch' = going
       /\ \A e \in going, p \in sent : p < e.payload
       /\ \A d, e \in going : d.virt < e.virt <=> d.payload < e.payload
  BY <1>1, <1>4, <1>5, <1>7, <1>9, <1>10, ReleaseHolds
<1>12. InOrder
  BY <1>11 DEF InOrder
<1>13. Kept' = Kept /\ held' \subseteq held
  BY <1>4, <1>8, <1>9, <1>11 DEF Release
<1>14. Cardinality(aired') = Cardinality(sent') + Cardinality(held') + unreleased'
  BY <1>4, <1>5, <1>8, <1>11
<1>15. Holding(b, o)'
  BY <1>4, <1>5, <1>11, <1>13, <1>14 DEF Holding
<1> QED BY <1>2, <1>12, <1>13, <1>15

\* A tick: the earliest packet held has not waited out its hold, and nothing held was
\* put off for more than the legs' lag behind it.
LEMMA HeldNotLate ==
    ASSUME FeedTypes, NEW b \in Int, NEW o \in Int, Merging(b, o), Holding(b, o), ~ WakeDue
    PROVE  \A e \in held : clock + 1 <= e.release_at + lag
<1>1. aired \subseteq 0 .. clock
  BY DEF Merging
<1>2. /\ cursor \in Int \cup {None} /\ clock \in Nat /\ lag \in Nat /\ anchor_virtual \in Int
      /\ sent \subseteq Nat /\ OnLine(b, o, held) /\ Timed(b, held)
      /\ Kept = sent \cup PacketsOf(held)
      /\ Apart(b, o, sent \cup PacketsOf(held), anchor_virtual)
  BY <1>1, HoldingFacts
<1>3. PICK a \in Int : a = anchor_virtual /\ Placed(held, a)
  <2>1. PICK a \in Int : a = anchor_virtual /\ anchor_virtual <= a
    BY <1>2
  <2> QED BY <2>1, HeldPlaced DEF FeedTypes
<1>4. /\ \A d, e \in held : d.payload = e.payload => d = e
      /\ \A d, e \in held : d.virt < e.virt <=> d.payload < e.payload
  BY <1>2, <1>3, LineOrder
<1>5. \A e \in held : /\ e.payload \in Nat /\ e.virt \in Int /\ e.release_at \in Int
                      /\ e.payload + Hold <= e.release_at
                      /\ e.release_at <= e.payload + lag + Hold
  BY <1>2, <1>3 DEF OnLine, Placed, Timed
<1>6. SUFFICES ASSUME NEW e \in held PROVE clock + 1 <= e.release_at + lag
  OBVIOUS
<1>7. PacketsOf(held) \subseteq Nat /\ PacketsOf(held) # {}
  BY <1>5 DEF PacketsOf
<1>8. PICK x \in PacketsOf(held) : \A y \in PacketsOf(held) : x <= y
  BY <1>7, LeastNatural
<1>9. PICK first \in held : first.payload = x
  BY <1>8 DEF PacketsOf
<1>10. \A d \in held : first.payload <= d.payload
  BY <1>8, <1>9 DEF PacketsOf
<1>11. PICK d \in held : d.virt <= first.virt /\ ~ (d.release_at <= clock)
  BY DEF WakeDue, Ready
<1>12. ~ (first.virt < d.virt)
  BY <1>5, <1>11
<1>13. ~ (first.payload < d.payload)
  BY <1>4, <1>12
<1>14. first.payload = d.payload
  BY <1>5, <1>10, <1>13
<1>15. clock + 1 <= first.release_at
  <2>1. d = first
    BY <1>4, <1>14
  <2> QED BY <1>2, <1>5, <1>11, <2>1
<1> QED BY <1>2, <1>5, <1>10, <1>15, HoldAssumption

LEMMA TickHolds ==
    ASSUME FeedTypes, NEW o \in Int, Merging(Base, o), Holding(Base, o),
           NEW losing \in SUBSET Legs, FeedTick(losing)
    PROVE  Merging(Base, o)' /\ Holding(Base, o)' /\ BoundedLatency'
<1>1. /\ due = {} /\ clock' = clock + 1 /\ due' = DueAt(clock + 1) \ losing
      /\ missed' = [l \in Legs |-> IF l \in losing THEN missed[l] + 1 ELSE 0]
      /\ HoldIdle /\ PairTypes /\ ~ WakeDue /\ Tick(losing)
      /\ \A l \in DueAt(clock + 1) : BeforeCut(clock + 1 - Delay(l)) => l \in losing
  BY DEF FeedTick, Tick, FeedTypes
<1>2. /\ UNCHANGED <<highest_seq, highest_slot, emitted, last_accept, last_break, initialized>>
      /\ UNCHANGED <<gap_lost, stretches>>
      /\ UNCHANGED <<lag, aired, cut, anchor_set, anchor_real, anchor_virtual, sent, held, cursor,
                     released, unreleased, overflow_dropped>>
  BY <1>1 DEF FeedTick, Tick, HoldIdle, mergerVars, windowVars, legVars, anchorVars, lateVars
<1>3. PICK b \in Int : b = Base
  BY DEF Merging
<1>4. Base' = b /\ Kept' = Kept
  BY <1>2, <1>3 DEF Base, Kept, HeldPackets
<1>5. /\ clock \in Nat /\ lag \in Nat /\ missed[Lead] \in 0 .. MaxMissed /\ MaxMissed \in Nat
      /\ \A l \in Legs : Delay(l) \in Nat
  BY <1>1, PairAssumption DEF PairTypes, TypeOK, Delay
<1>6. Merging(b, o) /\ Holding(b, o)
  BY <1>3
<1>7. Reach = missed[Lead] /\ missed[Lead] + 1 <= Reach'
  <2>1. Lead \in DueAt(clock + 1) /\ Lead \in Legs
    BY <1>5, PairAssumption DEF DueAt, Delay
  <2>2. CASE Lead \in losing
    BY <1>1, <1>5, <2>1, <2>2 DEF Reach
  <2>3. CASE Lead \notin losing
    BY <1>1, <1>5, <2>1, <2>3 DEF Reach
  <2> QED BY <2>2, <2>3
<1>8. PICK r \in Int : r = Reach' /\ missed[Lead] + 1 <= r
  <2>1. Reach' \in Int
    <3>1. MaxMissed + 1 \in Int /\ missed'[Lead] \in Int
      BY <1>1, <1>5, PairAssumption
    <3> QED BY <3>1 DEF Reach
  <2> QED BY <1>7, <2>1
<1>9. ASSUME NEW t, t \in aired, Tracks(b, o, t) PROVE Tracks(b, o, t)'
  <2>1. Agrees({p \in aired : p > b}, t)'
    BY <1>2, <1>9 DEF Tracks, Agrees, SlotBehind, Wrap
  <2>2. last_accept \in Nat
    BY <1>1 DEF PairTypes, TypeOK
  <2>3. last_accept' <= clock'
    BY <1>1, <1>2, <1>5, <1>9, <2>2 DEF Tracks
  <2> QED BY <1>2, <1>9, <2>1, <2>3 DEF Tracks
<1>10. ASSUME NEW l \in due' PROVE clock' - Delay(l)' > b
  <2>1. l \in Legs /\ l \in DueAt(clock + 1) /\ l \notin losing /\ Delay(l) <= clock + 1
    BY <1>1 DEF DueAt
  <2>2. ~ BeforeCut(clock + 1 - Delay(l))
    BY <1>1, <2>1
  <2>3. PICK i \in Nat : i = clock + 1 - Delay(l)
    BY <1>5, <2>1
  <2>4. i > b
    BY <1>3, <2>2, <2>3 DEF Base, BeforeCut
  <2>5. clock' = clock + 1 /\ lag' = lag
    BY <1>1, <1>2
  <2>6. clock' - Delay(l)' = i
    BY <1>5, <2>3, <2>5 DEF Delay
  <2> QED BY <2>4, <2>6
<1>11. ASSUME ~ initialized' PROVE /\ ~ anchor_set' /\ clock' - b <= Reach' /\ cut' # None
                                  /\ \A p \in aired' : p <= b
  <2>1. ~ initialized /\ Lead \notin due
    BY <1>1, <1>2, <1>11
  <2>2. ~ anchor_set /\ clock - b <= missed[Lead] /\ cut # None /\ \A p \in aired : p <= b
    BY <1>6, <1>7, <2>1 DEF Merging
  <2>3. clock' - b <= r
    BY <1>1, <1>5, <1>8, <2>2
  <2> QED BY <1>2, <1>8, <2>2, <2>3
<1>12. ASSUME initialized' PROVE \E t \in aired' : t > b /\ Tracks(b, o, t)' /\ clock' - t <= Reach'
  <2>1. PICK t \in aired : t > b /\ Tracks(b, o, t) /\ clock - t <= Reach
    BY <1>2, <1>6, <1>12 DEF Merging
  <2>2. t \in Int
    <3>1. aired \subseteq 0 .. clock
      BY <1>6 DEF Merging
    <3> QED BY <2>1, <3>1
  <2>3. clock' - t <= r
    BY <1>1, <1>5, <1>7, <1>8, <2>1, <2>2
  <2> QED BY <1>2, <1>8, <1>9, <2>1, <2>3
<1>13. aired' \subseteq 0 .. clock' /\ b <= clock'
  BY <1>1, <1>2, <1>5, <1>6 DEF Merging
<1>14. Merging(b, o)'
  BY <1>2, <1>4, <1>6, <1>10, <1>11, <1>12, <1>13 DEF Merging
<1>15. Timed(b, held)'
  <2>1. aired \subseteq 0 .. clock
    BY <1>6 DEF Merging
  <2>2. sent \subseteq Nat /\ Timed(b, held)
    BY <1>6, <2>1, HoldingFacts
  <2>3. \A p \in sent : p <= b \/ p + Hold <= clock'
    BY <1>1, <1>5, <2>2, HoldAssumption DEF Timed
  <2> QED BY <1>2, <2>2, <2>3 DEF Timed
<1>16. OnLine(b, o, held)' /\ Remembered(b, o)' /\ Apart(b, o, Kept, anchor_virtual)'
  <2>1. OnLine(b, o, held)'
    BY <1>2, <1>6 DEF Holding, OnLine, Place
  <2>2. Remembered(b, o)'
    BY <1>2, <1>6 DEF Holding, Remembered, Place
  <2>3. Apart(b, o, Kept, anchor_virtual)'
    BY <1>2, <1>4, <1>6 DEF Holding, Apart
  <2> QED BY <2>1, <2>2, <2>3
<1>17. Gapped(b, o, Kept)'
  BY <1>2, <1>4, <1>6 DEF Holding, Gapped, Stretched, LineGaps, Place
<1>18. Holding(b, o)'
  BY <1>2, <1>4, <1>6, <1>15, <1>16, <1>17 DEF Holding
<1>19. BoundedLatency'
  BY <1>1, <1>2, <1>6, HeldNotLate DEF BoundedLatency
<1> QED BY <1>4, <1>14, <1>18, <1>19

\* Both legs are lost: what was sent or is held stays where it is, a window behind
\* where the first packet to come will stand.
LEMMA LoseHolds ==
    ASSUME FeedTypes, NEW o \in Int, Merging(Base, o), Holding(Base, o), LoseBoth
    PROVE  Merging(Base, 0)' /\ Holding(Base, 0)'
<1>1. /\ due = {} /\ cut = None /\ RestartHold /\ Restart /\ cut' = clock
      /\ UNCHANGED <<clock, lag, netVars, here, aired, sent>>
      /\ UNCHANGED <<held, cursor, released, gap_lost, lateVars>> /\ ~ anchor_set'
      /\ PairTypes /\ HoldInv
  BY DEF LoseBoth, RestartHold, FeedTypes
<1>2. /\ UNCHANGED <<clock, lag, due, missed, aired, sent, held, cursor, released,
                     unreleased, overflow_dropped, gap_lost>>
      /\ ~ initialized' /\ last_break'.leg # Lead
  <2>1. None # Lead
    BY LegsAssumption, PairAssumption
  <2> QED BY <1>1, <2>1 DEF netVars, lateVars, Restart, NoBreak
<1>3. Base = -1 /\ o = 0
  BY <1>1 DEF Base, Merging
<1>4. Merging(-1, 0) /\ Holding(-1, 0)
  BY <1>3
<1>5. PICK b \in Nat : b = clock /\ b = Base'
  BY <1>1, <1>2, LegsAssumption DEF Base, PairTypes, TypeOK
<1>6. /\ aired \subseteq 0 .. clock /\ aired \subseteq Nat /\ sent \subseteq Nat
      /\ Kept = sent \cup PacketsOf(held) /\ Kept \subseteq aired
      /\ OnLine(-1, 0, held) /\ Remembered(-1, 0) /\ Timed(-1, held)
      /\ cursor \in Int \cup {None} /\ IsFiniteSet(held)
  <2>1. aired \subseteq 0 .. clock
    BY <1>4 DEF Merging
  <2> QED BY <1>4, <2>1, HoldingFacts
<1>7. \A p \in Nat : Place(-1, 0, p) = p /\ Place(b, 0, p) = p
  BY DEF Place
<1>8. /\ \A p \in Kept : p \in Nat /\ p <= b /\ ~ (p > b)
      /\ \A p \in sent : p \in Nat /\ p \in Kept
      /\ \A e \in held : e.payload \in Nat /\ e.payload \in Kept
  <2>1. \A p \in aired : p \in Nat /\ p <= b /\ ~ (p > b)
    BY <1>5, <1>6
  <2>2. \A e \in held : e.payload \in Nat /\ e.payload \in Kept
    BY <1>6 DEF OnLine, PacketsOf
  <2> QED BY <1>6, <2>1, <2>2
<1>9. Kept' = Kept
  BY <1>2 DEF Kept, HeldPackets
<1>10. Merging(b, 0)'
  <2>1. Reach' \in Nat
    <3>1. missed[Lead] \in 0 .. MaxMissed /\ missed'[Lead] \in Nat /\ MaxMissed + 1 \in Nat
      BY <1>1, <1>2, PairAssumption DEF PairTypes
    <3> QED BY <3>1 DEF Reach
  <2>2. clock' - b <= Reach'
    <3>1. PICK r \in Nat : r = Reach'
      BY <2>1
    <3>2. clock' = b
      BY <1>2, <1>5
    <3>3. clock' - b = 0
      BY <3>2
    <3> QED BY <3>1, <3>3
  <2>3. \A p \in aired' : p <= b
    BY <1>2, <1>5, <1>6
  <2>4. cut' # None
    BY <1>1, <1>5, LegsAssumption
  <2>5. due' = {} /\ aired' \subseteq 0 .. clock' /\ Kept' \subseteq aired' /\ b <= clock'
    BY <1>1, <1>2, <1>5, <1>6, <1>9
  <2> QED BY <1>1, <1>2, <2>2, <2>3, <2>4, <2>5 DEF Merging
<1>11. OnLine(b, 0, held)'
  <2>1. \A e \in held : e.payload \in Nat /\ e.virt = Place(b, 0, e.payload)
    BY <1>6, <1>7 DEF OnLine
  <2>2. \A p \in sent : cursor # None /\ Place(b, 0, p) <= cursor
    BY <1>6, <1>7, <1>8 DEF OnLine
  <2>3. cursor # None => \E p \in sent : cursor = Place(b, 0, p)
    BY <1>6, <1>7, <1>8 DEF OnLine
  <2> QED BY <1>2, <2>1, <2>2, <2>3 DEF OnLine, Place
<1>12. Remembered(b, 0)'
  <2>1. \A slot \in 0 .. Remember - 1 :
           released[slot] # None => \E p \in sent : released[slot] = Place(b, 0, p)
    BY <1>6, <1>7, <1>8 DEF Remembered
  <2>2. \A p \in sent : ~ (p > b)
    BY <1>8
  <2> QED BY <1>2, <1>6, <2>1, <2>2 DEF Remembered, Place
<1>13. Timed(b, held)'
  BY <1>2, <1>6, <1>8 DEF Timed
<1>14. ASSUME NEW p \in Kept
       PROVE  \E v \in Virts(held) \cup ({cursor} \ {None}) : p <= v
  <2>1. CASE p \in sent
    <3>1. cursor # None /\ p <= cursor
      BY <1>6, <1>7, <1>8, <2>1 DEF OnLine
    <3> QED BY <3>1
  <2>2. CASE p \notin sent
    <3>1. PICK e \in held : p = e.payload
      BY <1>6, <2>2 DEF PacketsOf
    <3>2. e.virt = p /\ e.virt \in Virts(held)
      BY <1>6, <1>7, <1>8, <3>1 DEF OnLine, Virts
    <3> QED BY <1>8, <3>2
  <2> QED BY <2>1, <2>2
<1>15. ASSUME NEW p \in Kept PROVE p + Window <= anchor_virtual'
  <2> DEFINE reached == Virts(held) \cup ({cursor} \ {None})
  <2>1. PICK a \in Int : a = anchor_virtual
    BY <1>1 DEF HoldInv, BufferTypeOK
  <2>2. reached \subseteq Int /\ \A v \in reached : v <= a
    BY <1>1, <2>1 DEF Virts, HoldInv, HeldInPlace, BufferTypeOK
  <2>3. PICK v \in reached : p <= v
    BY <1>14
  <2>4. Max(reached) \in reached /\ v <= Max(reached)
    BY <2>2, <2>3, BoundedMax
  <2>5. PICK m \in Int : m = Max(reached)
    BY <2>2, <2>4
  <2>6. anchor_virtual' = m + Window
    BY <1>1, <2>3, <2>5 DEF RestartHold, StretchAnchor
  <2>7. v \in Int /\ v <= m /\ p <= v /\ p \in Nat
    BY <1>8, <2>2, <2>3, <2>4, <2>5
  <2> QED BY <2>6, <2>7, WindowAssumption
<1>16. Apart(b, 0, Kept, anchor_virtual)'
  <2>1. \A p \in Kept : p + Window <= anchor_virtual' /\ ~ (p > b)
    BY <1>8, <1>15
  <2> QED BY <1>9, <2>1 DEF Apart
<1>17. Stretched(b, Kept)'
  <2> DEFINE reached == Virts(held) \cup ({cursor} \ {None})
  <2>1. PICK a \in Int : a = anchor_virtual
    BY <1>1 DEF HoldInv, BufferTypeOK
  <2>2. reached \subseteq Int /\ \A v \in reached : v <= a
    BY <1>1, <2>1 DEF Virts, HoldInv, HeldInPlace, BufferTypeOK
  <2>3. \A p \in Kept : \E v \in reached : p <= v
    BY <1>14
  <2>4. \A v \in reached : v \in Kept
    <3>1. ASSUME NEW e \in held PROVE e.virt \in Kept
      BY <1>6, <1>7, <1>8 DEF OnLine
    <3>2. cursor # None => cursor \in Kept
      BY <1>6, <1>7, <1>8 DEF OnLine
    <3> QED BY <3>1, <3>2 DEF Virts
  <2>5. stretches = {}
    <3>1. Stretched(-1, Kept)
      BY <1>4 DEF Holding, Gapped
    <3> QED BY <1>8, <3>1 DEF Stretched
  <2>6. CASE reached = {}
    <3>1. stretches' = {} /\ Kept = {}
      BY <1>1, <2>3, <2>5, <2>6 DEF RestartHold
    <3> QED BY <1>9, <3>1 DEF Stretched
  <2>7. CASE reached # {}
    <3>1. Max(reached) \in reached /\ \A v \in reached : v <= Max(reached)
      BY <2>2, <2>7, BoundedMax
    <3>2. PICK m \in Int : m = Max(reached) /\ m \in reached /\ \A v \in reached : v <= m
      BY <2>2, <3>1
    <3>3. stretches' = {m + 1}
      BY <1>1, <2>5, <2>7, <3>2 DEF RestartHold
    <3>4. m \in Kept /\ m <= b
      BY <1>8, <2>4, <3>2
    <3>5. ASSUME NEW p \in Kept PROVE p < m + 1
      <4>1. PICK v \in reached : p <= v
        BY <2>3
      <4>2. v \in Int /\ v <= m /\ p \in Int
        BY <1>8, <2>2, <3>2
      <4> HIDE DEF reached
      <4> QED BY <4>1, <4>2
    <3>6. \A p \in sent' : p <= b
      BY <1>2, <1>8
    <3> HIDE DEF reached
    <3> QED BY <1>9, <3>3, <3>4, <3>5, <3>6 DEF Stretched
  <2> QED BY <2>6, <2>7
<1>18. LineGaps(b, 0, sent) = LineGaps(-1, 0, sent)
  <2>1. \A p \in sent : /\ Place(-1, 0, p) = p /\ Place(b, 0, p) = p
                        /\ p <= b /\ ~ (p <= -1)
    BY <1>7, <1>8
  <2> QED BY <2>1 DEF LineGaps
<1>19. Gapped(b, 0, Kept)'
  <2>1. LineGaps(b, 0, sent)' = LineGaps(b, 0, sent)
    BY <1>2 DEF LineGaps, Place
  <2>2. gap_lost' = Cardinality(LineGaps(-1, 0, sent))
    BY <1>2, <1>4 DEF Holding, Gapped
  <2> QED BY <1>17, <1>18, <2>1, <2>2 DEF Gapped
<1>20. Holding(b, 0)'
  BY <1>2, <1>4, <1>6, <1>9, <1>11, <1>12, <1>13, <1>16, <1>19 DEF Holding
<1> QED BY <1>5, <1>10, <1>20

----------------------------------------------------------------------------
(* The invariant of the pair. *)

LEMMA DeliverFeedTypes ==
    ASSUME FeedTypes, NEW l \in Legs, FeedDeliver(l)
    PROVE  FeedTypes'
<1>1. PairTypes /\ HoldInv /\ TypeOK /\ clock \in Nat /\ l \in due
  BY DEF FeedTypes, PairTypes, TypeOK, FeedDeliver
<1>2. PICK i \in Nat : i = clock - Delay(l) /\ SeqOf(i) \in Seqs
  BY <1>1, Delivered
<1>3. PICK seq \in Seqs : seq = SeqOf(i)
  BY <1>2
<1>4. Ingest(seq, l, i, clock)
  BY <1>2, <1>3 DEF FeedDeliver
<1>5. /\ UNCHANGED <<clock, missed, move, lag, cut>> /\ due' = due \ {l}
  BY DEF FeedDeliver
<1>6. HoldInv'
  BY <1>1, <1>4, IngestStep
<1>7. TypeOK' /\ stale_after' = stale_after
  <2>1. CASE IngestHeldCopy(seq, l, clock)
    BY <1>1, <1>5, <2>1 DEF IngestHeldCopy, Observe, TypeOK, windowVars, countVars, legVars
  <2>2. CASE TryMerge(seq, l, clock)
    <3>1. TypeOK'
      BY <1>1, <1>5, <2>2, TryMergeType
    <3> QED BY <2>2, <3>1 DEF TryMerge
  <2> QED BY <1>4, <2>1, <2>2, IngestIs
<1>8. DueAt(clock)' = DueAt(clock)
  BY <1>5 DEF DueAt, Delay
<1>9. PairTypes'
  BY <1>1, <1>5, <1>7, <1>8 DEF PairTypes, StaleAfterLag
<1>10. unreleased' \in Nat /\ late_dropped' \in Nat /\ overflow_dropped' \in Nat
  <2>1. unreleased \in Nat /\ late_dropped \in Nat /\ overflow_dropped \in Nat
    BY DEF FeedTypes
  <2>2. CASE IngestHeldCopy(seq, l, clock)
    BY <2>1, <2>2 DEF IngestHeldCopy, lateVars
  <2>3. CASE IngestRefused(seq, l, clock)
    BY <2>1, <2>3 DEF IngestRefused, LateCopy
  <2>4. CASE IngestTooLate(seq, l, clock)
    BY <2>1, <2>4 DEF IngestTooLate, LateCopy, CountedTooLate
  <2>5. CASE IngestOverflow(seq, l, clock)
    BY <2>1, <2>5 DEF IngestOverflow
  <2>6. CASE IngestNew(seq, l, i, clock)
    BY <2>1, <2>6 DEF IngestNew, lateVars
  <2> QED BY <1>4, <2>2, <2>3, <2>4, <2>5, <2>6 DEF Ingest
<1> QED BY <1>5, <1>6, <1>9, <1>10 DEF FeedTypes, NotMoved

LEMMA OtherFeedTypes ==
    ASSUME FeedTypes, [FeedNext]_feedVars, ~ \E l \in Legs : FeedDeliver(l)
    PROVE  /\ FeedTypes' /\ UNCHANGED <<lag, here, late_dropped, overflow_dropped>>
           /\ move' = NotMoved => move = NotMoved
<1>1. PairTypes /\ HoldInv /\ TypeOK /\ clock \in Nat
  BY DEF FeedTypes, PairTypes, TypeOK
<1>2. CASE Wake \/ FlushForRaw
  <2>1. /\ UNCHANGED <<clock, lag, due, missed, move, here, cut>> /\ DedupIdle
        /\ UNCHANGED <<unreleased, late_dropped, overflow_dropped>>
        /\ (\E now : DrainExpired(now)) \/ ReleaseAll
    BY <1>2 DEF Wake, FlushForRaw, DrainExpired, ReleaseAll, netVars, lateVars
  <2>2. HoldInv'
    BY <1>1, <2>1, DrainOperations
  <2>3. TypeOK' /\ stale_after' = stale_after
    BY <1>1, <2>1 DEF DedupIdle, TypeOK, mergerVars, windowVars, countVars, legVars
  <2>4. DueAt(clock)' = DueAt(clock)
    BY <2>1 DEF DueAt, Delay
  <2>5. PairTypes'
    BY <1>1, <2>1, <2>3, <2>4 DEF PairTypes, StaleAfterLag
  <2> QED BY <2>1, <2>2, <2>5 DEF FeedTypes, NotMoved
<1>3. ASSUME HoldIdle PROVE HoldInv' /\ UNCHANGED <<unreleased, late_dropped, overflow_dropped>>
  <2>1. UNCHANGED <<held, cursor, anchor_virtual, anchor_real>>
    BY <1>3 DEF HoldIdle, anchorVars
  <2> QED BY <1>1, <1>3, <2>1
          DEF HoldInv, BufferTypeOK, HeldInPlace, Passed, HoldIdle, lateVars
<1>4. CASE \E losing \in SUBSET Legs : FeedTick(losing)
  <2>1. PICK losing \in SUBSET Legs : FeedTick(losing)
    BY <1>4
  <2>2. PairTypes'
    BY <1>1, <2>1, TickKeeps DEF FeedTick
  <2>3. UNCHANGED <<lag, move, here, cut>> /\ HoldIdle
    BY <2>1 DEF FeedTick, Tick
  <2> QED BY <1>3, <2>2, <2>3 DEF FeedTypes, NotMoved
<1>5. CASE \E shift \in NewIsns : FeedMove(shift)
  <2>1. PICK shift \in NewIsns : FeedMove(shift)
    BY <1>5
  <2>2. PairTypes' /\ move' # NotMoved
    BY <1>1, <2>1, MoveTypes DEF FeedMove
  <2>3. UNCHANGED <<lag, here, cut>> /\ HoldIdle
    BY <2>1 DEF FeedMove, MoveSource
  <2> QED BY <1>3, <2>1, <2>2, <2>3 DEF FeedTypes
<1>6. CASE LoseBoth
  <2>1. /\ UNCHANGED <<clock, lag, due, missed, move, here>> /\ Restart /\ RestartHold
        /\ UNCHANGED <<unreleased, late_dropped, overflow_dropped>> /\ cut' = clock
    BY <1>6 DEF LoseBoth, RestartHold, netVars, lateVars
  <2>2. HoldInv'
    BY <1>1, <2>1, RestartStep
  <2>3. TypeOK' /\ stale_after' = stale_after
    BY <1>1, <2>1, RestartType DEF Restart
  <2>4. DueAt(clock)' = DueAt(clock)
    BY <2>1 DEF DueAt, Delay
  <2>5. PairTypes'
    BY <1>1, <2>1, <2>3, <2>4 DEF PairTypes, StaleAfterLag
  <2> QED BY <1>1, <2>1, <2>2, <2>5 DEF FeedTypes, NotMoved
<1>7. CASE UNCHANGED feedVars
  <2>1. /\ UNCHANGED <<clock, lag, due, missed, move, here, cut>>
        /\ UNCHANGED <<unreleased, late_dropped, overflow_dropped>>
        /\ UNCHANGED <<held, cursor, anchor_virtual, anchor_real>> /\ UNCHANGED vars
    BY <1>7 DEF feedVars, pairVars, netVars, bufferVars, anchorVars, lateVars, vars
  <2>2. HoldInv'
    BY <1>1, <2>1 DEF HoldInv, BufferTypeOK, HeldInPlace, Passed
  <2>3. TypeOK' /\ stale_after' = stale_after
    BY <1>1, <2>1 DEF vars, TypeOK, mergerVars, windowVars, countVars, legVars
  <2>4. DueAt(clock)' = DueAt(clock)
    BY <2>1 DEF DueAt, Delay
  <2>5. PairTypes'
    BY <1>1, <2>1, <2>3, <2>4 DEF PairTypes, StaleAfterLag
  <2> QED BY <2>1, <2>2, <2>5 DEF FeedTypes, NotMoved
<1> QED BY <1>2, <1>4, <1>5, <1>6, <1>7 DEF FeedNext

LEMMA FeedStarts ==
    ASSUME FeedInit
    PROVE  FeedInv
<1>1. /\ Init /\ clock = 0 /\ last_break = NoBreak /\ ~ initialized
      /\ lag \in Lags /\ lag \in Nat /\ due = DueAt(0) /\ missed = [l \in Legs |-> 0]
      /\ move = NotMoved /\ here = None /\ aired = {} /\ sent = {} /\ cut = None
      /\ held = {} /\ cursor = None /\ anchor_virtual = 0 /\ ~ anchor_set
      /\ released = [slot \in 0 .. Remember - 1 |-> None]
      /\ gap_lost = 0 /\ stretches = {} /\ unreleased = 0
      /\ late_dropped = 0 /\ overflow_dropped = 0
  BY PairAssumption DEF FeedInit, BufferInit, Init, NetInit
<1>2. TypeOK
  BY <1>1, InitType
<1>3. stale_after >= StaleAfterLag(lag)
  <2>1. stale_after = StaleAfterLag(Hold + LegLag)
    BY DEF FeedInit, StaleTime
  <2>2. LegLag \in Nat /\ Hold + LegLag >= lag
    BY <1>1, HoldAssumption DEF LegLag
  <2> QED BY <1>1, <2>1, <2>2, HoldAssumption, PairAssumption DEF StaleAfterLag
<1>4. PairTypes
  <2>1. missed \in [Legs -> 0 .. MaxMissed] /\ due \subseteq DueAt(clock)
    BY <1>1, PairAssumption
  <2>2. move.shift \in Nat
    BY <1>1 DEF NotMoved
  <2> QED BY <1>1, <1>2, <1>3, <2>1, <2>2 DEF PairTypes
<1>5. HoldInv
  BY BufferInitial DEF FeedInit
<1>6. FeedTypes
  BY <1>1, <1>4, <1>5 DEF FeedTypes
<1>7. Base = -1 /\ Kept = {}
  BY <1>1 DEF Base, Kept, HeldPackets
<1>8. Merging(-1, 0)
  <2>1. None # Lead
    BY LegsAssumption, PairAssumption
  <2>2. last_break.leg # Lead
    BY <1>1, <2>1 DEF NoBreak
  <2>3. Lead \in due
    BY <1>1, PairAssumption DEF DueAt, Delay
  <2>4. clock - (-1) <= Reach
    BY <1>1, <2>3, PairAssumption DEF Reach
  <2>5. \A l \in due : clock - Delay(l) > -1
    BY <1>1 DEF DueAt, Delay
  <2> QED BY <1>1, <1>7, <2>2, <2>3, <2>4, <2>5 DEF Merging
<1>9. Holding(-1, 0)
  <2>1. IsFiniteSet({}) /\ Cardinality({}) = 0
    BY FS_EmptySet
  <2>2. OnLine(-1, 0, held) /\ Remembered(-1, 0) /\ Timed(-1, held)
    BY <1>1 DEF OnLine, Remembered, Timed
  <2>3. Apart(-1, 0, Kept, anchor_virtual)
    BY <1>7 DEF Apart
  <2>4. Cardinality(aired) = Cardinality(sent) + Cardinality(held) + unreleased
    BY <1>1, <2>1
  <2>5. Gapped(-1, 0, Kept)
    <3>1. LineGaps(-1, 0, sent) = {}
      BY <1>1 DEF LineGaps
    <3> QED BY <1>1, <1>7, <2>1, <3>1 DEF Gapped, Stretched
  <2> QED BY <1>1, <1>7, <2>1, <2>2, <2>3, <2>4, <2>5 DEF Holding
<1>10. BoundedLatency /\ SkewTolerated
  BY <1>1 DEF BoundedLatency, SkewTolerated
<1> QED BY <1>6, <1>7, <1>8, <1>9, <1>10 DEF FeedInv

LEMMA StutterHolds ==
    ASSUME NEW o \in Int, Merging(Base, o), Holding(Base, o), UNCHANGED feedVars
    PROVE  Merging(Base, o)' /\ Holding(Base, o)' /\ Kept' = Kept
<1>1. /\ UNCHANGED <<highest_seq, highest_slot, emitted, last_accept, last_break, initialized>>
      /\ UNCHANGED <<clock, lag, due, missed, aired, cut, anchor_set, anchor_real, anchor_virtual>>
      /\ UNCHANGED <<sent, held, cursor, released, unreleased, overflow_dropped, gap_lost,
                     stretches>>
  BY DEF feedVars, pairVars, netVars, bufferVars, anchorVars, lateVars, vars, mergerVars,
         windowVars, legVars
<1>2. Base' = Base /\ Kept' = Kept
  BY <1>1 DEF Base, Kept, HeldPackets
<1>3. PICK b \in Int : b = Base
  BY DEF Merging
<1>4. Merging(b, o)'
  <2>1. ASSUME NEW t, Tracks(b, o, t) PROVE Tracks(b, o, t)'
    BY <1>1, <2>1 DEF Tracks, Agrees, SlotBehind, Wrap
  <2>2. Reach' = Reach /\ \A l : Delay(l)' = Delay(l)
    BY <1>1 DEF Reach, Delay
  <2> QED BY <1>1, <1>2, <1>3, <2>1, <2>2 DEF Merging
<1>5. Holding(b, o)'
  <2>1. OnLine(b, o, held)' /\ Remembered(b, o)' /\ Timed(b, held)'
    BY <1>1, <1>3 DEF Holding, OnLine, Remembered, Timed, Place
  <2>2. Apart(b, o, Kept, anchor_virtual)'
    BY <1>1, <1>2, <1>3 DEF Holding, Apart
  <2>3. Gapped(b, o, Kept)'
    BY <1>1, <1>2, <1>3 DEF Holding, Gapped, Stretched, LineGaps, Place
  <2> QED BY <1>1, <1>2, <1>3, <2>1, <2>2, <2>3 DEF Holding
<1> QED BY <1>2, <1>3, <1>4, <1>5

\* What a step of the pair does while the source has not moved.
LEMMA FeedKeeps ==
    ASSUME MaxMissed + 1 < Half, FeedTypes, move = NotMoved, move' = NotMoved, lag <= Half,
           BoundedLatency, NEW o \in Int, Merging(Base, o), Holding(Base, o),
           [FeedNext]_feedVars
    PROVE  /\ BoundedLatency' /\ \E w \in Int : Merging(Base, w)' /\ Holding(Base, w)'
           /\ (~ \E l \in Legs : FeedDeliver(l)) => Kept' = Kept
           /\ InOrder \/ UNCHANGED feedVars
<1>1. PICK b \in Int : b = Base
  BY DEF Merging
<1>2. Merging(b, o) /\ Holding(b, o)
  BY <1>1
<1>3. CASE \E l \in Legs : FeedDeliver(l)
  <2>1. PICK l \in Legs : FeedDeliver(l)
    BY <1>3
  <2>2. /\ \E w \in Int : Merging(b, w)' /\ Holding(b, w)'
        /\ BoundedLatency' /\ InOrder
    BY <1>2, <2>1, DeliverKeeps
  <2>3. Base' = b
    BY <1>1, <2>1 DEF FeedDeliver, Base
  <2> QED BY <1>3, <2>2, <2>3
<1>4. CASE Wake \/ FlushForRaw
  <2>1. /\ Merging(b, o)' /\ Holding(b, o)' /\ Kept' = Kept /\ held' \subseteq held /\ InOrder
    BY <1>2, <1>4, ReleaseKeeps
  <2>2. Base' = b /\ clock' = clock /\ lag' = lag
    BY <1>1, <1>4 DEF Wake, FlushForRaw, Base
  <2>3. BoundedLatency'
    BY <2>1, <2>2 DEF BoundedLatency
  <2> QED BY <2>1, <2>2, <2>3
<1>5. CASE \E losing \in SUBSET Legs : FeedTick(losing)
  <2>1. PICK losing \in SUBSET Legs : FeedTick(losing)
    BY <1>5
  <2>2. Merging(Base, o)' /\ Holding(Base, o)' /\ BoundedLatency'
    BY <2>1, TickHolds
  <2>3. batch' = {} /\ held' = held /\ sent' = sent
    BY <2>1 DEF FeedTick, HoldIdle
  <2> QED BY <2>2, <2>3 DEF InOrder, Kept, HeldPackets
<1>6. CASE \E shift \in NewIsns : FeedMove(shift)
  <2>1. PICK shift \in NewIsns : FeedMove(shift)
    BY <1>6
  <2> QED BY <2>1, MoveTypes DEF FeedMove, FeedTypes
<1>7. CASE LoseBoth
  <2>1. Merging(Base, 0)' /\ Holding(Base, 0)'
    BY <1>7, LoseHolds
  <2>2. /\ batch' = {} /\ held' = held /\ sent' = sent /\ clock' = clock /\ lag' = lag
    BY <1>7 DEF LoseBoth, RestartHold
  <2>3. BoundedLatency'
    BY <2>2 DEF BoundedLatency
  <2> QED BY <2>1, <2>2, <2>3 DEF InOrder, Kept, HeldPackets
<1>8. CASE UNCHANGED feedVars
  <2>1. Merging(Base, o)' /\ Holding(Base, o)' /\ Kept' = Kept
    BY <1>8, StutterHolds
  <2>2. held' = held /\ clock' = clock /\ lag' = lag
    BY <1>8 DEF feedVars, pairVars, vars, bufferVars
  <2>3. BoundedLatency'
    BY <2>2 DEF BoundedLatency
  <2> QED BY <1>8, <2>1, <2>3
<1> QED BY <1>3, <1>4, <1>5, <1>6, <1>7, <1>8 DEF FeedNext

LEMMA FeedStep ==
    ASSUME MaxMissed + 1 < Half, FeedInv, [FeedNext]_feedVars
    PROVE  FeedInv'
<1>1. FeedTypes /\ SkewTolerated /\ lag \in Nat
  BY DEF FeedInv, FeedTypes, PairTypes
<1>2. /\ FeedTypes' /\ lag' = lag
      /\ move' = NotMoved => move = NotMoved
  <2>1. CASE \E l \in Legs : FeedDeliver(l)
    BY <1>1, <2>1, DeliverFeedTypes DEF FeedDeliver
  <2>2. CASE ~ \E l \in Legs : FeedDeliver(l)
    BY <1>1, <2>2, OtherFeedTypes
  <2> QED BY <2>1, <2>2
<1>3. ASSUME move' = NotMoved, lag' <= Half
      PROVE  BoundedLatency' /\ \E o \in Int : Merging(Base, o)' /\ Holding(Base, o)'
  <2>1. move = NotMoved /\ lag <= Half
    BY <1>2, <1>3
  <2>2. PICK o \in Int : BoundedLatency /\ Merging(Base, o) /\ Holding(Base, o)
    BY <2>1 DEF FeedInv
  <2> QED BY <1>1, <1>3, <2>1, <2>2, FeedKeeps
<1>4. SkewTolerated'
  <2> SUFFICES ASSUME lag' <= Hold, lag' < Window, move' = NotMoved, overflow_dropped' = 0,
                      here' # None
               PROVE  here' \in Kept'
    BY DEF SkewTolerated, Kept
  <2>1. move = NotMoved /\ lag <= Half /\ lag <= Hold /\ lag < Window
    BY <1>1, <1>2, WindowAssumption, HalfAssumption
  <2>2. PICK o \in Int : BoundedLatency /\ Merging(Base, o) /\ Holding(Base, o)
    BY <2>1 DEF FeedInv
  <2>3. CASE \E l \in Legs : FeedDeliver(l)
    <3>1. PICK l \in Legs : FeedDeliver(l)
      BY <2>3
    <3>2. PICK b \in Int : b = Base
      BY <2>2 DEF Merging
    <3>3. Merging(b, o) /\ Holding(b, o)
      BY <2>2, <3>2
    <3> QED BY <1>1, <2>1, <3>1, <3>3, DeliverKeeps
  <2>4. CASE ~ \E l \in Legs : FeedDeliver(l)
    <3>1. here' = here /\ overflow_dropped' = overflow_dropped
      BY <1>1, <2>4, OtherFeedTypes
    <3>2. here \in Kept
      BY <1>1, <2>1, <3>1 DEF SkewTolerated, Kept
    <3>3. Kept' = Kept
      BY <1>1, <2>1, <2>2, <2>4, FeedKeeps
    <3> QED BY <3>1, <3>2, <3>3
  <2> QED BY <2>3, <2>4
<1> QED BY <1>2, <1>3, <1>4 DEF FeedInv

\* Missing lies strictly inside what it is of.
LEMMA MissingInside ==
    ASSUME NEW ps, NEW c \in Nat, ps \subseteq 0 .. c
    PROVE  /\ IsFiniteSet(Missing(ps)) /\ Missing(ps) \subseteq Int
           /\ \A v : v \in Missing(ps) <=> /\ v \in Int /\ v \notin ps
                                          /\ \E x, y \in ps : x < v /\ v < y
<1>1. CASE ps = {}
  BY <1>1, FS_EmptySet DEF Missing
<1>2. CASE ps # {}
  <2>1. ASSUME NEW v
        PROVE  v \in Min(ps) .. Max(ps) <=> v \in Int /\ \E x, y \in ps : x <= v /\ v <= y
    BY ONLY 0 \in Int, c \in Int, ps \subseteq 0 .. c, <1>2, Spanned
  <2>2. Missing(ps) = (Min(ps) .. Max(ps)) \ ps
    BY <1>2 DEF Missing
  <2>3. \A x \in ps : x \in Int /\ 0 <= x /\ x <= c
    OBVIOUS
  <2>4. ASSUME NEW v
        PROVE  v \in Missing(ps) <=> v \in Int /\ v \notin ps /\ \E x, y \in ps : x < v /\ v < y
    BY <2>1, <2>2, <2>3
  <2>5. Missing(ps) \subseteq 0 .. c
    BY <2>3, <2>4
  <2>6. IsFiniteSet(Missing(ps))
    <3>1. IsFiniteSet(0 .. c)
      BY FS_Interval
    <3> QED BY <2>5, <3>1, FS_Subset
  <2> QED BY <2>4, <2>5, <2>6
<1> QED BY <1>1, <1>2

\* The places missed are the packets missing from either stream.
LEMMA GapsAreMissing ==
    ASSUME FeedTypes, NEW o \in Int, Merging(Base, o), Holding(Base, o)
    PROVE  gap_lost = Cardinality(Missing(Earlier)) + Cardinality(Missing(sent \ Earlier))
<1>1. PICK b \in Int : b = Base
  BY DEF Merging
<1>2. Merging(b, o) /\ Holding(b, o) /\ aired \subseteq 0 .. clock
  BY <1>1 DEF Merging
<1>3. /\ clock \in Nat /\ sent \subseteq aired /\ Kept = sent \cup PacketsOf(held)
      /\ Apart(b, o, Kept, anchor_virtual) /\ Gapped(b, o, Kept)
  BY <1>2, HoldingFacts
<1>4. PICK S1 : S1 = Earlier
  OBVIOUS
<1>5. PICK S2 : S2 = sent \ Earlier
  OBVIOUS
<1>6. /\ S1 \subseteq 0 .. clock /\ S2 \subseteq 0 .. clock
      /\ \A p \in sent : p \in S1 \/ p \in S2
      /\ \A p \in S1 : p \in Nat /\ p \in sent /\ p <= b /\ Place(b, o, p) = p
      /\ \A p \in S2 : p \in Nat /\ p \in sent /\ ~ (p <= b) /\ Place(b, o, p) = p + o
  <2>1. \A p \in sent : p \in Nat /\ p \in 0 .. clock
    BY <1>2, <1>3
  <2>2. \A p \in sent : p \in S1 <=> p <= b
    BY <1>1, <1>4, <2>1 DEF Base, Earlier, BeforeCut
  <2>3. S1 \subseteq sent /\ S2 = sent \ S1
    BY <1>4, <1>5 DEF Earlier
  <2> QED BY <2>1, <2>2, <2>3 DEF Place
<1>7. \A p \in S1, q \in S2 : p < q + o
  <2>1. \A q \in S2 : q > b
    BY <1>6
  <2> QED BY <1>3, <1>6, <2>1 DEF Apart
<1>8. PICK M1 : /\ M1 = Missing(Earlier) /\ IsFiniteSet(M1) /\ M1 \subseteq Int
               /\ \A v : v \in M1 <=> v \in Int /\ v \notin S1 /\ \E x, y \in S1 : x < v /\ v < y
  <2>1. clock \in Nat /\ S1 \subseteq 0 .. clock
    BY <1>3, <1>6
  <2>2. /\ IsFiniteSet(Missing(S1)) /\ Missing(S1) \subseteq Int
        /\ \A v : v \in Missing(S1) <=> /\ v \in Int /\ v \notin S1
                                        /\ \E x, y \in S1 : x < v /\ v < y
    BY ONLY <2>1, MissingInside
  <2> QED BY <1>4, <2>2
<1>9. PICK M2 : /\ M2 = Missing(sent \ Earlier) /\ IsFiniteSet(M2) /\ M2 \subseteq Int
               /\ \A v : v \in M2 <=> v \in Int /\ v \notin S2 /\ \E x, y \in S2 : x < v /\ v < y
  <2>1. clock \in Nat /\ S2 \subseteq 0 .. clock
    BY <1>3, <1>6
  <2>2. /\ IsFiniteSet(Missing(S2)) /\ Missing(S2) \subseteq Int
        /\ \A v : v \in Missing(S2) <=> /\ v \in Int /\ v \notin S2
                                        /\ \E x, y \in S2 : x < v /\ v < y
    BY ONLY <2>1, MissingInside
  <2> QED BY <1>5, <2>2
<1>10. PICK N2 : N2 = {v + o : v \in M2}
  OBVIOUS
<1>11. PICK L : L = LineGaps(b, o, sent)
  OBVIOUS
<1>12. ASSUME NEW v \in L PROVE v \in M1 \cup N2
  <2>1. PICK p \in sent, q \in sent : /\ (p <= b) <=> (q <= b)
                                      /\ Place(b, o, p) < v /\ v < Place(b, o, q)
    BY <1>11 DEF LineGaps
  <2>2. v \in Int /\ \A r \in sent : Place(b, o, r) # v
    BY <1>11 DEF LineGaps
  <2>3. CASE p <= b
    <3>1. p \in S1 /\ q \in S1 /\ p < v /\ v < q
      BY <1>6, <2>1, <2>3
    <3>2. v \notin S1
      BY <1>6, <2>2
    <3> QED BY <1>8, <2>2, <3>1, <3>2
  <2>4. CASE ~ (p <= b)
    <3>1. p \in S2 /\ q \in S2 /\ p + o < v /\ v < q + o /\ p \in Nat /\ q \in Nat
      BY <1>6, <2>1, <2>4
    <3>2. PICK u \in Int : u = v - o
      BY <2>2
    <3>3. v = u + o /\ p < u /\ u < q
      BY <2>2, <3>1, <3>2
    <3>4. u \notin S2
      BY <1>6, <2>2, <3>3
    <3>5. u \in M2
      BY <1>9, <3>1, <3>3, <3>4
    <3> QED BY <1>10, <3>3, <3>5
  <2> QED BY <2>3, <2>4
<1>13. ASSUME NEW v \in M1 PROVE v \in L
  <2>1. PICK x \in S1, y \in S1 : x < v /\ v < y
    BY <1>8
  <2>2. v \in Int /\ v \notin S1 /\ y \in Nat
    BY <1>6, <1>8
  <2>3. \A r \in sent : Place(b, o, r) # v
    <3>1. \A r \in S1 : Place(b, o, r) # v
      BY <1>6, <2>2
    <3>2. ASSUME NEW r \in S2 PROVE Place(b, o, r) # v
      <4>1. y < r + o /\ r \in Nat /\ Place(b, o, r) = r + o
        BY <1>6, <1>7
      <4> QED BY <2>1, <2>2, <4>1
    <3> QED BY <1>6, <3>1, <3>2
  <2> QED BY <1>6, <1>11, <2>1, <2>2, <2>3 DEF LineGaps
<1>14. ASSUME NEW v \in N2 PROVE v \in L /\ v \notin M1
  <2>1. PICK u \in M2 : v = u + o
    BY <1>10
  <2>2. PICK x \in S2, y \in S2 : x < u /\ u < y
    BY <1>9
  <2>3. u \in Int /\ u \notin S2 /\ x \in Nat /\ y \in Nat /\ v \in Int
    <3>1. u \in Int /\ u \notin S2
      BY <1>9
    <3>2. x \in Nat /\ y \in Nat
      BY <1>6
    <3> QED BY <2>1, <3>1, <3>2
  <2>4. x + o < v /\ v < y + o
    BY <2>1, <2>2, <2>3
  <2>5. \A r \in S1 : r \in Nat /\ r < v
    <3>1. \A r \in S1 : r \in Nat /\ r < x + o
      BY <1>6, <1>7
    <3> QED BY <2>3, <2>4, <3>1
  <2>6. \A r \in sent : Place(b, o, r) # v
    <3>1. \A r \in S1 : Place(b, o, r) # v
      BY <1>6, <2>3, <2>5
    <3>2. ASSUME NEW r \in S2 PROVE Place(b, o, r) # v
      <4>1. r \in Nat /\ r # u /\ Place(b, o, r) = r + o
        BY <1>6, <2>3
      <4> QED BY <2>1, <2>3, <4>1
    <3> QED BY <1>6, <3>1, <3>2
  <2>7. v \in L
    BY <1>6, <1>11, <2>2, <2>3, <2>4, <2>6 DEF LineGaps
  <2>8. v \notin M1
    <3> SUFFICES ASSUME v \in M1 PROVE FALSE
      OBVIOUS
    <3>1. PICK r \in S1 : v < r
      BY <1>8
    <3> QED BY <2>3, <2>5, <3>1
  <2> QED BY <2>7, <2>8
<1>15. L = M1 \cup N2 /\ M1 \cap N2 = {}
  BY <1>12, <1>13, <1>14
<1>16. IsFiniteSet(N2) /\ Cardinality(N2) = Cardinality(M2)
  <2> DEFINE f == [u \in M2 |-> u + o]
  <2>1. f \in [M2 -> N2] /\ (\A v \in N2 : \E u \in M2 : f[u] = v)
    BY <1>10
  <2>2. \A u, v \in M2 : f[u] = f[v] => u = v
    BY <1>9
  <2>3. f \in Bijection(M2, N2)
    BY <2>1, <2>2 DEF Bijection, Injection, Surjection, IsInjective
  <2> QED BY <1>9, <2>3, FS_Bijection DEF ExistsBijection
<1>17. Cardinality(L) = Cardinality(M1) + Cardinality(M2)
  <2>1. Cardinality(L) = Cardinality(M1) + Cardinality(N2) - Cardinality({})
    BY <1>8, <1>15, <1>16, FS_Union
  <2>2. Cardinality({}) = 0 /\ Cardinality(M1) \in Nat /\ Cardinality(N2) \in Nat
    BY <1>8, <1>16, FS_CardinalityType, FS_EmptySet
  <2> QED BY <1>16, <2>1, <2>2
<1> QED BY <1>3, <1>8, <1>9, <1>11, <1>17 DEF Gapped

----------------------------------------------------------------------------

(* "N ms of leg skew tolerated hitlessly" (the hold of engine/input_rtp.rs    *)
(* and engine/input_srt.rs): with the legs no further apart than the hold and *)
(* the window, every packet either leg delivers goes out or is about to,      *)
(* whatever the legs lose, in outages shorter than half the sequence space,   *)
(* over a restart of the merger too, as long as the source does not restart   *)
(* and the buffer does not fill up.                                           *)
THEOREM SkewIsHidden ==
    ASSUME MaxMissed + 1 < Half
    PROVE  FeedSpec => []SkewTolerated
<1>1. FeedInit => FeedInv
  BY FeedStarts
<1>2. FeedInv /\ [FeedNext]_feedVars => FeedInv'
  BY FeedStep
<1>3. FeedInv => SkewTolerated
  BY DEF FeedInv
<1> QED
  BY <1>1, <1>2, <1>3, PTL DEF FeedSpec

(* Each packet the hitless merger admits was released, is held or is counted  *)
(* in unreleased, once: ingest loses track of none, whichever branch it takes *)
(* and however drain_ready and release_all split what is held.                *)
THEOREM NoPacketUnaccounted ==
    ASSUME MaxMissed + 1 < Half, \A d \in Lags : d <= Half
    PROVE  FeedSpec => []AdmittedAccounted
<1>1. FeedInit => FeedInv
  BY FeedStarts
<1>2. FeedInv /\ [FeedNext]_feedVars => FeedInv'
  BY FeedStep
<1>3. FeedInv => AdmittedAccounted
  BY DEF FeedInv, FeedTypes, AdmittedAccounted, Holding
<1> QED
  BY <1>1, <1>2, <1>3, PTL DEF FeedSpec

(* A packet leaves the hold at most the legs' skew after its own release      *)
(* time, until the source restarts: the fills ahead of it, each of which puts *)
(* it off, come no later than that.                                           *)
THEOREM LatencyIsBounded ==
    ASSUME MaxMissed + 1 < Half, \A d \in Lags : d <= Half
    PROVE  FeedSpec => [](move = NotMoved => BoundedLatency)
<1>1. FeedInit => FeedInv
  BY FeedStarts
<1>2. FeedInv /\ [FeedNext]_feedVars => FeedInv'
  BY FeedStep
<1>3. FeedInv => (move = NotMoved => BoundedLatency)
  BY DEF FeedInv, FeedTypes
<1> QED
  BY <1>1, <1>2, <1>3, PTL DEF FeedSpec

(* The output is in the source's order and repeats nothing, through gap       *)
(* fills, expired holds and a restart of the merger: whatever a call releases *)
(* is behind all that went out before it.  For a source that does not         *)
(* restart.                                                                   *)
THEOREM OutputInSourceOrder ==
    ASSUME MaxMissed + 1 < Half, \A d \in Lags : d <= Half, NewIsns = {}
    PROVE  FeedSpec => SourceOrder
<1>1. FeedInit => FeedInv
  BY FeedStarts
<1>2. FeedInv /\ [FeedNext]_feedVars => FeedInv'
  BY FeedStep
<1>3. FeedInv /\ FeedInv' /\ [FeedNext]_feedVars =>
        [\A e \in batch' :
           /\ e.payload \notin sent
           /\ move = NotMoved =>
                /\ \A p \in sent : p < e.payload
                /\ \A d \in batch' : d.virt < e.virt <=> d.payload < e.payload]_feedVars
  <2> SUFFICES ASSUME FeedInv, FeedInv', [FeedNext]_feedVars, ~ UNCHANGED feedVars,
                      NEW e \in batch'
               PROVE  /\ e.payload \notin sent
                      /\ \A p \in sent : p < e.payload
                      /\ \A d \in batch' : d.virt < e.virt <=> d.payload < e.payload
    OBVIOUS
  <2>1. /\ FeedTypes /\ move = NotMoved /\ move' = NotMoved /\ lag <= Half
    BY DEF FeedInv, FeedTypes, NotMoved
  <2>2. PICK o \in Int : BoundedLatency /\ Merging(Base, o) /\ Holding(Base, o)
    BY <2>1 DEF FeedInv
  <2>3. InOrder
    BY <2>1, <2>2, FeedKeeps
  <2>4. \A p \in sent : p \in Int /\ p < e.payload
    <3>1. PICK b \in Int : b = Base /\ aired \subseteq 0 .. clock
      BY <2>2 DEF Merging
    <3>2. sent \subseteq Nat
      BY <2>1, <2>2, <3>1, HoldingFacts
    <3> QED BY <2>3, <3>2 DEF InOrder
  <2>5. e.payload \notin sent
    BY <2>4
  <2> QED BY <2>3, <2>5 DEF InOrder
<1> QED
  BY <1>1, <1>2, <1>3, PTL DEF FeedSpec, SourceOrder

(* A copy counted late_dropped is one of a packet that never went out, as far *)
(* back as the memory of note_released goes: two packets of its reach do not  *)
(* share a slot, and what it has forgotten is not taken for another.          *)
THEOREM LateCopiesAreLosses ==
    ASSUME MaxMissed + 1 < Half, \A d \in Lags : d <= Half
    PROVE  FeedSpec => LateMeansLost
<1>1. FeedInit => FeedInv
  BY FeedStarts
<1>2. FeedInv /\ [FeedNext]_feedVars => FeedInv'
  BY FeedStep
<1>3. FeedInv /\ [FeedNext]_feedVars =>
        [(/\ late_dropped' > late_dropped
          /\ move = NotMoved
          /\ \A p \in sent : p - here' < Remember)
         => here' \notin sent]_feedVars
  <2> SUFFICES ASSUME FeedInv, [FeedNext]_feedVars, late_dropped' > late_dropped,
                      move = NotMoved, \A p \in sent : p - here' < Remember
               PROVE  here' \notin sent
    OBVIOUS
  <2>1. FeedTypes /\ lag <= Half
    BY DEF FeedInv, FeedTypes
  <2>2. PICK o \in Int : Merging(Base, o) /\ Holding(Base, o)
    BY <2>1 DEF FeedInv
  <2>3. PICK b \in Int : b = Base
    BY <2>2 DEF Merging
  <2>4. Merging(b, o) /\ Holding(b, o)
    BY <2>2, <2>3
  <2>5. PICK l \in Legs : FeedDeliver(l)
    <3>1. late_dropped \in Nat
      BY <2>1 DEF FeedTypes
    <3>2. late_dropped' # late_dropped
      BY <3>1
    <3> QED BY <2>1, <3>2, OtherFeedTypes
  <2> QED BY <2>1, <2>4, <2>5, DeliverKeeps
<1> QED
  BY <1>1, <1>2, <1>3, PTL DEF FeedSpec, LateMeansLost

(* gap_lost is the output's loss: drain_ready counts each packet missing from *)
(* the output once, whether the legs lost it, it came too late or the hold    *)
(* was full, and nothing between the streams before and after a restart of    *)
(* the merger, until the source restarts.                                     *)
THEOREM GapsAreCountedOnce ==
    ASSUME MaxMissed + 1 < Half, \A d \in Lags : d <= Half
    PROVE  FeedSpec => []GapLostIsOutputLoss
<1>1. FeedInit => FeedInv
  BY FeedStarts
<1>2. FeedInv /\ [FeedNext]_feedVars => FeedInv'
  BY FeedStep
<1>3. FeedInv => GapLostIsOutputLoss
  <2> SUFFICES ASSUME FeedInv, move = NotMoved
               PROVE  gap_lost = Cardinality(Missing(Earlier))
                                   + Cardinality(Missing(sent \ Earlier))
    BY DEF GapLostIsOutputLoss
  <2>1. FeedTypes /\ lag <= Half
    BY DEF FeedInv, FeedTypes
  <2>2. PICK o \in Int : Merging(Base, o) /\ Holding(Base, o)
    BY <2>1 DEF FeedInv
  <2> QED BY <2>1, <2>2, GapsAreMissing
<1> QED
  BY <1>1, <1>2, <1>3, PTL DEF FeedSpec
=============================================================================
