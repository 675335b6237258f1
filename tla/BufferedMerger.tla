--------------------------- MODULE BufferedMerger ---------------------------
(***************************************************************************)
(* The buffered 2022-7 merger (redundancy/merger.rs,                       *)
(* BufferedHitlessMerger with one packet per seq): what the hitless merger *)
(* admits is held for the path differential and released in order, under   *)
(* a virtual seq that does not wrap.                                       *)
(*                                                                         *)
(* The deque kept sorted by key is the set of its entries.  The entries a  *)
(* call releases are those with nothing unexpired before them, so the      *)
(* draining loop is one step.                                              *)
(***************************************************************************)
EXTENDS HitlessMerger, FiniteSetsExt

CONSTANTS Hold,     \* max_path_diff
          MaxHeld,  \* max_buffer_packets
          Remember, \* virtual seqs it remembers releasing, the window's at least
          Payloads  \* what packets carry

ASSUME HoldAssumption ==
    /\ Hold \in Nat /\ MaxHeld \in Nat
    /\ Remember \in Nat \ {0} /\ Remember >= Window

VARIABLES
    held,           \* the buffer
    batch,          \* the entries the last call released
    cursor,         \* virtual seq last released, or None
    anchor_real, anchor_virtual, anchor_set, \* where a seq stands on the virtual line
    stretches,      \* first virtual seqs of the stretches not reached yet
    released,       \* per virtual seq modulo Remember, the last one released
    unreleased,     \* packets admitted and never held
    gap_lost, late_dropped, late_duplicates, overflow_dropped

anchorVars  == <<anchor_real, anchor_virtual, anchor_set>>
lateVars    == <<unreleased, late_dropped, late_duplicates, overflow_dropped>>
bufferVars  == <<held, batch, cursor, stretches, released, gap_lost, anchorVars, lateVars>>
mergingVars == <<vars, bufferVars>>

Virts(entries) == {e.virt : e \in entries}

Passed(virt) == cursor # None /\ virt <= cursor

----------------------------------------------------------------------------
(* project: the virtual seq, from the u16 distance to the anchor read as    *)
(* i16; a seq ahead of the anchor becomes the anchor.                       *)

Signed(d) == IF d < Half THEN d ELSE d - SeqSpace

Project(seq) ==
    IF anchor_set THEN anchor_virtual + Signed(WrappingSub(seq, anchor_real))
                  ELSE anchor_virtual

\* Mutant: the anchor stays where the first packet set it.
SlideNever(seq, virt) ==
    /\ anchor_set'     = TRUE
    /\ anchor_real'    = IF anchor_set THEN anchor_real ELSE seq
    /\ anchor_virtual' = IF anchor_set THEN anchor_virtual ELSE virt

Slide(seq, virt) ==
    /\ anchor_set' = TRUE
    /\ IF anchor_set /\ virt <= anchor_virtual
       THEN UNCHANGED <<anchor_real, anchor_virtual>>
       ELSE anchor_real' = seq /\ anchor_virtual' = virt

----------------------------------------------------------------------------
(* drain_ready *)

\* Mutant: whatever has expired goes out, past earlier packets still held.
ReadyAnywhere(entries, now) == {e \in entries : e.release_at <= now}

\* Mutant: the last entry's release time is tested instead of the first's.
ReadyWithLast(entries, now) ==
    IF \E e \in entries : e.release_at > now /\ \A d \in entries : d.virt <= e.virt
    THEN {} ELSE entries

Ready(entries, now) ==
    {e \in entries : \A d \in entries : d.virt <= e.virt => d.release_at <= now}

\* Mutant: a restart's stretch is a gap like any other.
GapsAndStretches(ends) ==
    {v \in Min(ends) .. Max(ends) : v \notin ends}

\* The virtual seqs between those released next to each other, unless a
\* stretch begins there.
Gaps(ends) ==
    {v \in Min(ends) .. Max(ends) :
        /\ v \notin ends
        /\ ~ \E s \in stretches :
               \A b \in ends : ~ (s <= b /\ b <= v) /\ ~ (v <= b /\ b < s)}

\* Mutant: a slot keeps the seq of a memory's length earlier.
NotedFirst(virts) ==
    [slot \in 0 .. Remember - 1 |->
        LET here == {v \in virts : v % Remember = slot}
        IN  IF here = {} \/ released[slot] # None THEN released[slot] ELSE Max(here)]

\* note_released, of the packets that go.
NotedReleased(virts) ==
    [slot \in 0 .. Remember - 1 |->
        LET here == {v \in virts : v % Remember = slot}
        IN  IF here = {} THEN released[slot] ELSE Max(here)]

Release(entries, going) ==
    LET virts == Virts(going)
        ends  == virts \cup ({cursor} \ {None})
    IN  /\ held'  = entries \ going
        /\ batch' = going
        /\ IF going = {}
           THEN UNCHANGED <<cursor, stretches, released, gap_lost>>
           ELSE /\ cursor'    = Max(virts)
                /\ stretches' = {s \in stretches : s > Max(virts)}
                /\ released'  = NotedReleased(virts)
                /\ gap_lost'  = gap_lost + Cardinality(Gaps(ends))

Drain(entries, now) == Release(entries, Ready(entries, now))

----------------------------------------------------------------------------
(* ingest, one disjunct per branch. *)

\* late_copy: whether the hold released this virtual seq, as far as it remembers.
KnownReleased(virt) == released[virt % Remember] = virt

LateCopy(virt) ==
    IF KnownReleased(virt)
    THEN late_duplicates' = late_duplicates + 1 /\ UNCHANGED late_dropped
    ELSE late_dropped' = late_dropped + 1 /\ UNCHANGED late_duplicates

\* The slower leg's copy of a packet still held.
IngestHeldCopy(seq, leg, now) ==
    /\ Project(seq) \in Virts(held)
    /\ Observe(seq, leg)
    /\ Slide(seq, Project(seq))
    /\ Drain(held, now)
    /\ UNCHANGED lateVars

\* A packet the hitless merger refuses.
IngestRefused(seq, leg, now) ==
    /\ Project(seq) \notin Virts(held)
    /\ TryMerge(seq, leg, now)
    /\ out' = None
    /\ Slide(seq, Project(seq))
    /\ LateCopy(Project(seq))
    /\ Drain(held, now)
    /\ UNCHANGED <<unreleased, overflow_dropped>>

\* The key of a packet admitted: one that re-anchored the window from behind
\* starts a new stretch past everything held.
KeyOf(seq) ==
    IF resets' # resets /\ Project(seq) < anchor_virtual THEN anchor_virtual + 1
                                                         ELSE Project(seq)

Admitted(seq, leg, now) ==
    /\ Project(seq) \notin Virts(held)
    /\ TryMerge(seq, leg, now)
    /\ out' # None
    /\ Slide(seq, KeyOf(seq))

\* Mutant: a gap fill is held whether or not its place has gone by.
PassedNever(virt) == FALSE

\* The guard of the strictly increasing output.
TooLateToHold(virt) == Passed(virt)

\* Mutant: a packet too late to hold is not counted.
UncountedTooLate(virt) == unreleased

\* A packet too late to hold is lost, unless it is a copy of one released.
CountedTooLate(virt) == IF KnownReleased(virt) THEN unreleased ELSE unreleased + 1

IngestTooLate(seq, leg, now) ==
    /\ Admitted(seq, leg, now)
    /\ TooLateToHold(KeyOf(seq))
    /\ LateCopy(KeyOf(seq))
    /\ unreleased' = CountedTooLate(KeyOf(seq))
    /\ Drain(held, now)
    /\ UNCHANGED overflow_dropped

IngestOverflow(seq, leg, now) ==
    /\ Admitted(seq, leg, now)
    /\ ~ TooLateToHold(KeyOf(seq))
    /\ Cardinality(held) >= MaxHeld
    /\ unreleased' = unreleased + 1
    /\ overflow_dropped' = overflow_dropped + 1
    /\ Drain(held, now)
    /\ UNCHANGED <<late_dropped, late_duplicates>>

IngestNew(seq, leg, payload, now) ==
    /\ Admitted(seq, leg, now)
    /\ ~ TooLateToHold(KeyOf(seq))
    /\ Cardinality(held) < MaxHeld
    /\ Drain(held \cup {[virt |-> KeyOf(seq), payload |-> payload, release_at |-> now + Hold]},
             now)
    /\ UNCHANGED lateVars

Ingest(seq, leg, payload, now) ==
    \/ IngestHeldCopy(seq, leg, now)
    \/ IngestRefused(seq, leg, now)
    \/ IngestTooLate(seq, leg, now)
    \/ IngestOverflow(seq, leg, now)
    \/ IngestNew(seq, leg, payload, now)

----------------------------------------------------------------------------
(* The other operations. *)

\* Nothing of the hitless merger changes.
DedupIdle == out' = None /\ UNCHANGED mergerVars

DrainExpired(now) ==
    /\ DedupIdle
    /\ Drain(held, now)
    /\ UNCHANGED <<anchorVars, lateVars>>

ReleaseAll ==
    /\ DedupIdle
    /\ Release(held, held)
    /\ UNCHANGED <<anchorVars, lateVars>>

\* The legs' configured lag changed: only the stale time follows.
SetLegLag(t) ==
    /\ SetStaleAfter(t)
    /\ batch' = {}
    /\ UNCHANGED <<held, cursor, stretches, released, gap_lost, anchorVars, lateVars>>

\* Mutant: the new stretch begins right behind the old one.
StretchFrom(past) == past + 1

\* Where the first packet after a restart stands: a window past everything, so
\* that one admitted behind it lands past everything too.
StretchAnchor(past) == past + Window

RestartHold ==
    LET reached == Virts(held) \cup ({cursor} \ {None})
    IN  /\ Restart
        /\ anchor_set' = FALSE
        /\ IF reached = {}
           THEN UNCHANGED <<anchor_virtual, stretches>>
           ELSE /\ anchor_virtual' = StretchAnchor(Max(reached))
                /\ stretches' = stretches \cup {Max(reached) + 1}
        /\ batch' = {}
        /\ UNCHANGED <<held, cursor, released, gap_lost, anchor_real, lateVars>>

----------------------------------------------------------------------------

BufferInit ==
    /\ Init
    /\ held = {} /\ batch = {} /\ cursor = None
    /\ anchor_real = 0 /\ anchor_virtual = 0 /\ anchor_set = FALSE
    /\ stretches = {}
    /\ released = [slot \in 0 .. Remember - 1 |-> None]
    /\ gap_lost = 0 /\ unreleased = 0
    /\ late_dropped = 0 /\ late_duplicates = 0 /\ overflow_dropped = 0

BufferNext ==
    \/ \E seq \in Seqs, leg \in Legs, payload \in Payloads, now \in Times :
          now >= clock /\ clock' = now /\ Ingest(seq, leg, payload, now)
    \/ \E now \in Times : now >= clock /\ clock' = now /\ DrainExpired(now)
    \/ ReleaseAll /\ UNCHANGED clock
    \/ RestartHold /\ UNCHANGED clock
    \/ \E t \in StaleTimes : SetLegLag(t) /\ UNCHANGED clock

BufferSpec == BufferInit /\ [][BufferNext]_mergingVars

----------------------------------------------------------------------------

Order == INSTANCE OrderedHold WITH
    waiting <- Virts(held), sent <- Virts(batch), last <- cursor

(* Whatever seqs the legs bring, and however the hitless merger judges      *)
(* them, the merger is an ordered hold: a packet it holds goes out once, in *)
(* order behind everything released before it, through re-anchors from      *)
(* behind, restarts, expired holds and release_all.                         *)
ReleasesInOrder == Order!Spec

(* The held packets have different places, all ahead of the cursor and      *)
(* none ahead of the anchor, which project relies on.                       *)
HeldInPlace ==
    /\ \A d, e \in held : d.virt = e.virt => d = e
    /\ \A e \in held : ~ Passed(e.virt) /\ e.virt <= anchor_virtual
    /\ cursor # None => cursor <= anchor_virtual
=============================================================================
