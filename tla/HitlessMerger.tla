--------------------------- MODULE HitlessMerger ---------------------------
(***************************************************************************)
(* The SMPTE 2022-7 hitless merger (redundancy/merger.rs, HitlessMerger):  *)
(* a sliding bitmap of the RTP sequence numbers already forwarded, fed by  *)
(* two redundant legs.  A packet ahead of the window advances it, one      *)
(* inside it fills a gap or is a duplicate, and one further behind is      *)
(* dropped unless its leg shows that the stream has moved.                 *)
(*                                                                         *)
(* Sequence numbers are u16 in the code; here they are 0..2*Half-1, so     *)
(* that the wrap is reached on small instances.  The bitmap is the set of  *)
(* slots whose bit is set; the slot arithmetic is the code's.              *)
(***************************************************************************)
EXTENDS Integers, FiniteSets

CONSTANTS Half,       \* half the sequence space: 0x8000 in the code
          Window,     \* slots of the gap-fill window, a quarter of the space at most
          Legs,       \* {Leg1, Leg2}
          None,       \* ActiveLeg::None, and Option::None
          StaleTimes, \* the stale times a caller may set
          Times       \* values of the caller's arrival clock

ASSUME HalfAssumption   == Half \in Nat
ASSUME WindowAssumption == Window \in Nat \ {0} /\ 2 * Window <= Half
ASSUME LegsAssumption   == None \notin Legs /\ None \notin Int
ASSUME TimesAssumption  == Times \subseteq Nat /\ StaleTimes \subseteq Nat

SeqSpace == 2 * Half
Seqs     == 0 .. SeqSpace - 1
Slots    == 0 .. Window - 1

VARIABLES
    highest_seq,  \* anchor of the window: the highest seq seen
    highest_slot, \* the slot that holds it
    emitted,      \* slots whose bit is set
    covered,      \* slots, counting back from highest_slot, that hold a seq of the stream
    reset_tail,   \* how many of the oldest covered slots a re-anchor skipped
    lost, skipped, resets, \* the loss counts
    last_accept,  \* arrival time of the last packet accepted
    stale_after,  \* how long nothing is accepted before a moved stream is followed
    leg_seq,      \* per leg, the seq of its last packet
    moved,        \* legs whose sequence broke since one of their packets was accepted
    last_break,   \* the last packet that broke its leg's sequence
    active_leg,   \* the leg of the last packet forwarded
    initialized,
    clock,        \* the caller's arrival clock
    out           \* what try_merge returned: the leg forwarded, or None

windowVars == <<highest_seq, highest_slot, emitted, covered, reset_tail>>
countVars  == <<lost, skipped, resets>>
legVars    == <<last_accept, moved, last_break, active_leg>>
mergerVars == <<windowVars, countVars, legVars, leg_seq, stale_after, initialized>>
vars       == <<mergerVars, clock, out>>

NoBreak == [seq |-> None, leg |-> None, first |-> FALSE]
Breaks  == [seq : Seqs, leg : Legs, first : BOOLEAN] \cup {NoBreak}

Lesser(a, b) == IF a <= b THEN a ELSE b

\* u16::wrapping_sub
WrappingSub(a, b) == IF a >= b THEN a - b ELSE a - b + SeqSpace

----------------------------------------------------------------------------
(* Slots and counts. *)

Wrap(slot)     == IF slot >= Window THEN slot - Window ELSE slot
SlotAhead(n)   == Wrap(highest_slot + n)
SlotBehind(n)  == Wrap(highest_slot + (Window - n))

\* Unfilled slots among the count slots that start from slots behind the highest.
UnfilledBehind(from, count) ==
    Cardinality({n \in from .. from + count - 1 : SlotBehind(n) \notin emitted})

\* What count_unfilled adds to lost, and to skipped.
UnfilledOrdinary == UnfilledBehind(0, covered - reset_tail)
UnfilledTail     == UnfilledBehind(covered - reset_tail, reset_tail)

----------------------------------------------------------------------------
(* The window. *)

\* Mutant: the first packet's bit is not set.
AnchorUnmarked(seq) ==
    /\ highest_seq'  = seq
    /\ highest_slot' = 0
    /\ emitted'      = {}
    /\ covered'      = 1
    /\ reset_tail'   = 0

Anchor(seq) ==
    /\ highest_seq'  = seq
    /\ highest_slot' = 0
    /\ emitted'      = {0}
    /\ covered'      = 1
    /\ reset_tail'   = 0

\* Mutant: the slots behind the new anchor are not capped to the window.
ReanchorUncapped(seq, forward) ==
    /\ lost'    = lost + UnfilledOrdinary
    /\ skipped' = skipped + UnfilledTail
    /\ resets'  = resets + 1
    /\ highest_seq' = seq /\ highest_slot' = 0 /\ emitted' = {0}
    /\ covered' = forward
    /\ reset_tail' = forward - 1

\* Mutant: what the window still missed is forgotten.
ReanchorUncounted(seq, forward) ==
    LET behind == Lesser(forward - 1, Window - 1)
    IN  /\ skipped' = skipped + (forward - 1 - behind)
        /\ resets'  = resets + 1
        /\ highest_seq' = seq /\ highest_slot' = 0 /\ emitted' = {0}
        /\ covered' = 1 + behind
        /\ reset_tail' = behind
        /\ UNCHANGED lost

\* Mutant: the seqs jumped over cannot be filled.
ReanchorFilled(seq, forward) ==
    LET behind == Lesser(forward - 1, Window - 1)
    IN  /\ lost'    = lost + UnfilledOrdinary
        /\ skipped' = skipped + UnfilledTail + (forward - 1 - behind)
        /\ resets'  = resets + 1
        /\ highest_seq' = seq /\ highest_slot' = 0 /\ emitted' = Slots
        /\ covered' = 1 + behind
        /\ reset_tail' = behind

\* A jump of a window or more: what the window still misses leaves it, and the
\* newest seqs jumped over become fillable slots behind the new anchor.
Reanchor(seq, forward) ==
    LET jumped == forward - 1
        behind == Lesser(jumped, Window - 1)
    IN  /\ lost'         = lost + UnfilledOrdinary
        /\ skipped'      = skipped + UnfilledTail + (jumped - behind)
        /\ resets'       = resets + 1
        /\ highest_seq'  = seq
        /\ highest_slot' = 0
        /\ emitted'      = {0}
        /\ covered'      = 1 + behind
        /\ reset_tail'   = behind

\* Mutant: the slots stepped over keep the bits of a window earlier.
AdvanceUncleared(seq, forward) ==
    /\ emitted'      = emitted \cup {SlotAhead(forward)}
    /\ highest_slot' = SlotAhead(forward)
    /\ highest_seq'  = seq
    /\ covered'      = Lesser(covered + forward, Window)
    /\ UNCHANGED <<lost, skipped, resets, reset_tail>>

\* A step of less than a window: each slot it reuses drops the seq one window
\* earlier, lost or skipped if no leg delivered it.
Advance(seq, forward) ==
    LET uncovered == Window - covered
        tail_end  == uncovered + reset_tail
        unfilled  == {n \in (uncovered + 1) .. forward : SlotAhead(n) \notin emitted}
    IN  /\ skipped'      = skipped + Cardinality({n \in unfilled : n <= tail_end})
        /\ lost'         = lost + Cardinality({n \in unfilled : n > tail_end})
        /\ emitted'      = (emitted \ {SlotAhead(n) : n \in 1 .. forward})
                             \cup {SlotAhead(forward)}
        /\ reset_tail'   = reset_tail
                             - Lesser(IF forward > uncovered THEN forward - uncovered ELSE 0,
                                      reset_tail)
        /\ highest_slot' = SlotAhead(forward)
        /\ highest_seq'  = seq
        /\ covered'      = Lesser(covered + forward, Window)
        /\ UNCHANGED resets

\* A packet of leg is forwarded: that leg's break is forgotten, and the other
\* leg's kept unless it was the other leg's first packet.
Accept(leg, now, movedNow, breakNow) ==
    /\ active_leg'  = leg
    /\ last_accept' = now
    /\ moved'       = movedNow \ {leg}
    /\ last_break'  = IF breakNow.first \/ breakNow.leg = leg THEN NoBreak ELSE breakNow
    /\ out'         = leg

----------------------------------------------------------------------------
(* Packets too far behind the window. *)

BehindWindow(seq, from) ==
    /\ WrappingSub(seq, from) >= Half
    /\ WrappingSub(from, seq) >= Window

\* Whether a packet breaks its leg's own sequence; prev is the leg's last seq.
BreaksLeg(seq, prev) == IF prev = None THEN TRUE ELSE BehindWindow(seq, prev)

MovedWith(seq, leg, prev) ==
    IF prev # None /\ BreaksLeg(seq, prev) THEN moved \cup {leg} ELSE moved

BreakWith(seq, leg, prev) ==
    IF BreaksLeg(seq, prev) THEN [seq |-> seq, leg |-> leg, first |-> prev = None]
                            ELSE last_break

\* Mutant: a leg whose sequence broke is followed at once.
MovedAtOnce(seq, leg, prev, now) == BreaksLeg(seq, prev) \/ leg \in moved

\* Mutant: a moved stream is followed only when both legs show it.
MovedOnBothLegs(seq, leg, prev, now) ==
    /\ BreaksLeg(seq, prev)
    /\ last_break.seq = seq
    /\ last_break.leg # leg

\* The leg's sequence has broken since it was last accepted, and either both
\* legs broke at this very packet or nothing was accepted for the stale time.
StreamMoved(seq, leg, prev, now) ==
    /\ BreaksLeg(seq, prev) \/ leg \in moved
    /\ \/ /\ BreaksLeg(seq, prev)
          /\ last_break # NoBreak
          /\ last_break.seq = seq
          /\ last_break.leg # leg
       \/ now - last_accept >= stale_after

----------------------------------------------------------------------------
(* try_merge, one disjunct per branch. *)

MergeFirst(seq, leg, now) ==
    /\ ~ initialized
    /\ Anchor(seq)
    /\ initialized' = TRUE
    /\ Accept(leg, now, moved, last_break)
    /\ UNCHANGED countVars

Forward(seq)  == WrappingSub(seq, highest_seq)
Backward(seq) == WrappingSub(highest_seq, seq)
IsForward(seq) == Forward(seq) > 0 /\ Forward(seq) < Half

MergeJump(seq, leg, now) ==
    /\ initialized
    /\ IsForward(seq)
    /\ Forward(seq) >= Window
    /\ Reanchor(seq, Forward(seq))
    /\ Accept(leg, now, moved, last_break)
    /\ UNCHANGED initialized

MergeAdvance(seq, leg, now) ==
    /\ initialized
    /\ IsForward(seq)
    /\ Forward(seq) < Window
    /\ Advance(seq, Forward(seq))
    /\ Accept(leg, now, moved, last_break)
    /\ UNCHANGED initialized

MergeFill(seq, leg, now) ==
    /\ initialized
    /\ ~ IsForward(seq)
    /\ Backward(seq) < Window
    /\ SlotBehind(Backward(seq)) \notin emitted
    /\ emitted' = emitted \cup {SlotBehind(Backward(seq))}
    /\ Accept(leg, now, moved, last_break)
    /\ UNCHANGED <<highest_seq, highest_slot, covered, reset_tail, countVars, initialized>>

MergeDuplicate(seq, leg, now) ==
    /\ initialized
    /\ ~ IsForward(seq)
    /\ Backward(seq) < Window
    /\ SlotBehind(Backward(seq)) \in emitted
    /\ out' = None
    /\ UNCHANGED <<windowVars, countVars, legVars, initialized>>

MergeMoved(seq, leg, now) ==
    /\ initialized
    /\ ~ IsForward(seq)
    /\ Backward(seq) >= Window
    /\ StreamMoved(seq, leg, leg_seq[leg], now)
    /\ Reanchor(seq, Forward(seq))
    /\ Accept(leg, now, MovedWith(seq, leg, leg_seq[leg]), BreakWith(seq, leg, leg_seq[leg]))
    /\ UNCHANGED initialized

MergeTooLate(seq, leg, now) ==
    /\ initialized
    /\ ~ IsForward(seq)
    /\ Backward(seq) >= Window
    /\ ~ StreamMoved(seq, leg, leg_seq[leg], now)
    /\ moved'      = MovedWith(seq, leg, leg_seq[leg])
    /\ last_break' = BreakWith(seq, leg, leg_seq[leg])
    /\ out'        = None
    /\ UNCHANGED <<windowVars, countVars, last_accept, active_leg, initialized>>

TryMerge(seq, leg, now) ==
    /\ leg_seq' = [leg_seq EXCEPT ![leg] = seq]
    /\ UNCHANGED stale_after
    /\ \/ MergeFirst(seq, leg, now)
       \/ MergeJump(seq, leg, now)
       \/ MergeAdvance(seq, leg, now)
       \/ MergeFill(seq, leg, now)
       \/ MergeDuplicate(seq, leg, now)
       \/ MergeMoved(seq, leg, now)
       \/ MergeTooLate(seq, leg, now)

----------------------------------------------------------------------------
(* The other operations. *)

\* A copy the caller dropped without merging it.
Observe(seq, leg) ==
    /\ leg_seq' = [leg_seq EXCEPT ![leg] = seq]
    /\ out'     = None
    /\ UNCHANGED <<windowVars, countVars, legVars, stale_after, initialized>>

SetStaleAfter(t) ==
    /\ stale_after' = t
    /\ out' = None
    /\ UNCHANGED <<windowVars, countVars, legVars, leg_seq, initialized>>

\* Start over as a new merger would, keeping the counts and the stale time.
Restart ==
    /\ lost'         = lost + UnfilledOrdinary
    /\ skipped'      = skipped + UnfilledTail
    /\ highest_seq'  = 0
    /\ highest_slot' = 0
    /\ emitted'      = {}
    /\ covered'      = 0
    /\ reset_tail'   = 0
    /\ last_accept'  = 0
    /\ leg_seq'      = [l \in Legs |-> None]
    /\ moved'        = {}
    /\ last_break'   = NoBreak
    /\ active_leg'   = None
    /\ initialized'  = FALSE
    /\ out'          = None
    /\ UNCHANGED <<resets, stale_after>>

----------------------------------------------------------------------------

Init ==
    /\ highest_seq = 0 /\ highest_slot = 0 /\ emitted = {}
    /\ covered = 0 /\ reset_tail = 0
    /\ lost = 0 /\ skipped = 0 /\ resets = 0
    /\ last_accept = 0
    /\ stale_after \in StaleTimes
    /\ leg_seq = [l \in Legs |-> None]
    /\ moved = {} /\ last_break = NoBreak
    /\ active_leg = None
    /\ initialized = FALSE
    /\ clock = 0
    /\ out = None

Arrive ==
    \E seq \in Seqs, leg \in Legs, now \in Times :
        /\ now >= clock
        /\ clock' = now
        /\ TryMerge(seq, leg, now)

ObserveCopy == \E seq \in Seqs, leg \in Legs : Observe(seq, leg) /\ UNCHANGED clock

Reconfigure == \E t \in StaleTimes : SetStaleAfter(t) /\ UNCHANGED clock

Next ==
    \/ Arrive
    \/ ObserveCopy
    \/ Reconfigure
    \/ Restart /\ UNCHANGED clock

Spec == Init /\ [][Next]_vars

----------------------------------------------------------------------------

(* Every variable has its type, and the slot counts nest: the slots a       *)
(* re-anchor skipped are among the covered ones, which fit the window, and   *)
(* the highest seq is always covered.  The code relies on it at every        *)
(* unsigned subtraction (count_unfilled, advance): none can underflow.       *)
TypeOK ==
    /\ highest_seq \in Seqs
    /\ highest_slot \in Slots
    /\ emitted \subseteq Slots
    /\ covered \in 0 .. Window
    /\ reset_tail \in 0 .. covered
    /\ initialized \in BOOLEAN
    /\ initialized => /\ covered > reset_tail
                      /\ highest_slot \in emitted
    /\ ~ initialized => covered = 0
    /\ lost \in Nat /\ skipped \in Nat /\ resets \in Nat
    /\ last_accept \in Nat /\ clock \in Nat
    /\ stale_after \in Nat
    /\ leg_seq \in [Legs -> Seqs \cup {None}]
    /\ moved \subseteq Legs
    /\ last_break \in Breaks
    /\ active_leg \in Legs \cup {None}
    /\ out \in Legs \cup {None}

=============================================================================
