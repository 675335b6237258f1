--------------------------- MODULE HitlessProofs ---------------------------
(***************************************************************************)
(* The hitless merger, for every window, sequence space and stale time:    *)
(* it forwards every position of its stream exactly once and counts what   *)
(* it does not forward exactly once (HitlessLedger); and driven by two     *)
(* legs of one source it misses nothing a leg delivers, is not moved by a  *)
(* leg that lags, puts nothing out twice when the source restarts and does *)
(* not discard a leg for long (HitlessPair).                               *)
(*                                                                         *)
(* All of it rests on the agreement of the rotating bitmap with a set of   *)
(* positions that is never forgotten: those the ledger keeps, or the       *)
(* packets of the pair's source.                                           *)
(***************************************************************************)
EXTENDS HitlessLedger, HitlessPair, FiniteSetTheorems, TLAPS

HistoryOK ==
    /\ top \in Int
    /\ forwarded \subseteq Int

NotStarted == ~ initialized => emitted = {} /\ forwarded = {}

LedgerInv == TypeOK /\ HistoryOK /\ NotStarted /\ BitmapIsHistory

----------------------------------------------------------------------------
(* Arithmetic of the sequence space and of the slots. *)

\* u16::wrapping_sub yields a seq, zero only for equal arguments, and the two
\* differences of distinct seqs add up to the sequence space.
LEMMA WrappingSubType ==
    ASSUME NEW a \in Seqs, NEW b \in Seqs
    PROVE  /\ WrappingSub(a, b) \in Seqs
           /\ WrappingSub(a, b) = 0 <=> a = b
           /\ a # b => WrappingSub(a, b) + WrappingSub(b, a) = SeqSpace
  BY HalfAssumption DEF WrappingSub, Seqs, SeqSpace

\* A seq neither ahead of the window nor inside it is half the space ahead, at
\* least, which is a window or more.
LEMMA TooFarBehindJumps ==
    ASSUME NEW seq \in Seqs, highest_seq \in Seqs,
           ~ IsForward(seq), Backward(seq) >= Window
    PROVE  Forward(seq) \in Nat /\ Forward(seq) >= Window
<1>1. /\ Forward(seq) \in Seqs /\ Backward(seq) \in Seqs
      /\ Forward(seq) = 0 <=> seq = highest_seq
      /\ Backward(seq) = 0 <=> seq = highest_seq
  BY WrappingSubType DEF Forward, Backward
<1>2. Backward(seq) # 0
  BY <1>1, WindowAssumption, HalfAssumption DEF Seqs, SeqSpace
<1> QED
  BY <1>1, <1>2, WindowAssumption, HalfAssumption DEF IsForward, Seqs, SeqSpace

\* Slots behind the highest are slots, and no two of them coincide.
LEMMA SlotBehindInjective ==
    ASSUME highest_slot \in Slots, NEW m \in Slots, NEW n \in Slots
    PROVE  /\ SlotBehind(m) \in Slots
           /\ SlotBehind(m) = SlotBehind(n) => m = n
           /\ SlotBehind(0) = highest_slot
  BY WindowAssumption DEF SlotBehind, Wrap, Slots

\* The slot that is n ahead is the slot one window behind that.
LEMMA SlotAheadIsBehind ==
    ASSUME highest_slot \in Slots, NEW n \in 1 .. Window - 1
    PROVE  /\ SlotAhead(n) \in Slots
           /\ SlotAhead(n) = SlotBehind(Window - n)
  BY WindowAssumption DEF SlotAhead, SlotBehind, Wrap, Slots

\* The counts the merger adds to are natural numbers.
LEMMA UnfilledType ==
    ASSUME NEW from \in Int, NEW count \in Int
    PROVE  UnfilledBehind(from, count) \in Nat
<1>1. IsFiniteSet(from .. from + count - 1)
  BY FS_Interval
<1>2. IsFiniteSet({n \in from .. from + count - 1 : SlotBehind(n) \notin emitted})
  BY <1>1, FS_Subset
<1> QED
  BY <1>2, FS_CardinalityType DEF UnfilledBehind

\* So are both counts that count_unfilled adds.
LEMMA CountType ==
    ASSUME NEW a \in Int, NEW b \in Int, NEW S, S \subseteq a .. b
    PROVE  Cardinality(S) \in Nat
  BY FS_Interval, FS_Subset, FS_CardinalityType

----------------------------------------------------------------------------
(* The type invariant, action by action. *)

\* Re-anchoring, on whatever position, keeps the window well formed.
LEMMA ReanchorType ==
    ASSUME TypeOK, NEW seq \in Seqs, NEW forward \in Nat, forward >= Window,
           Reanchor(seq, forward)
    PROVE  /\ highest_seq' \in Seqs /\ highest_slot' \in Slots /\ emitted' \subseteq Slots
           /\ covered' \in 0 .. Window /\ reset_tail' \in 0 .. covered'
           /\ covered' > reset_tail' /\ highest_slot' \in emitted'
           /\ lost' \in Nat /\ skipped' \in Nat /\ resets' \in Nat
<1>1. covered - reset_tail \in Int /\ reset_tail \in Int
  BY DEF TypeOK
<1>2. UnfilledOrdinary \in Nat /\ UnfilledTail \in Nat
  BY <1>1, UnfilledType DEF UnfilledOrdinary, UnfilledTail
<1>3. /\ lost' = lost + UnfilledOrdinary
      /\ skipped' = skipped + UnfilledTail
                       + (forward - 1 - Lesser(forward - 1, Window - 1))
      /\ covered' = 1 + Lesser(forward - 1, Window - 1)
      /\ reset_tail' = Lesser(forward - 1, Window - 1)
      /\ resets' = resets + 1
      /\ highest_seq' = seq /\ highest_slot' = 0 /\ emitted' = {0}
  BY DEF Reanchor
<1>4. Lesser(forward - 1, Window - 1) = Window - 1
  BY WindowAssumption DEF Lesser
<1> QED
  BY <1>2, <1>3, <1>4, WindowAssumption DEF TypeOK, Slots

\* So does advancing by less than a window.
LEMMA AdvanceType ==
    ASSUME TypeOK, initialized, NEW seq \in Seqs, NEW forward \in 1 .. Window - 1,
           Advance(seq, forward)
    PROVE  /\ highest_seq' \in Seqs /\ highest_slot' \in Slots /\ emitted' \subseteq Slots
           /\ covered' \in 0 .. Window /\ reset_tail' \in 0 .. covered'
           /\ covered' > reset_tail' /\ highest_slot' \in emitted'
           /\ lost' \in Nat /\ skipped' \in Nat /\ resets' \in Nat
<1> DEFINE uncovered == Window - covered
           tail_end  == uncovered + reset_tail
           unfilled  == {n \in (uncovered + 1) .. forward : SlotAhead(n) \notin emitted}
<1>1. uncovered \in Int /\ uncovered + 1 \in Int /\ forward \in Int
  BY WindowAssumption DEF TypeOK
<1>2. /\ Cardinality({n \in unfilled : n <= tail_end}) \in Nat
      /\ Cardinality({n \in unfilled : n > tail_end}) \in Nat
  <2>1. /\ {n \in unfilled : n <= tail_end} \subseteq (uncovered + 1) .. forward
        /\ {n \in unfilled : n > tail_end} \subseteq (uncovered + 1) .. forward
    OBVIOUS
  <2> HIDE DEF uncovered, tail_end, unfilled
  <2> QED BY <1>1, <2>1, CountType
<1>3. /\ skipped' = skipped + Cardinality({n \in unfilled : n <= tail_end})
      /\ lost' = lost + Cardinality({n \in unfilled : n > tail_end})
      /\ resets' = resets /\ highest_seq' = seq
      /\ highest_slot' = SlotAhead(forward)
      /\ emitted' = (emitted \ {SlotAhead(n) : n \in 1 .. forward}) \cup {SlotAhead(forward)}
      /\ covered' = Lesser(covered + forward, Window)
      /\ reset_tail' = reset_tail
            - Lesser(IF forward > uncovered THEN forward - uncovered ELSE 0, reset_tail)
  BY DEF Advance
<1>4. /\ covered' \in 0 .. Window /\ reset_tail' \in 0 .. covered'
      /\ covered' > reset_tail'
  BY <1>3, WindowAssumption DEF TypeOK, Lesser
<1>5. SlotAhead(forward) \in Slots
  BY SlotAheadIsBehind DEF TypeOK
<1>6. lost' \in Nat /\ skipped' \in Nat
  <2> HIDE DEF uncovered, tail_end, unfilled
  <2> QED BY <1>2, <1>3 DEF TypeOK
<1> QED
  BY <1>3, <1>4, <1>5, <1>6 DEF TypeOK

\* A packet accepted leaves the legs' state well formed.
LEMMA AcceptType ==
    ASSUME NEW leg \in Legs, NEW now \in Nat, NEW m \in SUBSET Legs, NEW b \in Breaks,
           Accept(leg, now, m, b)
    PROVE  /\ last_accept' \in Nat /\ moved' \subseteq Legs /\ last_break' \in Breaks
           /\ active_leg' \in Legs \cup {None} /\ out' \in Legs \cup {None}
           /\ out' # None
  BY LegsAssumption DEF Accept, Breaks, NoBreak

\* So does judging a packet too far behind.
LEMMA BreakType ==
    ASSUME TypeOK, NEW leg \in Legs, NEW seq \in Seqs
    PROVE  /\ MovedWith(seq, leg, leg_seq[leg]) \in SUBSET Legs
           /\ BreakWith(seq, leg, leg_seq[leg]) \in Breaks
<1>1. [seq |-> seq, leg |-> leg, first |-> leg_seq[leg] = None] \in Breaks
  <2>1. (leg_seq[leg] = None) \in BOOLEAN
    OBVIOUS
  <2> QED BY <2>1 DEF Breaks
<1> QED
  BY <1>1 DEF MovedWith, BreakWith, TypeOK

\* try_merge keeps the type invariant, branch by branch.
LEMMA TryMergeType ==
    ASSUME TypeOK, NEW seq \in Seqs, NEW leg \in Legs, NEW now \in Nat,
           clock' \in Nat, TryMerge(seq, leg, now)
    PROVE  TypeOK'
<1> USE DEF Seqs
<1>0. /\ leg_seq' \in [Legs -> Seqs \cup {None}]
      /\ stale_after' \in Nat
  BY DEF TryMerge, TypeOK
<1>1. moved \in SUBSET Legs /\ last_break \in Breaks
  BY DEF TypeOK
<1> HIDE DEF Seqs
<1>2. CASE MergeFirst(seq, leg, now)
  <2>1. Anchor(seq) /\ Accept(leg, now, moved, last_break) /\ initialized'
        /\ UNCHANGED countVars
    BY <1>2 DEF MergeFirst
  <2>2. /\ highest_seq' \in Seqs /\ highest_slot' \in Slots /\ emitted' \subseteq Slots
        /\ covered' \in 0 .. Window /\ reset_tail' \in 0 .. covered'
        /\ covered' > reset_tail' /\ highest_slot' \in emitted'
    BY <2>1, WindowAssumption DEF Anchor, Slots
  <2> QED BY <1>0, <1>1, <1>2, <2>1, <2>2, AcceptType DEF TypeOK, countVars, MergeFirst
<1>3. CASE MergeJump(seq, leg, now)
  <2>1. Forward(seq) \in Nat /\ Forward(seq) >= Window
    BY <1>3, WrappingSubType DEF MergeJump, Forward, TypeOK, Seqs
  <2>2. Reanchor(seq, Forward(seq)) /\ Accept(leg, now, moved, last_break)
        /\ initialized /\ initialized' = initialized
    BY <1>3 DEF MergeJump
  <2> QED BY <1>0, <1>1, <2>1, <2>2, AcceptType, ReanchorType DEF TypeOK
<1>4. CASE MergeAdvance(seq, leg, now)
  <2>0. Forward(seq) \in Nat /\ Forward(seq) > 0 /\ Forward(seq) < Window
    BY <1>4, WrappingSubType DEF MergeAdvance, IsForward, Forward, TypeOK, Seqs
  <2>1. Forward(seq) \in 1 .. Window - 1
    BY <2>0, WindowAssumption
  <2>2. Advance(seq, Forward(seq)) /\ Accept(leg, now, moved, last_break)
        /\ initialized /\ initialized' = initialized
    BY <1>4 DEF MergeAdvance
  <2> QED BY <1>0, <1>1, <2>1, <2>2, AcceptType, AdvanceType DEF TypeOK
<1>5. CASE MergeFill(seq, leg, now)
  <2>1. Backward(seq) \in Slots
    BY <1>5, WrappingSubType, WindowAssumption, HalfAssumption
       DEF MergeFill, Backward, TypeOK, Seqs, Slots, SeqSpace
  <2>2. SlotBehind(Backward(seq)) \in Slots
    BY <2>1, SlotBehindInjective DEF TypeOK
  <2>3. Accept(leg, now, moved, last_break)
    BY <1>5 DEF MergeFill
  <2> QED BY <1>0, <1>1, <1>5, <2>2, <2>3, AcceptType DEF TypeOK, MergeFill, countVars
<1>6. CASE MergeDuplicate(seq, leg, now)
  BY <1>0, <1>6 DEF TypeOK, MergeDuplicate, windowVars, countVars, legVars
<1>7. CASE MergeMoved(seq, leg, now)
  <2>1. Forward(seq) \in Nat /\ Forward(seq) >= Window
    BY <1>7, TooFarBehindJumps DEF MergeMoved, TypeOK
  <2>2. /\ Reanchor(seq, Forward(seq))
        /\ Accept(leg, now, MovedWith(seq, leg, leg_seq[leg]), BreakWith(seq, leg, leg_seq[leg]))
        /\ initialized /\ initialized' = initialized
    BY <1>7 DEF MergeMoved
  <2> QED BY <1>0, <2>1, <2>2, AcceptType, BreakType, ReanchorType DEF TypeOK
<1>8. CASE MergeTooLate(seq, leg, now)
  BY <1>0, <1>8, BreakType DEF TypeOK, MergeTooLate, windowVars, countVars
<1> QED
  BY <1>2, <1>3, <1>4, <1>5, <1>6, <1>7, <1>8 DEF TryMerge

\* A new merger is well typed.
LEMMA InitType ==
    ASSUME Init
    PROVE  TypeOK
<1>1. 0 \in Seqs /\ 0 \in Slots
  BY WindowAssumption, HalfAssumption DEF Seqs, Slots, SeqSpace
<1>2. /\ leg_seq \in [Legs -> Seqs \cup {None}] /\ last_break \in Breaks
      /\ stale_after \in Nat
  BY TimesAssumption DEF Init, Breaks
<1>3. /\ covered \in 0 .. Window /\ reset_tail \in 0 .. covered
      /\ lost \in Nat /\ skipped \in Nat /\ resets \in Nat
      /\ last_accept \in Nat /\ clock \in Nat
  BY WindowAssumption DEF Init
<1>4. highest_seq \in Seqs /\ highest_slot \in Slots /\ emitted \subseteq Slots
  BY <1>1 DEF Init
<1> QED
  BY <1>2, <1>3, <1>4 DEF Init, TypeOK

\* restart keeps it: what the window still misses is counted, then forgotten.
LEMMA RestartType ==
    ASSUME TypeOK, Restart, clock' = clock
    PROVE  TypeOK'
<1>1. covered - reset_tail \in Int /\ reset_tail \in Int
  BY DEF TypeOK
<1>2. UnfilledOrdinary \in Nat /\ UnfilledTail \in Nat
  BY <1>1, UnfilledType DEF UnfilledOrdinary, UnfilledTail
<1>3. 0 \in Seqs /\ 0 \in Slots
  BY WindowAssumption, HalfAssumption DEF Seqs, Slots, SeqSpace
<1>4. leg_seq' \in [Legs -> Seqs \cup {None}] /\ last_break' \in Breaks
  BY DEF Restart, Breaks
<1>5. /\ covered' \in 0 .. Window /\ reset_tail' \in 0 .. covered'
      /\ lost' \in Nat /\ skipped' \in Nat /\ resets' \in Nat
  BY <1>2, WindowAssumption DEF TypeOK, Restart
<1> QED
  BY <1>3, <1>4, <1>5 DEF TypeOK, Restart

----------------------------------------------------------------------------

(* Every reachable state is well typed and its slot counts nest, so no       *)
(* unsigned subtraction of the merger underflows.                            *)
THEOREM MergerTypeCorrect == Spec => []TypeOK
<1>1. Init => TypeOK
  BY InitType
<1>2. TypeOK /\ [Next]_vars => TypeOK'
  <2> SUFFICES ASSUME TypeOK, [Next]_vars PROVE TypeOK'
    OBVIOUS
  <2>1. CASE Arrive
    <3>1. PICK seq \in Seqs, leg \in Legs, now \in Times :
             clock' = now /\ TryMerge(seq, leg, now)
      BY <2>1 DEF Arrive
    <3> QED BY <3>1, TimesAssumption, TryMergeType
  <2>2. CASE ObserveCopy
    BY <2>2 DEF ObserveCopy, Observe, TypeOK, windowVars, countVars, legVars
  <2>3. CASE Reconfigure
    BY <2>3, TimesAssumption DEF Reconfigure, SetStaleAfter, TypeOK, windowVars, countVars, legVars
  <2>4. CASE Restart /\ UNCHANGED clock
    BY <2>4, RestartType
  <2>5. CASE UNCHANGED vars
    BY <2>5 DEF TypeOK, vars, mergerVars, windowVars, countVars, legVars
  <2> QED
    BY <2>1, <2>2, <2>3, <2>4, <2>5 DEF Next
<1> QED
  BY <1>1, <1>2, PTL DEF Spec

----------------------------------------------------------------------------
(* The bitmap against a set of positions, for each way the window moves. *)

\* The slot n behind the highest is set if and only if the position n behind t
\* is in S, and S has nothing past t.
Agrees(S, t) ==
    /\ \A n \in Slots : SlotBehind(n) \in emitted <=> t - n \in S
    /\ \A p \in S : p <= t

\* A new window whose only set bit is the anchor's agrees with positions that
\* end a window before the anchor.
LEMMA AnchorAgrees ==
    ASSUME NEW S, S \subseteq Int, NEW t \in Int, \A p \in S : p <= t - Window,
           highest_slot' = 0, emitted' = {0}
    PROVE  Agrees(S \cup {t}, t)'
<1>1. ASSUME NEW n \in Slots
      PROVE  (SlotBehind(n)' \in emitted') <=> (t - n \in S \cup {t})
  <2>1. CASE n = 0
    <3>1. SlotBehind(n)' = 0
      BY <2>1, WindowAssumption DEF SlotBehind, Wrap
    <3> QED BY <3>1, <2>1
  <2>2. CASE n # 0
    <3>1. SlotBehind(n)' = Window - n /\ Window - n # 0
      BY <2>2, WindowAssumption DEF SlotBehind, Wrap, Slots
    <3>2. t - n \notin S /\ t - n # t
      BY <2>2, WindowAssumption DEF Slots
    <3> QED BY <3>1, <3>2
  <2> QED BY <2>1, <2>2
<1>2. \A p \in S \cup {t} : p <= t
  BY WindowAssumption
<1> QED
  BY <1>1, <1>2 DEF Agrees

\* Advancing by less than a window drops the oldest positions, leaves the ones
\* it steps over clear, and keeps the rest where they were.
LEMMA AdvanceAgrees ==
    ASSUME highest_slot \in Slots, NEW S, S \subseteq Int, NEW t \in Int, Agrees(S, t),
           NEW forward \in 1 .. Window - 1,
           highest_slot' = SlotAhead(forward),
           emitted' = (emitted \ {SlotAhead(n) : n \in 1 .. forward}) \cup {SlotAhead(forward)}
    PROVE  Agrees(S \cup {t + forward}, t + forward)'
<1>0. highest_slot \in Slots /\ highest_slot' \in Slots
  BY SlotAheadIsBehind
<1>1. ASSUME NEW n \in Slots
      PROVE  (SlotBehind(n)' \in emitted') <=> (t + forward - n \in S \cup {t + forward})
  <2>1. CASE n = 0
    <3>1. SlotBehind(n)' = SlotAhead(forward)
      BY <2>1, <1>0, WindowAssumption DEF SlotBehind, Wrap, Slots
    <3> QED BY <3>1, <2>1
  <2>2. CASE n \in 1 .. forward - 1
    <3>1. SlotBehind(n)' = SlotAhead(forward - n) /\ forward - n \in 1 .. forward
      BY <2>2, <1>0, WindowAssumption DEF SlotBehind, SlotAhead, Wrap, Slots
    <3>2. SlotAhead(forward - n) # SlotAhead(forward)
      BY <2>2, <1>0, WindowAssumption DEF SlotAhead, Wrap, Slots
    <3>3. SlotBehind(n)' \notin emitted'
      BY <3>1, <3>2
    <3>4. t + forward - n \notin S \cup {t + forward}
      BY <2>2 DEF Agrees
    <3> QED BY <3>3, <3>4
  <2>3. CASE n >= forward
    <3>1. n - forward \in Slots /\ SlotBehind(n)' = SlotBehind(n - forward)
      BY <2>3, <1>0, WindowAssumption DEF SlotBehind, SlotAhead, Wrap, Slots
    <3>2. ASSUME NEW k \in 1 .. forward PROVE SlotAhead(k) # SlotBehind(n - forward)
      <4>1. Window - k \in Slots /\ Window - k # n - forward
        BY <2>3, <3>1, WindowAssumption DEF Slots
      <4>2. SlotAhead(k) = SlotBehind(Window - k)
        BY <1>0, WindowAssumption, SlotAheadIsBehind
      <4> QED BY <4>1, <4>2, <3>1, <1>0, SlotBehindInjective
    <3>3. SlotBehind(n - forward) \in emitted' <=> SlotBehind(n - forward) \in emitted
      BY <3>2
    <3>4. t + forward - n = t - (n - forward) /\ t + forward - n # t + forward
      BY <2>3, WindowAssumption DEF Slots
    <3> QED BY <3>1, <3>3, <3>4 DEF Agrees
  <2> QED BY <2>1, <2>2, <2>3 DEF Slots
<1>2. \A p \in S \cup {t + forward} : p <= t + forward
  BY DEF Agrees
<1>3. PICK u \in Int : u = t + forward
  OBVIOUS
<1>4. /\ \A n \in Slots : (SlotBehind(n)' \in emitted') <=> (u - n \in S \cup {u})
      /\ \A p \in S \cup {u} : p <= u
  BY <1>1, <1>2, <1>3, WindowAssumption DEF Slots
<1>5. Agrees(S \cup {u}, u)'
  BY <1>4 DEF Agrees
<1> QED
  BY <1>3, <1>5

\* Filling a gap sets the bit of the position forwarded and of no other.
LEMMA FillAgrees ==
    ASSUME highest_slot \in Slots, NEW S, NEW t \in Int, Agrees(S, t), NEW k \in Slots,
           highest_slot' = highest_slot, emitted' = emitted \cup {SlotBehind(k)}
    PROVE  Agrees(S \cup {t - k}, t)'
<1>1. ASSUME NEW n \in Slots
      PROVE  (SlotBehind(n)' \in emitted') <=> (t - n \in S \cup {t - k})
  <2>1. SlotBehind(n)' = SlotBehind(n)
    BY DEF SlotBehind, Wrap
  <2>2. SlotBehind(n) = SlotBehind(k) <=> n = k
    BY SlotBehindInjective
  <2>3. t - n = t - k <=> n = k
    BY DEF Slots
  <2> QED BY <2>1, <2>2, <2>3 DEF Agrees
<1>2. \A p \in S \cup {t - k} : p <= t
  BY DEF Agrees, Slots
<1> QED
  BY <1>1, <1>2 DEF Agrees

\* A window that does not move keeps its history.
LEMMA UnmovedAgrees ==
    ASSUME NEW S, NEW t, Agrees(S, t), UNCHANGED <<highest_slot, emitted>>
    PROVE  Agrees(S, t)'
  BY DEF Agrees, SlotBehind, Wrap

----------------------------------------------------------------------------
(* An arrival keeps the invariant, and forwards exactly what is new. *)

LEMMA UnmovedHistory ==
    ASSUME BitmapIsHistory, UNCHANGED <<highest_slot, emitted, top, forwarded>>
    PROVE  BitmapIsHistory'
  BY DEF BitmapIsHistory, SlotBehind, Wrap

\* A packet that lands a window or more ahead of every position forwarded, or
\* is the first of all.
LEMMA JumpKeeps ==
    ASSUME LedgerInv, NEW forward \in Nat, forward >= Window, initialized',
           highest_slot' = 0, emitted' = {0}, EnterAhead(top + forward)
    PROVE  /\ HistoryOK' /\ NotStarted' /\ BitmapIsHistory'
           /\ pos' \notin forwarded
<1>1. /\ top + forward \in Int
      /\ \A p \in forwarded : p <= (top + forward) - Window
  BY WindowAssumption DEF LedgerInv, HistoryOK, BitmapIsHistory
<1>2. BitmapIsHistory'
  <2>0. PICK S : S = forwarded
    OBVIOUS
  <2>1. PICK t \in Int : t = top + forward
    BY <1>1
  <2>2. Agrees(S \cup {t}, t)'
    BY <1>1, <2>0, <2>1, AnchorAgrees DEF LedgerInv, HistoryOK
  <2> QED BY <2>0, <2>1, <2>2 DEF EnterAhead, Agrees, BitmapIsHistory
<1>3. top + forward \notin forwarded
  BY <1>1, WindowAssumption
<1> QED
  BY <1>1, <1>2, <1>3 DEF LedgerInv, HistoryOK, NotStarted, EnterAhead

\* An arrival keeps the window and the ledger in agreement, branch by branch.
LEMMA ArrivalKeeps ==
    ASSUME LedgerInv, NEW seq \in Seqs, NEW leg \in Legs, NEW now \in Nat,
           clock' \in Nat, TryMerge(seq, leg, now), RecordArrival(seq)
    PROVE  /\ LedgerInv'
           /\ pos' # None => (out' # None <=> pos' \notin forwarded)
<1>0. TypeOK /\ TypeOK'
  BY TryMergeType DEF LedgerInv
<1>1. leg # None
  BY LegsAssumption
<1> SUFFICES /\ HistoryOK' /\ NotStarted' /\ BitmapIsHistory'
             /\ pos' # None => (out' # None <=> pos' \notin forwarded)
  BY <1>0 DEF LedgerInv
<1>2. CASE MergeFirst(seq, leg, now)
  <2>1. /\ ~ initialized /\ initialized' /\ highest_slot' = 0 /\ emitted' = {0} /\ out' = leg
    BY <1>2 DEF MergeFirst, Anchor, Accept
  <2>2. forwarded = {} /\ top' = 0 /\ pos' = 0 /\ forwarded' = forwarded \cup {0}
    BY <2>1 DEF RecordArrival, LedgerInv, NotStarted
  <2>3. BitmapIsHistory'
    <3>0. PICK S : S = {}
      OBVIOUS
    <3>1. Agrees(S \cup {0}, 0)'
      <4>1. S \subseteq Int /\ 0 \in Int /\ \A p \in S : p <= 0 - Window
        BY <3>0
      <4> QED BY <2>1, <4>1, AnchorAgrees
    <3> QED BY <2>2, <3>0, <3>1 DEF Agrees, BitmapIsHistory
  <2> QED BY <1>1, <2>1, <2>2, <2>3 DEF HistoryOK, NotStarted
<1>3. CASE MergeJump(seq, leg, now)
  <2>1. Forward(seq) \in Nat /\ Forward(seq) >= Window
    BY <1>0, <1>3, WrappingSubType DEF MergeJump, Forward, TypeOK, Seqs
  <2>2. /\ initialized /\ initialized' /\ IsForward(seq)
        /\ highest_slot' = 0 /\ emitted' = {0} /\ out' = leg
    BY <1>3 DEF MergeJump, Reanchor, Accept
  <2>3. EnterAhead(top + Forward(seq))
    BY <2>2 DEF RecordArrival
  <2> QED BY <1>1, <2>1, <2>2, <2>3, JumpKeeps
<1>4. CASE MergeAdvance(seq, leg, now)
  <2>1. Forward(seq) \in Nat /\ Forward(seq) > 0 /\ Forward(seq) < Window
    BY <1>0, <1>4, WrappingSubType DEF MergeAdvance, IsForward, Forward, TypeOK, Seqs
  <2>2. Forward(seq) \in 1 .. Window - 1
    BY <2>1, WindowAssumption
  <2>3. /\ initialized /\ initialized' /\ IsForward(seq) /\ out' = leg
        /\ highest_slot' = SlotAhead(Forward(seq))
        /\ emitted' = (emitted \ {SlotAhead(n) : n \in 1 .. Forward(seq)})
                         \cup {SlotAhead(Forward(seq))}
    BY <1>4 DEF MergeAdvance, Advance, Accept
  <2>4. /\ top' = top + Forward(seq) /\ pos' = top + Forward(seq)
        /\ forwarded' = forwarded \cup {top + Forward(seq)}
    BY <2>3 DEF RecordArrival, EnterAhead
  <2>5. BitmapIsHistory'
    <3>0. PICK S : S = forwarded
      OBVIOUS
    <3>1. PICK t \in Int, f \in 1 .. Window - 1 : t = top /\ f = Forward(seq)
      BY <2>2 DEF LedgerInv, HistoryOK
    <3>2. Agrees(S, t) /\ S \subseteq Int /\ highest_slot \in Slots
      BY <3>0, <3>1 DEF LedgerInv, HistoryOK, TypeOK, Agrees, BitmapIsHistory
    <3>3. Agrees(S \cup {t + f}, t + f)'
      BY <2>3, <3>1, <3>2, AdvanceAgrees
    <3> QED BY <2>4, <3>0, <3>1, <3>3 DEF Agrees, BitmapIsHistory
  <2>6. pos' \notin forwarded
    BY <2>1, <2>4 DEF LedgerInv, HistoryOK, BitmapIsHistory
  <2> QED BY <1>1, <2>1, <2>3, <2>4, <2>5, <2>6 DEF LedgerInv, HistoryOK, NotStarted
<1>5. CASE MergeFill(seq, leg, now)
  <2>1. Backward(seq) \in Slots
    BY <1>0, <1>5, WrappingSubType, WindowAssumption, HalfAssumption
       DEF MergeFill, Backward, TypeOK, Seqs, Slots, SeqSpace
  <2>2. /\ initialized /\ initialized' = initialized /\ ~ IsForward(seq) /\ Backward(seq) < Window
        /\ highest_slot' = highest_slot /\ out' = leg
        /\ SlotBehind(Backward(seq)) \notin emitted
        /\ emitted' = emitted \cup {SlotBehind(Backward(seq))}
    BY <1>5 DEF MergeFill, Accept
  <2>3. ~ (Backward(seq) >= Window)
    BY <2>1, <2>2, WindowAssumption DEF Slots
  <2>4. /\ top' = top /\ pos' = top - Backward(seq) /\ forwarded' = forwarded \cup {top - Backward(seq)}
    BY <1>1, <2>2, <2>3 DEF RecordArrival, EnterInside
  <2>5. BitmapIsHistory'
    <3>0. PICK S : S = forwarded
      OBVIOUS
    <3>1. PICK t \in Int, k \in Slots : t = top /\ k = Backward(seq)
      BY <2>1 DEF LedgerInv, HistoryOK
    <3>2. Agrees(S, t) /\ highest_slot \in Slots
      BY <3>0, <3>1 DEF LedgerInv, TypeOK, Agrees, BitmapIsHistory
    <3>3. Agrees(S \cup {t - k}, t)'
      BY <2>2, <3>1, <3>2, FillAgrees
    <3> QED BY <2>4, <3>0, <3>1, <3>3 DEF Agrees, BitmapIsHistory
  <2>6. pos' \notin forwarded
    BY <2>1, <2>2, <2>4 DEF LedgerInv, BitmapIsHistory
  <2>7. HistoryOK'
    <3>1. top - Backward(seq) \in Int
      BY <2>1, WindowAssumption DEF LedgerInv, HistoryOK, Slots
    <3> QED BY <2>4, <3>1 DEF LedgerInv, HistoryOK
  <2> QED BY <1>1, <2>2, <2>5, <2>6, <2>7 DEF NotStarted
<1>6. CASE MergeDuplicate(seq, leg, now)
  <2>1. Backward(seq) \in Slots
    BY <1>0, <1>6, WrappingSubType, WindowAssumption, HalfAssumption
       DEF MergeDuplicate, Backward, TypeOK, Seqs, Slots, SeqSpace
  <2>2. /\ initialized /\ initialized' = initialized /\ ~ IsForward(seq) /\ Backward(seq) < Window
        /\ highest_slot' = highest_slot /\ emitted' = emitted /\ out' = None
        /\ SlotBehind(Backward(seq)) \in emitted
    BY <1>6 DEF MergeDuplicate, windowVars
  <2>3. ~ (Backward(seq) >= Window)
    BY <2>1, <2>2, WindowAssumption DEF Slots
  <2>4. top' = top /\ pos' = top - Backward(seq) /\ forwarded' = forwarded
    BY <2>2, <2>3 DEF RecordArrival, EnterInside
  <2>5. BitmapIsHistory'
    BY <2>2, <2>4, UnmovedHistory DEF LedgerInv
  <2>6. pos' \in forwarded
    BY <2>1, <2>2, <2>4 DEF LedgerInv, BitmapIsHistory
  <2> QED BY <2>2, <2>4, <2>5, <2>6 DEF LedgerInv, HistoryOK, NotStarted
<1>7. CASE MergeMoved(seq, leg, now)
  <2>1. Forward(seq) \in Nat /\ Forward(seq) >= Window
    BY <1>0, <1>7, TooFarBehindJumps DEF MergeMoved, TypeOK
  <2>2. /\ initialized /\ initialized' /\ ~ IsForward(seq) /\ Backward(seq) >= Window
        /\ highest_slot' = 0 /\ emitted' = {0} /\ out' = leg
    BY <1>7 DEF MergeMoved, Reanchor, Accept
  <2>3. ~ (Backward(seq) < Window)
    BY <1>0, <2>2, WrappingSubType, WindowAssumption DEF Backward, TypeOK, Seqs
  <2>4. EnterAhead(top + Forward(seq))
    BY <1>1, <2>2, <2>3 DEF RecordArrival
  <2> QED BY <1>1, <2>1, <2>2, <2>4, JumpKeeps
<1>8. CASE MergeTooLate(seq, leg, now)
  <2>1. /\ initialized /\ initialized' = initialized /\ ~ IsForward(seq) /\ Backward(seq) >= Window
        /\ highest_slot' = highest_slot /\ emitted' = emitted /\ out' = None
    BY <1>8 DEF MergeTooLate, windowVars
  <2>2. ~ (Backward(seq) < Window)
    BY <1>0, <2>1, WrappingSubType, WindowAssumption DEF Backward, TypeOK, Seqs
  <2>3. pos' = None /\ top' = top /\ forwarded' = forwarded
    BY <2>1, <2>2 DEF RecordArrival, EnterNothing
  <2>4. BitmapIsHistory'
    BY <2>1, <2>3, UnmovedHistory DEF LedgerInv
  <2> QED BY <2>1, <2>3, <2>4 DEF LedgerInv, HistoryOK, NotStarted
<1> QED
  BY <1>2, <1>3, <1>4, <1>5, <1>6, <1>7, <1>8 DEF TryMerge

\* One step of the merger with its ledger.
LEMMA StepKeeps ==
    ASSUME LedgerInv, [LedgerNext]_historyVars
    PROVE  /\ LedgerInv'
           /\ ~ UNCHANGED historyVars /\ pos' # None => (out' # None <=> pos' \notin forwarded)
<1>1. CASE LedgerArrive
  <2>1. PICK seq \in Seqs, leg \in Legs, now \in Times :
           clock' = now /\ TryMerge(seq, leg, now) /\ RecordArrival(seq)
    BY <1>1 DEF LedgerArrive
  <2>2. now \in Nat
    BY TimesAssumption
  <2> QED BY <2>1, <2>2, ArrivalKeeps
<1>2. CASE LedgerRestart
  <2>1. TypeOK'
    BY <1>2, RestartType DEF LedgerRestart, LedgerInv
  <2>2. emitted' = {} /\ forwarded' = {} /\ top' = 0 /\ pos' = None
    BY <1>2 DEF LedgerRestart, Restart
  <2>3. BitmapIsHistory'
    BY <2>2 DEF BitmapIsHistory
  <2> QED BY <2>1, <2>2, <2>3 DEF LedgerInv, HistoryOK, NotStarted
<1>3. CASE ObserveCopy /\ EnterNothing
  <2>1. UNCHANGED <<highest_slot, emitted, initialized, top, forwarded>> /\ pos' = None
    BY <1>3 DEF ObserveCopy, Observe, EnterNothing, windowVars
  <2>2. TypeOK'
    BY <1>3 DEF ObserveCopy, Observe, LedgerInv, TypeOK, windowVars, countVars, legVars
  <2> QED BY <2>1, <2>2, UnmovedHistory DEF LedgerInv, HistoryOK, NotStarted
<1>4. CASE Reconfigure /\ EnterNothing
  <2>1. UNCHANGED <<highest_slot, emitted, initialized, top, forwarded>> /\ pos' = None
    BY <1>4 DEF Reconfigure, SetStaleAfter, EnterNothing, windowVars
  <2>2. TypeOK'
    BY <1>4, TimesAssumption
       DEF Reconfigure, SetStaleAfter, LedgerInv, TypeOK, windowVars, countVars, legVars
  <2> QED BY <2>1, <2>2, UnmovedHistory DEF LedgerInv, HistoryOK, NotStarted
<1>5. CASE UNCHANGED historyVars
  <2>1. UNCHANGED vars /\ UNCHANGED ledgerVars
    BY <1>5 DEF historyVars
  <2>2. UNCHANGED <<highest_slot, emitted, initialized, top, forwarded>>
    BY <2>1 DEF ledgerVars, vars, mergerVars, windowVars
  <2>3. TypeOK'
    BY <2>1 DEF LedgerInv, TypeOK, vars, mergerVars, windowVars, countVars, legVars
  <2> QED BY <1>5, <2>2, <2>3, UnmovedHistory DEF LedgerInv, HistoryOK, NotStarted
<1> QED
  BY <1>1, <1>2, <1>3, <1>4, <1>5 DEF LedgerNext

\* A new merger has forwarded nothing.
LEMMA LedgerStarts ==
    ASSUME LedgerInit
    PROVE  LedgerInv
<1>1. Init /\ top = 0 /\ forwarded = {}
  BY DEF LedgerInit
<1>2. TypeOK
  BY <1>1, InitType
<1>3. emitted = {}
  BY <1>1 DEF Init
<1> QED
  BY <1>1, <1>2, <1>3 DEF LedgerInv, HistoryOK, NotStarted, BitmapIsHistory

----------------------------------------------------------------------------

(* The bitmap of every reachable state says exactly which positions of the   *)
(* window were forwarded, for every window and sequence space.               *)
THEOREM BitmapCorrect == LedgerSpec => []BitmapIsHistory
<1>1. LedgerInv /\ [LedgerNext]_historyVars => LedgerInv'
  BY StepKeeps
<1>2. LedgerInit => LedgerInv
  BY LedgerStarts
<1>3. LedgerInv => BitmapIsHistory
  BY DEF LedgerInv
<1> QED
  BY <1>1, <1>2, <1>3, PTL DEF LedgerSpec

(* Every arrival the merger can place is forwarded if and only if its        *)
(* position was never forwarded since the merger started.                    *)
THEOREM MergerExactlyOnce == LedgerSpec => ExactlyOnce
<1>1. LedgerInv /\ [LedgerNext]_historyVars => LedgerInv'
  BY StepKeeps
<1>2. LedgerInv /\ [LedgerNext]_historyVars
        => [pos' # None => (out' # None <=> pos' \notin forwarded)]_historyVars
  BY StepKeeps
<1>3. LedgerInit => LedgerInv
  BY LedgerStarts
<1> QED
  BY <1>1, <1>2, <1>3, PTL DEF LedgerSpec, ExactlyOnce

----------------------------------------------------------------------------
(* The balance of the loss counts *)

\* The positions of the stream that the window still misses, counted back from
\* the highest.
Unforwarded == {n \in 0 .. covered - 1 : SlotBehind(n) \notin emitted}

LEMMA SizeOfUnion ==
    ASSUME NEW S, NEW T, IsFiniteSet(S), IsFiniteSet(T), S \cap T = {}
    PROVE  IsFiniteSet(S \cup T) /\ Cardinality(S \cup T) = Cardinality(S) + Cardinality(T)
  BY FS_Union, FS_EmptySet, FS_CardinalityType

\* As many seqs, moved along the stream.
LEMMA SizeOfShifted ==
    ASSUME NEW S, IsFiniteSet(S), S \subseteq Int, NEW d \in Int
    PROVE  /\ IsFiniteSet({n + d : n \in S})
           /\ Cardinality({n + d : n \in S}) = Cardinality(S)
<1> DEFINE T == {n + d : n \in S}
           f == [n \in S |-> n + d]
<1>1. f \in [S -> T] /\ (\A t \in T : \E n \in S : f[n] = t)
      /\ (\A m, n \in S : f[m] = f[n] => m = n)
  OBVIOUS
<1>2. f \in Bijection(S, T)
  BY <1>1 DEF Bijection, Injection, Surjection, IsInjective
<1> QED BY <1>2, FS_Bijection DEF ExistsBijection

\* As many, counted from the other end.
LEMMA SizeOfMirrored ==
    ASSUME NEW S, IsFiniteSet(S), S \subseteq Int, NEW d \in Int
    PROVE  /\ IsFiniteSet({d - n : n \in S})
           /\ Cardinality({d - n : n \in S}) = Cardinality(S)
<1> DEFINE T == {d - n : n \in S}
           f == [n \in S |-> d - n]
<1>1. f \in [S -> T] /\ (\A t \in T : \E n \in S : f[n] = t)
      /\ (\A m, n \in S : f[m] = f[n] => m = n)
  OBVIOUS
<1>2. f \in Bijection(S, T)
  BY <1>1 DEF Bijection, Injection, Surjection, IsInjective
<1> QED BY <1>2, FS_Bijection DEF ExistsBijection

LEMMA MissingFinite ==
    ASSUME TypeOK
    PROVE  IsFiniteSet(Unforwarded) /\ Cardinality(Unforwarded) \in Nat
<1>1. PICK c \in Int : c = covered
  BY WindowAssumption DEF TypeOK
<1>2. IsFiniteSet(0 .. c - 1)
  BY <1>1, FS_Interval
<1>3. Unforwarded \in SUBSET (0 .. c - 1)
  BY <1>1 DEF Unforwarded
<1> QED BY <1>2, <1>3, FS_Subset, FS_CardinalityType

\* count_unfilled splits what is missed at the tail that a re-anchor skipped.
CountsMissing ==
    /\ UnfilledOrdinary \in Nat /\ UnfilledTail \in Nat
    /\ UnfilledOrdinary + UnfilledTail = Cardinality(Unforwarded)

LEMMA UnfilledIsMissing == TypeOK => CountsMissing
<1> SUFFICES ASSUME TypeOK PROVE CountsMissing
  OBVIOUS
<1>1. PICK c \in Nat, r \in Nat : c = covered /\ r = reset_tail /\ r <= c
  BY WindowAssumption DEF TypeOK
<1>2. PICK S : S = {n \in 0 .. 0 + (c - r) - 1 : SlotBehind(n) \notin emitted}
  OBVIOUS
<1>3. PICK T : T = {n \in (c - r) .. (c - r) + r - 1 : SlotBehind(n) \notin emitted}
  OBVIOUS
<1>4. UnfilledOrdinary = Cardinality(S) /\ UnfilledTail = Cardinality(T)
  BY <1>1, <1>2, <1>3 DEF UnfilledOrdinary, UnfilledTail, UnfilledBehind
<1>5. S \cap T = {}
  BY <1>1, <1>2, <1>3
<1>6. Unforwarded = S \cup T
  <2>1. ASSUME NEW n PROVE n \in Unforwarded <=> n \in S \cup T
    BY <1>1, <1>2, <1>3 DEF Unforwarded
  <2> QED BY <2>1, Zenon
<1>7. IsFiniteSet(S) /\ IsFiniteSet(T)
  <2>1. S \in SUBSET (0 .. c) /\ T \in SUBSET (0 .. c)
    BY <1>1, <1>2, <1>3
  <2>2. IsFiniteSet(0 .. c)
    BY FS_Interval
  <2> QED BY <2>1, <2>2, FS_Subset
<1> QED BY <1>4, <1>5, <1>6, <1>7, SizeOfUnion, FS_CardinalityType DEF CountsMissing

LEMMA UnfilledStaysMissing == TypeOK' => CountsMissing'
  BY UnfilledIsMissing, PTL

\* A fresh window behind an anchor misses everything but the anchor.
LEMMA AnchorMisses ==
    ASSUME NEW b \in 0 .. Window - 1, covered' = 1 + b, highest_slot' = 0, emitted' = {0}
    PROVE  Cardinality(Unforwarded') = b
<1>1. ASSUME NEW n PROVE n \in Unforwarded' <=> n \in 1 .. b
  BY WindowAssumption DEF Unforwarded, SlotBehind, Wrap
<1>2. Unforwarded' = 1 .. b
  BY <1>1, Zenon
<1>3. b \in Nat
  BY WindowAssumption
<1> QED BY <1>2, <1>3, FS_Interval

LEMMA ReanchorBalances ==
    ASSUME TypeOK, LossBalance, span \in Int, carried \in Int,
           NEW seq \in Seqs, NEW forward \in Nat, forward >= Window, Reanchor(seq, forward),
           span' = span + forward, carried' = carried + 1, TypeOK'
    PROVE  LossBalance'
<1>1. PICK b \in 0 .. Window - 1 : b = Lesser(forward - 1, Window - 1)
  BY WindowAssumption DEF Lesser
<1>2. PICK m \in Nat : m = UnfilledOrdinary + UnfilledTail
  BY UnfilledIsMissing DEF CountsMissing
<1>3. /\ lost' = lost + UnfilledOrdinary
      /\ skipped' = skipped + UnfilledTail + (forward - 1 - b)
      /\ covered' = 1 + b /\ highest_slot' = 0 /\ emitted' = {0}
  BY <1>1 DEF Reanchor
<1>4. UnfilledOrdinary' + UnfilledTail' = b
  <2>1. Cardinality(Unforwarded') = b
    BY <1>3, AnchorMisses
  <2> QED BY <2>1, UnfilledStaysMissing DEF CountsMissing
<1>5. UnfilledOrdinary' \in Nat /\ UnfilledTail' \in Nat
  BY UnfilledStaysMissing DEF CountsMissing
<1>6. UnfilledOrdinary \in Nat /\ UnfilledTail \in Nat /\ lost \in Nat /\ skipped \in Nat
  BY UnfilledIsMissing DEF CountsMissing, TypeOK
<1>7. span = carried + UnfilledOrdinary + UnfilledTail + lost + skipped
  BY DEF LossBalance
<1> QED BY <1>1, <1>3, <1>4, <1>5, <1>6, <1>7 DEF LossBalance

\* Advancing by f over a window of w slots, c of them covered: of what was
\* missed, U, the part further than w - f behind drops out, and the rest moves
\* back, to join the f - 1 seqs stepped over.
Dropped(U, w, f) == {w - n : n \in {m \in U : m >= w - f}}
Slid(U, w, f)    == (1 .. f - 1) \cup {n + f : n \in {m \in U : m < w - f}}

LEMMA WindowSlides ==
    ASSUME NEW w \in Nat, NEW c \in 0 .. w, NEW f \in 1 .. w - 1, NEW U \in SUBSET (0 .. c - 1)
    PROVE  /\ Cardinality(U) \in Nat
           /\ Cardinality(Dropped(U, w, f)) \in Nat /\ Cardinality(Slid(U, w, f)) \in Nat
           /\ Cardinality(Slid(U, w, f)) + Cardinality(Dropped(U, w, f)) = f - 1 + Cardinality(U)
<1>1. PICK A : A = {m \in U : m >= w - f}
  OBVIOUS
<1>2. PICK B : B = {m \in U : m < w - f}
  OBVIOUS
<1>3. c - 1 \in Int /\ f - 1 \in Int /\ f \in Int /\ f >= 1
  OBVIOUS
<1>4. IsFiniteSet(0 .. c - 1) /\ IsFiniteSet(1 .. f - 1) /\ Cardinality(1 .. f - 1) = f - 1
  BY <1>3, FS_Interval
<1>5. U = A \cup B /\ A \cap B = {} /\ A \subseteq Int /\ B \subseteq Int
  <2>1. U \subseteq Int /\ w - f \in Int
    BY <1>3
  <2>2. \A n \in U : (n >= w - f \/ n < w - f) /\ ~ (n >= w - f /\ n < w - f)
    BY <2>1
  <2> QED BY <1>1, <1>2, <2>1, <2>2, Zenon
<1>6. IsFiniteSet(U)
  BY <1>4, FS_Subset
<1>7. IsFiniteSet(A) /\ IsFiniteSet(B)
  BY <1>5, <1>6, FS_Subset
<1>8. Cardinality(U) = Cardinality(A) + Cardinality(B)
  BY <1>5, <1>7, SizeOfUnion
<1>9. /\ IsFiniteSet({w - n : n \in A}) /\ Cardinality({w - n : n \in A}) = Cardinality(A)
  <2>1. w \in Int
    OBVIOUS
  <2> QED BY <1>5, <1>7, <2>1, SizeOfMirrored
<1>10. PICK D : D = {n + f : n \in B}
  OBVIOUS
<1>11. IsFiniteSet(D) /\ Cardinality(D) = Cardinality(B)
  BY <1>3, <1>5, <1>7, <1>10, SizeOfShifted
<1>12. (1 .. f - 1) \cap D = {}
  BY <1>2, <1>3, <1>10
<1>13. Cardinality((1 .. f - 1) \cup D) = (f - 1) + Cardinality(D)
  BY <1>4, <1>11, <1>12, SizeOfUnion
<1>14. Cardinality(A) \in Nat /\ Cardinality(B) \in Nat
  BY <1>7, FS_CardinalityType
<1>15. /\ Cardinality(Dropped(U, w, f)) = Cardinality(A)
       /\ Cardinality(Slid(U, w, f)) = (f - 1) + Cardinality(B)
  BY <1>1, <1>2, <1>9, <1>10, <1>11, <1>13 DEF Dropped, Slid
<1> QED BY <1>3, <1>8, <1>14, <1>15

\* What the slots reused by an advance drop is what it counts.
LEMMA AdvanceDrops ==
    ASSUME TypeOK, NEW forward \in 1 .. Window - 1
    PROVE  {n \in (Window - covered + 1) .. forward : SlotAhead(n) \notin emitted}
             = {Window - n : n \in {m \in Unforwarded : m >= Window - forward}}
<1>1. ASSUME NEW k
      PROVE  k \in {n \in (Window - covered + 1) .. forward : SlotAhead(n) \notin emitted}
               <=> k \in {Window - n : n \in {m \in Unforwarded : m >= Window - forward}}
  <2>1. covered \in 0 .. Window /\ Window \in Nat
    BY WindowAssumption DEF TypeOK
  <2>2. ASSUME k \in (Window - covered + 1) .. forward
        PROVE  SlotAhead(k) = SlotBehind(Window - k)
    BY <2>1, <2>2, SlotAheadIsBehind DEF TypeOK
  <2>3. ASSUME k \in (Window - covered + 1) .. forward, SlotAhead(k) \notin emitted
        PROVE  \E n \in Unforwarded : n >= Window - forward /\ k = Window - n
    <3>1. /\ Window - k \in 0 .. covered - 1 /\ Window - k >= Window - forward
          /\ k = Window - (Window - k)
      BY <2>1, <2>3
    <3> QED BY <2>2, <2>3, <3>1 DEF Unforwarded
  <2>4. ASSUME NEW n \in Unforwarded, n >= Window - forward, k = Window - n
        PROVE  k \in (Window - covered + 1) .. forward /\ SlotAhead(k) \notin emitted
    <3>1. n \in 0 .. covered - 1 /\ SlotBehind(n) \notin emitted
      BY DEF Unforwarded
    <3>2. k \in (Window - covered + 1) .. forward /\ Window - k = n
      BY <2>1, <2>4, <3>1
    <3> QED BY <2>2, <3>1, <3>2
  <2> QED BY <2>3, <2>4
<1> QED BY <1>1, Zenon

\* What is missed after an advance.
LEMMA AdvanceMisses ==
    ASSUME TypeOK, initialized, NEW forward \in 1 .. Window - 1,
           highest_slot' = SlotAhead(forward),
           emitted' = (emitted \ {SlotAhead(n) : n \in 1 .. forward}) \cup {SlotAhead(forward)},
           covered' = Lesser(covered + forward, Window)
    PROVE  Unforwarded' = (1 .. forward - 1)
                        \cup {n + forward : n \in {m \in Unforwarded : m < Window - forward}}
<1>0. /\ highest_slot \in Slots /\ highest_slot' \in Slots
      /\ covered \in 1 .. Window /\ Window \in Nat
      /\ covered' \in Nat /\ covered' <= Window
  BY WindowAssumption, SlotAheadIsBehind DEF TypeOK, Lesser
<1>1. ASSUME NEW n \in Slots
      PROVE  n \in Unforwarded' <=>
               \/ n \in 1 .. forward - 1
               \/ n - forward \in Unforwarded /\ n - forward < Window - forward
  <2>0. n \in Unforwarded' <=> n < covered' /\ SlotBehind(n)' \notin emitted'
    BY <1>0 DEF Unforwarded, Slots
  <2>1. CASE n = 0
    <3>1. SlotBehind(n)' = SlotAhead(forward)
      BY <2>1, <1>0, WindowAssumption DEF SlotBehind, Wrap, Slots
    <3>2. n - forward \notin Unforwarded
      BY <1>0, <2>1 DEF Unforwarded
    <3> QED BY <2>0, <3>1, <3>2, <2>1
  <2>2. CASE n \in 1 .. forward - 1
    <3>1. SlotBehind(n)' = SlotAhead(forward - n) /\ forward - n \in 1 .. forward
      BY <2>2, <1>0, WindowAssumption DEF SlotBehind, SlotAhead, Wrap, Slots
    <3>2. SlotAhead(forward - n) # SlotAhead(forward)
      BY <2>2, <1>0, WindowAssumption DEF SlotAhead, Wrap, Slots
    <3>3. SlotBehind(n)' \notin emitted'
      BY <3>1, <3>2
    <3>4. n < covered'
      BY <1>0, <2>2 DEF Lesser
    <3> QED BY <2>0, <2>2, <3>3, <3>4
  <2>3. CASE n >= forward
    <3>1. n - forward \in Slots /\ SlotBehind(n)' = SlotBehind(n - forward)
      BY <2>3, <1>0, WindowAssumption DEF SlotBehind, SlotAhead, Wrap, Slots
    <3>2. ASSUME NEW k \in 1 .. forward PROVE SlotAhead(k) # SlotBehind(n - forward)
      <4>1. Window - k \in Slots /\ Window - k # n - forward
        BY <2>3, <3>1, WindowAssumption DEF Slots
      <4>2. SlotAhead(k) = SlotBehind(Window - k)
        BY <1>0, WindowAssumption, SlotAheadIsBehind
      <4> QED BY <4>1, <4>2, <3>1, <1>0, SlotBehindInjective
    <3>3. SlotBehind(n - forward) \in emitted' <=> SlotBehind(n - forward) \in emitted
      BY <3>2
    <3>4. n < covered' <=> n - forward < covered
      BY <1>0, <2>3 DEF Lesser, Slots
    <3>5. n - forward \in Unforwarded <=> n - forward < covered /\ SlotBehind(n - forward) \notin emitted
      BY <1>0, <3>1 DEF Unforwarded, Slots
    <3>6. n - forward < Window - forward /\ n \notin 1 .. forward - 1
      BY <1>0, <2>3 DEF Slots
    <3> QED BY <2>0, <3>1, <3>3, <3>4, <3>5, <3>6
  <2> QED BY <2>1, <2>2, <2>3 DEF Slots
<1>2. Unforwarded \subseteq Int /\ Unforwarded' \subseteq Slots /\ 1 .. forward - 1 \subseteq Slots
  BY <1>0, WindowAssumption DEF Unforwarded, Slots
<1>3. ASSUME NEW n
      PROVE  n \in Unforwarded' <=> n \in (1 .. forward - 1)
                \cup {k + forward : k \in {m \in Unforwarded : m < Window - forward}}
  <2>1. ASSUME n \in Unforwarded'
        PROVE  n \in (1 .. forward - 1)
                \cup {k + forward : k \in {m \in Unforwarded : m < Window - forward}}
    <3>1. n \in Slots /\ n = (n - forward) + forward
      BY <1>2, <2>1 DEF Slots
    <3> QED BY <1>1, <2>1, <3>1
  <2>2. ASSUME NEW k \in Unforwarded, k < Window - forward, n = k + forward
        PROVE  n \in Unforwarded'
    <3>1. k \in 0 .. covered - 1
      BY DEF Unforwarded
    <3>2. n \in Slots /\ n - forward = k
      BY <1>0, <2>2, <3>1 DEF Slots
    <3> QED BY <1>1, <2>2, <3>2
  <2>3. ASSUME n \in 1 .. forward - 1 PROVE n \in Unforwarded'
    BY <1>1, <1>2, <2>3
  <2> QED BY <2>1, <2>2, <2>3
<1> QED BY <1>3, Zenon

LEMMA AdvanceBalances ==
    ASSUME TypeOK, initialized, LossBalance, span \in Int, carried \in Int,
           NEW seq \in Seqs, NEW forward \in 1 .. Window - 1, Advance(seq, forward),
           span' = span + forward, carried' = carried + 1, TypeOK'
    PROVE  LossBalance'
<1>1. PICK c \in 0 .. Window, r \in Nat : c = covered /\ r = reset_tail
  BY WindowAssumption DEF TypeOK
<1>2. PICK L : L = {n \in (Window - covered + 1) .. forward : SlotAhead(n) \notin emitted}
  OBVIOUS
<1>3. PICK U : U = Unforwarded
  OBVIOUS
<1>4. PICK V : V = Unforwarded'
  OBVIOUS
<1>5. PICK S : S = {n \in L : n <= Window - c + r}
  OBVIOUS
<1>6. PICK T : T = {n \in L : n > Window - c + r}
  OBVIOUS
<1>7. /\ skipped' = skipped + Cardinality(S) /\ lost' = lost + Cardinality(T)
      /\ highest_slot' = SlotAhead(forward)
      /\ emitted' = (emitted \ {SlotAhead(n) : n \in 1 .. forward}) \cup {SlotAhead(forward)}
      /\ covered' = Lesser(covered + forward, Window)
  BY <1>1, <1>2, <1>5, <1>6 DEF Advance
<1>8. L = Dropped(U, Window, forward) /\ V = Slid(U, Window, forward)
  BY <1>2, <1>3, <1>4, <1>7, AdvanceDrops, AdvanceMisses DEF Dropped, Slid
<1>9. U \in SUBSET (0 .. c - 1)
  BY <1>1, <1>3 DEF Unforwarded
<1>10. /\ Cardinality(U) \in Nat /\ Cardinality(L) \in Nat /\ Cardinality(V) \in Nat
       /\ Cardinality(V) + Cardinality(L) = forward - 1 + Cardinality(U)
  BY <1>8, <1>9, WindowSlides, WindowAssumption
<1>11. Cardinality(L) = Cardinality(S) + Cardinality(T) /\ Cardinality(S) \in Nat
       /\ Cardinality(T) \in Nat
  <2>1. L \in SUBSET (0 .. Window)
    BY <1>1, <1>2, WindowAssumption
  <2>2. IsFiniteSet(0 .. Window)
    BY FS_Interval, WindowAssumption
  <2>3. IsFiniteSet(L)
    BY <2>1, <2>2, FS_Subset
  <2>4. Window - c + r \in Int /\ L \subseteq Int
    BY <1>1, <2>1, WindowAssumption
  <2>5. PICK e \in Int : e = Window - c + r
    BY <2>4
  <2>6. S \in SUBSET L /\ T \in SUBSET L /\ L = S \cup T /\ S \cap T = {}
    <3>1. \A n \in L : n <= e \/ n > e
      BY <2>4, <2>5
    <3>2. \A n \in L : ~ (n <= e /\ n > e)
      BY <2>4, <2>5
    <3> QED BY <1>5, <1>6, <2>5, <3>1, <3>2, Zenon
  <2> QED BY <2>3, <2>6, FS_Subset, FS_CardinalityType, SizeOfUnion
<1>12. /\ UnfilledOrdinary \in Nat /\ UnfilledTail \in Nat
       /\ UnfilledOrdinary + UnfilledTail = Cardinality(U)
  BY <1>3, UnfilledIsMissing DEF CountsMissing
<1>13. /\ UnfilledOrdinary' \in Nat /\ UnfilledTail' \in Nat
       /\ UnfilledOrdinary' + UnfilledTail' = Cardinality(V)
  <2>1. CountsMissing'
    BY UnfilledStaysMissing
  <2> QED BY <1>4, <2>1 DEF CountsMissing
<1>14. span = carried + UnfilledOrdinary + UnfilledTail + lost + skipped
       /\ lost \in Nat /\ skipped \in Nat
  BY DEF LossBalance, TypeOK
<1>15. span' = carried' + UnfilledOrdinary' + UnfilledTail' + lost' + skipped'
  BY <1>7, <1>10, <1>11, <1>12, <1>13, <1>14
<1> QED BY <1>15 DEF LossBalance

\* Filling a gap of the stream takes it out of what is missed; a packet from
\* before the first fills none.
LEMMA FillBalances ==
    ASSUME TypeOK, LossBalance, span \in Int, carried \in Int, NEW k \in Slots,
           UNCHANGED <<highest_slot, covered, reset_tail, lost, skipped, span>>,
           SlotBehind(k) \notin emitted, emitted' = emitted \cup {SlotBehind(k)},
           carried' = IF k < covered THEN carried + 1 ELSE carried, TypeOK'
    PROVE  LossBalance'
<1>1. PICK U : U = Unforwarded
  OBVIOUS
<1>2. PICK V : V = Unforwarded'
  OBVIOUS
<1>3. \A n : n \in V <=> n \in U /\ n # k
  <2> SUFFICES ASSUME NEW n PROVE n \in V <=> n \in U /\ n # k
    OBVIOUS
  <2>1. ASSUME n \in 0 .. covered - 1
        PROVE  n \in Slots /\ SlotBehind(n)' = SlotBehind(n) /\ (SlotBehind(n) = SlotBehind(k) <=> n = k)
    <3>1. n \in Slots
      BY <2>1, WindowAssumption DEF TypeOK, Slots
    <3>2. SlotBehind(n)' = SlotBehind(n)
      BY DEF SlotBehind, Wrap
    <3> QED BY <3>1, <3>2, SlotBehindInjective DEF TypeOK
  <2> QED BY <1>1, <1>2, <2>1 DEF Unforwarded
<1>4. k \in U <=> k < covered
  BY <1>1, WindowAssumption DEF Unforwarded, Slots, TypeOK
<1>5. V = U \ {k}
  BY <1>3, Zenon
<1>6. IsFiniteSet(U) /\ Cardinality(U) \in Nat
  BY <1>1, MissingFinite
<1>7. Cardinality(V) = IF k < covered THEN Cardinality(U) - 1 ELSE Cardinality(U)
  <2>1. CASE k \in U
    BY <1>4, <1>5, <1>6, <2>1, FS_RemoveElement
  <2>2. CASE k \notin U
    BY <1>4, <1>5, <2>2
  <2> QED BY <2>1, <2>2
<1>8. /\ UnfilledOrdinary \in Nat /\ UnfilledTail \in Nat
      /\ UnfilledOrdinary + UnfilledTail = Cardinality(U)
  BY <1>1, UnfilledIsMissing DEF CountsMissing
<1>9. /\ UnfilledOrdinary' \in Nat /\ UnfilledTail' \in Nat
      /\ UnfilledOrdinary' + UnfilledTail' = Cardinality(V)
  <2>1. CountsMissing'
    BY UnfilledStaysMissing
  <2> QED BY <1>2, <2>1 DEF CountsMissing
<1>10. span = carried + UnfilledOrdinary + UnfilledTail + lost + skipped
       /\ lost \in Nat /\ skipped \in Nat
  BY DEF LossBalance, TypeOK
<1>11. span' = carried' + UnfilledOrdinary' + UnfilledTail' + lost' + skipped'
  <2>1. span' = span /\ lost' = lost /\ skipped' = skipped
    OBVIOUS
  <2>2. PICK c \in Int, o \in Nat, t \in Nat, l \in Nat, m \in Nat :
           /\ c = carried /\ o = UnfilledOrdinary /\ t = UnfilledTail /\ l = lost /\ m = skipped
    BY <1>8, <1>10
  <2>3. PICK p \in Nat, q \in Nat :
           p = UnfilledOrdinary' /\ q = UnfilledTail' /\ p + q = Cardinality(V)
    BY <1>9, Zenon
  <2>4. p + q = IF k < covered THEN o + t - 1 ELSE o + t
    <3>1. o + t = Cardinality(U)
      BY <1>8, <2>2, Zenon
    <3>2. p + q = Cardinality(V)
      BY <2>3, Zenon
    <3> QED BY <1>7, <3>1, <3>2
  <2>5. PICK d \in Int : d = carried' /\ d = IF k < covered THEN c + 1 ELSE c
    BY <2>2
  <2>6. c + o + t + l + m = d + p + q + l + m
    BY <2>4, <2>5
  <2> QED BY <1>10, <2>1, <2>2, <2>3, <2>5, <2>6
<1> QED BY <1>11 DEF LossBalance

\* A window that does not move keeps its balance.
LEMMA UnmovedBalances ==
    ASSUME LossBalance, UNCHANGED <<windowVars, lost, skipped, span, carried>>
    PROVE  LossBalance'
  BY DEF LossBalance, UnfilledOrdinary, UnfilledTail, UnfilledBehind, SlotBehind, Wrap, windowVars

BalanceInv == LedgerInv /\ LossBalance /\ span \in Int /\ carried \in Int

\* An arrival keeps the balance, branch by branch.
LEMMA ArrivalBalances ==
    ASSUME BalanceInv, NEW seq \in Seqs, NEW leg \in Legs, NEW now \in Nat,
           TryMerge(seq, leg, now), RecordArrival(seq), TypeOK'
    PROVE  LossBalance' /\ span' \in Int /\ carried' \in Int
<1>0. TypeOK /\ LossBalance /\ span \in Int /\ carried \in Int /\ top \in Int
  BY DEF BalanceInv, LedgerInv, HistoryOK
<1>1. leg # None
  BY LegsAssumption
<1>2. CASE MergeFirst(seq, leg, now)
  <2>1. /\ ~ initialized /\ covered = 0 /\ reset_tail = 0
        /\ covered' = 1 + 0 /\ highest_slot' = 0 /\ emitted' = {0}
        /\ lost' = lost /\ skipped' = skipped
        /\ span' = span + 1 /\ carried' = carried + 1
    BY <1>0, <1>2 DEF MergeFirst, Anchor, countVars, RecordArrival, TypeOK
  <2>2. Cardinality(Unforwarded') = 0 /\ Cardinality(Unforwarded) = 0
    <3>1. Unforwarded = {}
      BY <2>1 DEF Unforwarded
    <3>2. 0 \in 0 .. Window - 1
      BY WindowAssumption
    <3> QED BY <2>1, <3>1, <3>2, AnchorMisses, FS_EmptySet
  <2>3. /\ UnfilledOrdinary \in Nat /\ UnfilledTail \in Nat /\ UnfilledOrdinary + UnfilledTail = 0
    BY <1>0, <2>2, UnfilledIsMissing DEF CountsMissing
  <2>4. CountsMissing'
    BY UnfilledStaysMissing
  <2>5. lost \in Nat /\ skipped \in Nat
    BY <1>0 DEF TypeOK
  <2>6. UnfilledOrdinary' \in Nat /\ UnfilledTail' \in Nat /\ UnfilledOrdinary' + UnfilledTail' = 0
    BY <2>2, <2>4 DEF CountsMissing
  <2>7. span = carried + UnfilledOrdinary + UnfilledTail + lost + skipped
    BY <1>0 DEF LossBalance
  <2>8. span' = carried' + UnfilledOrdinary' + UnfilledTail' + lost' + skipped'
    <3>1. /\ UnfilledOrdinary' = 0 /\ UnfilledTail' = 0
          /\ UnfilledOrdinary = 0 /\ UnfilledTail = 0
      <4>1. PICK p \in Nat, q \in Nat : p = UnfilledOrdinary' /\ q = UnfilledTail' /\ p + q = 0
        BY <2>6, Zenon
      <4>2. PICK o \in Nat, t \in Nat : o = UnfilledOrdinary /\ t = UnfilledTail /\ o + t = 0
        BY <2>3, Zenon
      <4>3. p + q = 0 /\ o + t = 0
        BY <4>1, <4>2, Zenon
      <4>4. p = 0 /\ q = 0 /\ o = 0 /\ t = 0
        BY <4>3
      <4> QED BY <4>1, <4>2, <4>4, Zenon
    <3>2. PICK c \in Int, l \in Nat, k \in Nat : c = carried /\ l = lost /\ k = skipped
      BY <1>0, <2>5
    <3>3. (c + 0 + 0 + l + k) + 1 = (c + 1) + 0 + 0 + l + k
      OBVIOUS
    <3> QED BY <2>1, <2>7, <3>1, <3>2, <3>3
  <2> QED BY <1>0, <2>1, <2>8 DEF LossBalance
<1>3. CASE MergeJump(seq, leg, now)
  <2>1. Forward(seq) \in Nat /\ Forward(seq) >= Window
    BY <1>0, <1>3, WrappingSubType DEF MergeJump, Forward, TypeOK, Seqs
  <2>2. Reanchor(seq, Forward(seq)) /\ EnterAhead(top + Forward(seq))
    BY <1>3 DEF MergeJump, RecordArrival
  <2>3. span' = span + Forward(seq) /\ carried' = carried + 1
    BY <1>0, <2>1, <2>2 DEF EnterAhead
  <2> QED BY <1>0, <2>1, <2>2, <2>3, ReanchorBalances
<1>4. CASE MergeAdvance(seq, leg, now)
  <2>1. Forward(seq) \in Nat /\ Forward(seq) > 0 /\ Forward(seq) < Window
    BY <1>0, <1>4, WrappingSubType DEF MergeAdvance, IsForward, Forward, TypeOK, Seqs
  <2>2. Forward(seq) \in 1 .. Window - 1
    BY <2>1, WindowAssumption
  <2>3. Advance(seq, Forward(seq)) /\ EnterAhead(top + Forward(seq)) /\ initialized
    BY <1>4 DEF MergeAdvance, RecordArrival
  <2>4. span' = span + Forward(seq) /\ carried' = carried + 1
    BY <1>0, <2>1, <2>3 DEF EnterAhead
  <2> QED BY <1>0, <2>1, <2>2, <2>3, <2>4, AdvanceBalances
<1>5. CASE MergeFill(seq, leg, now)
  <2>1. Backward(seq) \in Slots
    BY <1>0, <1>5, WrappingSubType, WindowAssumption, HalfAssumption
       DEF MergeFill, Backward, TypeOK, Seqs, Slots, SeqSpace
  <2>2. /\ initialized /\ ~ IsForward(seq) /\ Backward(seq) < Window
        /\ UNCHANGED <<highest_slot, covered, reset_tail, lost, skipped>> /\ out' = leg
        /\ SlotBehind(Backward(seq)) \notin emitted
        /\ emitted' = emitted \cup {SlotBehind(Backward(seq))}
    BY <1>5 DEF MergeFill, Accept, countVars
  <2>3. ~ (Backward(seq) >= Window)
    BY <2>1, <2>2, WindowAssumption DEF Slots
  <2>4. EnterInside(Backward(seq))
    BY <2>2, <2>3 DEF RecordArrival
  <2>5. /\ span' = span
        /\ carried' = IF Backward(seq) < covered THEN carried + 1 ELSE carried
    BY <1>1, <2>2, <2>4 DEF EnterInside
  <2> QED BY <1>0, <2>1, <2>2, <2>5, FillBalances
<1>6. CASE MergeDuplicate(seq, leg, now)
  <2>1. Backward(seq) \in Slots
    BY <1>0, <1>6, WrappingSubType, WindowAssumption, HalfAssumption
       DEF MergeDuplicate, Backward, TypeOK, Seqs, Slots, SeqSpace
  <2>2. /\ initialized /\ ~ IsForward(seq) /\ Backward(seq) < Window
        /\ UNCHANGED <<windowVars, lost, skipped>> /\ out' = None
    BY <1>6 DEF MergeDuplicate, countVars
  <2>3. ~ (Backward(seq) >= Window)
    BY <2>1, <2>2, WindowAssumption DEF Slots
  <2>4. UNCHANGED <<span, carried>>
    BY <2>2, <2>3 DEF RecordArrival, EnterInside
  <2> QED BY <1>0, <2>2, <2>4, UnmovedBalances
<1>7. CASE MergeMoved(seq, leg, now)
  <2>1. Forward(seq) \in Nat /\ Forward(seq) >= Window
    BY <1>0, <1>7, TooFarBehindJumps DEF MergeMoved, TypeOK
  <2>2. /\ initialized /\ ~ IsForward(seq) /\ Backward(seq) >= Window
        /\ Reanchor(seq, Forward(seq)) /\ out' = leg
    BY <1>7 DEF MergeMoved, Accept
  <2>3. ~ (Backward(seq) < Window)
    BY <1>0, <2>2, WrappingSubType, WindowAssumption DEF Backward, TypeOK, Seqs
  <2>4. EnterAhead(top + Forward(seq))
    BY <1>1, <2>2, <2>3 DEF RecordArrival
  <2>5. span' = span + Forward(seq) /\ carried' = carried + 1
    BY <1>0, <2>1, <2>4 DEF EnterAhead
  <2> QED BY <1>0, <2>1, <2>2, <2>5, ReanchorBalances
<1>8. CASE MergeTooLate(seq, leg, now)
  <2>1. /\ initialized /\ ~ IsForward(seq) /\ Backward(seq) >= Window
        /\ UNCHANGED <<windowVars, lost, skipped>> /\ out' = None
    BY <1>8 DEF MergeTooLate, countVars
  <2>2. ~ (Backward(seq) < Window)
    BY <1>0, <2>1, WrappingSubType, WindowAssumption DEF Backward, TypeOK, Seqs
  <2>3. UNCHANGED <<span, carried>>
    BY <2>1, <2>2 DEF RecordArrival, EnterNothing
  <2> QED BY <1>0, <2>1, <2>3, UnmovedBalances
<1> QED
  BY <1>2, <1>3, <1>4, <1>5, <1>6, <1>7, <1>8 DEF TryMerge

\* restart counts what the window still misses, and misses nothing.
LEMMA RestartBalances ==
    ASSUME TypeOK, LossBalance, span \in Int, carried \in Int, Restart,
           UNCHANGED <<span, carried>>, TypeOK'
    PROVE  LossBalance'
<1>1. /\ UnfilledOrdinary \in Nat /\ UnfilledTail \in Nat /\ lost \in Nat /\ skipped \in Nat
      /\ span = carried + UnfilledOrdinary + UnfilledTail + lost + skipped
  BY UnfilledIsMissing DEF CountsMissing, LossBalance, TypeOK
<1>2. Unforwarded' = {} /\ lost' = lost + UnfilledOrdinary /\ skipped' = skipped + UnfilledTail
  BY DEF Restart, Unforwarded
<1>3. CountsMissing'
  BY UnfilledStaysMissing
<1>4. UnfilledOrdinary' \in Nat /\ UnfilledTail' \in Nat /\ UnfilledOrdinary' + UnfilledTail' = 0
  BY <1>2, <1>3, FS_EmptySet DEF CountsMissing
<1>5. span' = carried' + UnfilledOrdinary' + UnfilledTail' + lost' + skipped'
  <2>1. span' = span /\ carried' = carried
    OBVIOUS
  <2>2. UnfilledOrdinary' = 0 /\ UnfilledTail' = 0
    <3>1. PICK p \in Nat, q \in Nat : p = UnfilledOrdinary' /\ q = UnfilledTail' /\ p + q = 0
      BY <1>4, Zenon
    <3>2. p + q = 0
      BY <3>1, Zenon
    <3>3. p = 0 /\ q = 0
      BY <3>2
    <3> QED BY <3>1, <3>3, Zenon
  <2>3. PICK o \in Nat, t \in Nat, l \in Nat, k \in Nat :
           o = UnfilledOrdinary /\ t = UnfilledTail /\ l = lost /\ k = skipped
    BY <1>1
  <2>4. carried + o + t + l + k = carried + 0 + 0 + (l + o) + (k + t)
    OBVIOUS
  <2> QED BY <1>1, <1>2, <2>1, <2>2, <2>3, <2>4
<1> QED BY <1>5 DEF LossBalance

(* Every seq the stream covered is counted once - forwarded, still fillable, *)
(* lost or skipped - for every window and sequence space: what advance,      *)
(* reanchor and restart add to the loss counts is what leaves the window     *)
(* unfilled, and a late copy that fills a gap takes it out of them.          *)
THEOREM LossesBalance == LedgerSpec => []LossBalance
<1>1. LedgerInit => BalanceInv
  <2> SUFFICES ASSUME LedgerInit PROVE BalanceInv
    OBVIOUS
  <2>1. LedgerInv
    BY LedgerStarts
  <2>2. Unforwarded = {} /\ span = 0 /\ carried = 0 /\ lost = 0 /\ skipped = 0
    BY DEF LedgerInit, Init, Unforwarded
  <2>3. UnfilledOrdinary \in Nat /\ UnfilledTail \in Nat /\ UnfilledOrdinary + UnfilledTail = 0
    BY <2>1, <2>2, UnfilledIsMissing, FS_EmptySet DEF CountsMissing, LedgerInv
  <2> QED BY <2>1, <2>2, <2>3 DEF BalanceInv, LossBalance
<1>2. BalanceInv /\ [LedgerNext]_historyVars => BalanceInv'
  <2> SUFFICES ASSUME BalanceInv, [LedgerNext]_historyVars
               PROVE  LossBalance' /\ span' \in Int /\ carried' \in Int
    BY StepKeeps DEF BalanceInv
  <2>0. /\ TypeOK /\ LossBalance /\ span \in Int /\ carried \in Int /\ LedgerInv' /\ TypeOK'
    BY StepKeeps DEF BalanceInv, LedgerInv
  <2>1. CASE LedgerArrive
    <3>1. PICK seq \in Seqs, leg \in Legs, now \in Times :
             TryMerge(seq, leg, now) /\ RecordArrival(seq)
      BY <2>1 DEF LedgerArrive
    <3>2. now \in Nat
      BY TimesAssumption
    <3> QED BY <2>0, <3>1, <3>2, ArrivalBalances
  <2>2. CASE LedgerRestart
    BY <2>0, <2>2, RestartBalances DEF LedgerRestart
  <2>3. CASE ObserveCopy /\ EnterNothing
    BY <2>0, <2>3, UnmovedBalances DEF ObserveCopy, Observe, EnterNothing, countVars
  <2>4. CASE Reconfigure /\ EnterNothing
    BY <2>0, <2>4, UnmovedBalances DEF Reconfigure, SetStaleAfter, EnterNothing, countVars
  <2>5. CASE UNCHANGED historyVars
    BY <2>0, <2>5, UnmovedBalances
       DEF historyVars, ledgerVars, vars, mergerVars, countVars
  <2> QED BY <2>1, <2>2, <2>3, <2>4, <2>5 DEF LedgerNext
<1>3. BalanceInv => LossBalance
  BY DEF BalanceInv
<1> QED
  BY <1>1, <1>2, <1>3, PTL DEF LedgerSpec

----------------------------------------------------------------------------
(* What try_merge does with a packet, by where it falls. *)

\* Ahead of the highest: forwarded, and the window moves to it.
LEMMA MergeAhead ==
    ASSUME TypeOK, initialized, NEW S, S \subseteq Int, NEW t \in Int, Agrees(S, t),
           NEW seq \in Seqs, NEW leg \in Legs, NEW now \in Nat, TryMerge(seq, leg, now),
           NEW f \in Nat, f = Forward(seq), f > 0, f < Half, NEW u \in Int, u = t + f
    PROVE  /\ out' = leg /\ initialized' /\ last_accept' = now /\ highest_seq' = seq
           /\ last_break' \in {NoBreak, last_break}
           /\ Agrees(S \cup {u}, u)'
<1>1. IsForward(seq)
  BY DEF IsForward
<1>2. CASE MergeJump(seq, leg, now)
  <2>1. /\ highest_slot' = 0 /\ emitted' = {0} /\ highest_seq' = seq /\ f >= Window
        /\ Accept(leg, now, moved, last_break) /\ initialized'
    BY <1>2 DEF MergeJump, Reanchor
  <2>3. \A p \in S : p <= u - Window
    BY <2>1, WindowAssumption DEF Agrees
  <2>4. Agrees(S \cup {u}, u)'
    BY <2>1, <2>3, AnchorAgrees
  <2> QED BY <2>1, <2>4 DEF Accept
<1>3. CASE MergeAdvance(seq, leg, now)
  <2>1. /\ highest_slot' = SlotAhead(f) /\ highest_seq' = seq /\ f < Window
        /\ emitted' = (emitted \ {SlotAhead(n) : n \in 1 .. f}) \cup {SlotAhead(f)}
        /\ Accept(leg, now, moved, last_break) /\ initialized'
    BY <1>3 DEF MergeAdvance, Advance
  <2>2. f \in 1 .. Window - 1 /\ highest_slot \in Slots
    BY <2>1, WindowAssumption DEF TypeOK
  <2>3. Agrees(S \cup {t + f}, t + f)'
    BY <2>1, <2>2, AdvanceAgrees
  <2> QED BY <2>1, <2>3 DEF Accept
<1> QED
  BY <1>1, <1>2, <1>3
     DEF TryMerge, MergeFirst, MergeFill, MergeDuplicate, MergeMoved, MergeTooLate

\* Inside the window: forwarded if its position was not, dropped otherwise.
LEMMA MergeInside ==
    ASSUME TypeOK, initialized, NEW S, NEW t \in Int, Agrees(S, t),
           NEW seq \in Seqs, NEW leg \in Legs, NEW now \in Nat, TryMerge(seq, leg, now),
           ~ IsForward(seq), NEW k \in Slots, k = Backward(seq)
    PROVE  /\ initialized' /\ highest_seq' = highest_seq /\ resets' = resets
           /\ last_break' \in {NoBreak, last_break}
           /\ \/ /\ out' = leg /\ last_accept' = now
                 /\ t - k \notin S /\ Agrees(S \cup {t - k}, t)'
              \/ /\ out' = None /\ last_accept' = last_accept
                 /\ t - k \in S /\ Agrees(S, t)'
<1>1. highest_slot \in Slots /\ k < Window /\ ~ (k >= Window)
  BY WindowAssumption DEF TypeOK, Slots
<1>2. CASE MergeFill(seq, leg, now)
  <2>1. /\ highest_slot' = highest_slot /\ highest_seq' = highest_seq /\ initialized'
        /\ SlotBehind(k) \notin emitted /\ emitted' = emitted \cup {SlotBehind(k)}
        /\ Accept(leg, now, moved, last_break) /\ resets' = resets
    BY <1>2 DEF MergeFill, countVars
  <2>2. Agrees(S \cup {t - k}, t)'
    BY <1>1, <2>1, FillAgrees
  <2>3. t - k \notin S
    BY <2>1 DEF Agrees
  <2> QED BY <2>1, <2>2, <2>3 DEF Accept
<1>3. CASE MergeDuplicate(seq, leg, now)
  <2>1. /\ highest_slot' = highest_slot /\ highest_seq' = highest_seq /\ initialized'
        /\ SlotBehind(k) \in emitted /\ emitted' = emitted
        /\ out' = None /\ last_accept' = last_accept /\ last_break' = last_break
        /\ resets' = resets
    BY <1>3 DEF MergeDuplicate, windowVars, legVars, countVars
  <2>2. Agrees(S, t)'
    BY <2>1, UnmovedAgrees
  <2>3. t - k \in S
    BY <2>1 DEF Agrees
  <2> QED BY <2>1, <2>2, <2>3
<1> QED
  BY <1>1, <1>2, <1>3
     DEF TryMerge, MergeFirst, MergeJump, MergeAdvance, MergeMoved, MergeTooLate

\* Too far behind, and the stream has not moved: dropped.
LEMMA MergeLate ==
    ASSUME initialized, NEW S, NEW t, Agrees(S, t),
           NEW seq \in Seqs, NEW leg \in Legs, NEW now \in Nat, TryMerge(seq, leg, now),
           ~ IsForward(seq), ~ (Backward(seq) < Window),
           ~ StreamMoved(seq, leg, leg_seq[leg], now)
    PROVE  /\ initialized' /\ highest_seq' = highest_seq /\ last_accept' = last_accept
           /\ out' = None /\ last_break' = BreakWith(seq, leg, leg_seq[leg])
           /\ resets' = resets /\ Agrees(S, t)'
<1>1. MergeTooLate(seq, leg, now)
  BY DEF TryMerge, MergeFirst, MergeJump, MergeAdvance, MergeFill, MergeDuplicate, MergeMoved
<1> QED
  BY <1>1, UnmovedAgrees DEF MergeTooLate, windowVars, countVars

----------------------------------------------------------------------------
(* The seqs of a stream that does not move. *)

SeqAt(i) == (FirstSeq + i) % SeqSpace

LEMMA SeqAtType ==
    ASSUME NEW i \in Nat
    PROVE  /\ SeqSpace \in Nat \ {0}
           /\ SeqAt(i) \in Seqs
           /\ move = NotMoved => SeqOf(i) = SeqAt(i)
<1>1. SeqSpace \in Nat \ {0}
  BY WindowAssumption, HalfAssumption DEF SeqSpace
<1>2. FirstSeq + i \in Nat
  BY <1>1, PairAssumption DEF Seqs
<1>3. SeqAt(i) \in Seqs
  BY <1>1, <1>2 DEF SeqAt, Seqs
<1>4. ASSUME move = NotMoved PROVE SeqOf(i) = SeqAt(i)
  <2>1. move.shift = 0
    BY <1>4 DEF NotMoved
  <2>2. SeqOf(i) = (FirstSeq + i + 0) % SeqSpace
    BY <2>1 DEF SeqOf
  <2>3. FirstSeq + i + 0 = FirstSeq + i
    BY <1>2
  <2> QED BY <2>2, <2>3 DEF SeqAt
<1> QED BY <1>1, <1>3, <1>4

\* The seqs of two packets less than the sequence space apart are as far apart.
LEMMA SeqDistance ==
    ASSUME NEW i \in Nat, NEW j \in Nat, j <= i, i - j < SeqSpace
    PROVE  /\ WrappingSub(SeqAt(i), SeqAt(j)) = i - j
           /\ i # j => WrappingSub(SeqAt(j), SeqAt(i)) = SeqSpace - (i - j)
<1>0. PICK n \in Nat \ {0} : n = SeqSpace
  BY SeqAtType
<1>1. PICK x \in Nat, y \in Nat : x = FirstSeq + i /\ y = FirstSeq + j
  BY <1>0, PairAssumption DEF Seqs
<1>2. PICK p \in Nat, q \in Nat : p = x \div n /\ q = y \div n
  BY <1>0
<1>3. PICK a \in 0 .. n - 1, b \in 0 .. n - 1 : a = x % n /\ b = y % n
  BY <1>0
<1>4. x = n * p + a /\ y = n * q + b
  BY <1>2, <1>3
<1>5. PICK k \in Int : k = p - q
  OBVIOUS
<1>6. n * p - n * q = n * k
  BY <1>5
<1>7. x - y = i - j /\ 0 <= x - y /\ x - y < n
  BY <1>0, <1>1, PairAssumption DEF Seqs
<1>8. PICK z \in Int : z = n * k
  OBVIOUS
<1>9. z = (x - y) - (a - b) /\ z > -n /\ z < 2 * n
  BY <1>4, <1>6, <1>7, <1>8
<1>10. k = 0 \/ k = 1
  BY <1>8, <1>9
<1>11. z = 0 \/ z = n
  BY <1>8, <1>10
<1>12. /\ IF a >= b THEN a - b = i - j ELSE a - b + n = i - j
       /\ i # j => IF b >= a THEN b - a = n - (i - j) ELSE b - a + n = n - (i - j)
  BY <1>7, <1>9, <1>11
<1> QED
  BY <1>0, <1>1, <1>3, <1>12 DEF WrappingSub, SeqAt

----------------------------------------------------------------------------
(* The pair while the source does not move. *)

\* The highest packet seen is t: the window is t's, t came no later than the
\* last packet accepted, and only the leading leg's losses can hide a newer one.
Follows(t) ==
    /\ highest_seq = SeqAt(t)
    /\ Agrees(aired, t)
    /\ t <= last_accept /\ last_accept <= clock
    /\ clock - t <= IF Lead \in due THEN MaxMissed + 1 ELSE missed[Lead]

\* The leading leg never breaks its sequence, and the merger follows the stream.
InStep ==
    /\ aired \subseteq 0 .. clock
    /\ last_break.leg # Lead
    /\ ~ initialized => clock = 0 /\ Lead \in due /\ aired = {}
    /\ initialized => \E t \in aired : Follows(t)

PairTypes ==
    /\ TypeOK
    /\ lag \in Nat
    /\ stale_after >= StaleAfterLag(lag)
    /\ due \subseteq DueAt(clock)
    /\ missed \in [Legs -> 0 .. MaxMissed]
    /\ move.shift \in Nat

PairInv ==
    /\ PairTypes
    /\ move = NotMoved /\ lag <= Half => InStep
    /\ NothingDeliveredIsMissed

LEMMA PairStarts ==
    ASSUME PairInit
    PROVE  PairInv
<1>1. TypeOK
  BY InitType DEF PairInit
<1>2. lag \in Nat /\ missed \in [Legs -> 0 .. MaxMissed] /\ clock = 0
  BY PairAssumption DEF PairInit, NetInit, Init
<1>3. due = DueAt(clock) /\ Lead \in due
  BY <1>2, PairAssumption DEF PairInit, NetInit, DueAt, Delay
<1>4. last_break.leg # Lead
  BY LegsAssumption, PairAssumption DEF PairInit, Init, NoBreak
<1>5. aired = {} /\ here = None /\ ~ initialized
  BY DEF PairInit, NetInit, Init
<1>6. stale_after >= StaleAfterLag(lag)
  BY <1>2, PairAssumption DEF PairInit, StaleAfterLag
<1> QED
  BY <1>1, <1>2, <1>3, <1>4, <1>5, <1>6
     DEF PairInv, PairTypes, InStep, NothingDeliveredIsMissed, PairInit, NetInit, NotMoved

\* The packet a leg brings is one the source has sent, with a seq of its stream.
LEMMA Delivered ==
    ASSUME PairTypes, NEW l \in Legs, l \in due
    PROVE  /\ clock - Delay(l) \in Nat /\ clock - Delay(l) <= clock
           /\ clock - (clock - Delay(l)) <= lag
           /\ SeqOf(clock - Delay(l)) \in Seqs
<1>1. clock \in Nat /\ Delay(l) \in Nat /\ Delay(l) <= lag /\ Delay(l) <= clock
  BY DEF PairTypes, TypeOK, DueAt, Delay
<1>2. PICK i \in Nat : i = clock - Delay(l)
  BY <1>1
<1>3. SeqSpace \in Nat \ {0}
  BY SeqAtType
<1>4. FirstSeq \in Nat
  BY <1>3, PairAssumption DEF Seqs
<1>5. PICK s \in Nat : s = FirstSeq + i + (IF i >= move.at THEN move.shift ELSE 0)
  BY <1>4 DEF PairTypes
<1>6. SeqOf(i) \in Seqs
  BY <1>3, <1>5 DEF SeqOf, Seqs
<1> QED BY <1>1, <1>2, <1>6

\* Whatever the merger makes of it, everything keeps its type.
LEMMA DeliverTypes ==
    ASSUME PairTypes, NEW l \in Legs, Deliver(l)
    PROVE  PairTypes'
<1>1. clock' \in Nat /\ clock \in Nat /\ TypeOK
  BY DEF PairTypes, TypeOK, Deliver
<1>2. TryMerge(SeqOf(clock - Delay(l)), l, clock) /\ SeqOf(clock - Delay(l)) \in Seqs
  BY Delivered DEF Deliver
<1>3. TypeOK'
  BY <1>1, <1>2, TryMergeType
<1>4. stale_after' = stale_after
  BY <1>2 DEF TryMerge
<1>5. DueAt(clock)' = DueAt(clock)
  BY DEF Deliver, DueAt, Delay
<1> QED
  BY <1>3, <1>4, <1>5 DEF PairTypes, Deliver, StaleAfterLag

\* A packet that is not newer than the highest is not taken for a moved stream:
\* only the lagging leg brings one, only it ever broke its sequence, and the
\* stale time runs longer than its lag.
LEMMA LateIsNoMove ==
    ASSUME PairTypes, last_break.leg # Lead, NEW l \in Legs, NEW i \in Nat, NEW t \in Nat,
           i = clock - Delay(l), i < t, t <= last_accept, last_accept <= clock,
           NEW seq
    PROVE  l # Lead /\ ~ StreamMoved(seq, l, leg_seq[l], clock)
<1>1. clock \in Nat /\ last_accept \in Nat /\ lag \in Nat /\ last_break \in Breaks
  BY DEF PairTypes, TypeOK
<1>2. l # Lead
  BY <1>1 DEF Delay
<1>3. ~ (clock - last_accept >= stale_after)
  <2>1. /\ stale_after >= lag + Margin /\ stale_after \in Nat /\ Margin \in Nat
        /\ i = clock - lag
    BY <1>2, PairAssumption DEF PairTypes, TypeOK, StaleAfterLag, Delay
  <2> QED BY <1>1, <2>1
<1>4. ASSUME last_break # NoBreak, last_break.leg # l PROVE FALSE
  <2>1. last_break.leg \in Legs
    BY <1>1, <1>4 DEF Breaks
  <2> QED BY <1>2, <1>4, <2>1, PairAssumption
<1> QED
  BY <1>2, <1>3, <1>4 DEF StreamMoved

\* A packet of the stream against the highest one: newer packets are ahead of
\* the window, older ones behind it by as much as they are older.
LEMMA AgainstHighest ==
    ASSUME NEW i \in Nat, NEW t \in Nat, highest_seq = SeqAt(t),
           i - t < Half, t - i <= Half
    PROVE  /\ i > t => Forward(SeqAt(i)) = i - t
           /\ i <= t => ~ IsForward(SeqAt(i)) /\ Backward(SeqAt(i)) = t - i
<1>1. Half \in Nat /\ Half > 0 /\ SeqSpace = 2 * Half
  BY WindowAssumption, HalfAssumption DEF SeqSpace
<1>2. ASSUME i > t PROVE Forward(SeqAt(i)) = i - t
  BY <1>1, <1>2, SeqDistance DEF Forward
<1>3. ASSUME i <= t PROVE ~ IsForward(SeqAt(i)) /\ Backward(SeqAt(i)) = t - i
  <2>1. i <= t /\ t - i < SeqSpace
    BY <1>1, <1>3
  <2>2. Backward(SeqAt(i)) = t - i
    BY <2>1, SeqDistance DEF Backward
  <2>3. CASE i = t
    <3>1. Forward(SeqAt(i)) = i - t
      BY <2>1, <2>3, SeqDistance DEF Forward
    <3> QED BY <2>2, <2>3, <3>1 DEF IsForward
  <2>4. CASE i # t
    <3>1. Forward(SeqAt(i)) = SeqSpace - (t - i)
      BY <2>1, <2>4, SeqDistance DEF Forward
    <3>2. ~ (SeqSpace - (t - i) < Half)
      BY <1>1
    <3> QED BY <2>2, <3>1, <3>2 DEF IsForward
  <2> QED BY <2>3, <2>4
<1> QED BY <1>2, <1>3

\* A packet of the stream against a window that agrees with the positions S: a
\* newer one moves the window to itself, an older one leaves it in place, and is
\* forwarded if it is inside the window and was not before.
LEMMA StreamOutcome ==
    ASSUME MaxMissed + 1 < Half, PairTypes, lag <= Half, last_break.leg # Lead,
           NEW l \in Legs, l \in due, NEW i \in Nat, i = clock - Delay(l),
           initialized, NEW S, S \subseteq Int, NEW t \in Nat, Agrees(S, t),
           highest_seq = SeqAt(t), t <= last_accept, last_accept <= clock,
           clock - t <= MaxMissed + 1, TryMerge(SeqAt(i), l, clock)
    PROVE  /\ initialized' /\ last_break'.leg # Lead
           /\ i > t => /\ highest_seq' = SeqAt(i) /\ last_accept' = clock
                       /\ out' # None /\ Agrees(S \cup {i}, i)'
           /\ i <= t => /\ highest_seq' = highest_seq /\ resets' = resets
                        /\ last_accept' \in {clock, last_accept}
                        /\ out' # None => t - i < Window /\ i \notin S /\ Agrees(S \cup {i}, t)'
                        /\ out' = None => (t - i < Window => i \in S) /\ Agrees(S, t)'
<1>0. /\ clock \in Nat /\ i <= clock /\ clock - i <= lag /\ lag \in Nat
      /\ last_accept \in Nat /\ MaxMissed \in Nat /\ Half \in Nat
  BY Delivered, PairAssumption, HalfAssumption DEF PairTypes, TypeOK
<1>1. i - t < Half /\ t - i <= Half
  BY <1>0
<1>2. PICK seq \in Seqs : seq = SeqAt(i)
  BY SeqAtType
<1>3. TryMerge(seq, l, clock)
  BY <1>2
<1>5. TypeOK /\ NoBreak.leg # Lead /\ l # None
  BY LegsAssumption, PairAssumption DEF PairTypes, NoBreak
<1>7. CASE i > t
  <2>1. PICK f \in Nat : f = i - t
    BY <1>7
  <2>2. f = Forward(seq)
    BY <1>1, <1>2, <1>7, <2>1, AgainstHighest
  <2>3. f > 0 /\ f < Half /\ i = t + f /\ i \in Int /\ t \in Int
    BY <1>1, <1>7, <2>1, HalfAssumption
  <2>4. /\ out' = l /\ initialized' /\ last_accept' = clock /\ highest_seq' = seq
        /\ last_break' \in {NoBreak, last_break} /\ Agrees(S \cup {i}, i)'
    BY <1>0, <1>3, <1>5, <2>2, <2>3, MergeAhead
  <2> QED BY <1>2, <1>5, <1>7, <2>4
<1>8. CASE i <= t /\ t - i < Window
  <2>1. PICK k \in Slots : k = t - i
    BY <1>8, WindowAssumption DEF Slots
  <2>2. k = Backward(seq) /\ ~ IsForward(seq) /\ t - k = i
    BY <1>1, <1>2, <1>8, <2>1, AgainstHighest
  <2>3. /\ initialized' /\ highest_seq' = highest_seq /\ resets' = resets
        /\ last_break' \in {NoBreak, last_break}
        /\ \/ /\ out' = l /\ last_accept' = clock
              /\ t - k \notin S /\ Agrees(S \cup {t - k}, t)'
           \/ /\ out' = None /\ last_accept' = last_accept
              /\ t - k \in S /\ Agrees(S, t)'
    BY <1>0, <1>3, <1>5, <2>2, MergeInside
  <2>4. /\ last_accept' \in {clock, last_accept}
        /\ out' # None => i \notin S /\ Agrees(S \cup {i}, t)'
        /\ out' = None => i \in S /\ Agrees(S, t)'
    BY <1>5, <2>2, <2>3
  <2> QED BY <1>0, <1>5, <1>8, <2>3, <2>4
<1>9. CASE i <= t /\ ~ (t - i < Window)
  <2>1. ~ IsForward(seq) /\ ~ (Backward(seq) < Window) /\ i < t
    <3>1. i < t
      BY <1>9, WindowAssumption
    <3>2. ~ IsForward(seq) /\ Backward(seq) = t - i
      BY <1>1, <1>2, <1>9, AgainstHighest
    <3> QED BY <1>9, <3>1, <3>2
  <2>2. l # Lead /\ ~ StreamMoved(seq, l, leg_seq[l], clock)
    BY <1>0, <1>5, <2>1, LateIsNoMove
  <2>3. /\ initialized' /\ highest_seq' = highest_seq /\ last_accept' = last_accept
        /\ out' = None /\ last_break' = BreakWith(seq, l, leg_seq[l])
        /\ resets' = resets /\ Agrees(S, t)'
    BY <1>0, <1>3, <1>5, <2>1, <2>2, MergeLate
  <2>4. last_break'.leg # Lead
    BY <1>5, <2>2, <2>3 DEF BreakWith
  <2> QED BY <1>0, <1>9, <2>3, <2>4
<1> QED BY <1>7, <1>8, <1>9

\* What a leg brings while the source does not move.
LEMMA DeliverOutcome ==
    ASSUME MaxMissed + 1 < Half, PairTypes, InStep, move = NotMoved, lag <= Half,
           NEW l \in Legs, Deliver(l), initialized,
           NEW t \in Nat, t \in aired, Follows(t),
           NEW i \in Nat, i = clock - Delay(l)
    PROVE  /\ initialized' /\ last_break'.leg # Lead
           /\ i > t => /\ highest_seq' = SeqAt(i) /\ Agrees(aired, i)'
                       /\ last_accept' = clock /\ i \in aired' /\ out' # None
           /\ i <= t => /\ highest_seq' = highest_seq /\ Agrees(aired, t)'
                        /\ last_accept' \in {clock, last_accept}
                        /\ t - i < Window => i \in aired'
                        /\ out' # None => i \notin aired
           /\ aired' \in {aired, aired \cup {i}}
<1>1. PICK S : S = aired
  OBVIOUS
<1>2. /\ S \subseteq Int /\ Agrees(S, t) /\ highest_seq = SeqAt(t)
      /\ t <= last_accept /\ last_accept <= clock /\ last_break.leg # Lead
  BY <1>1 DEF Follows, InStep
<1>3. l \in due /\ TryMerge(SeqAt(i), l, clock)
  BY SeqAtType DEF Deliver
<1>4. clock - t <= MaxMissed + 1
  <2>1. missed[Lead] \in 0 .. MaxMissed /\ MaxMissed \in Nat /\ clock \in Nat
    BY PairAssumption DEF PairTypes, TypeOK
  <2> QED BY <2>1 DEF Follows
<1>5. /\ initialized' /\ last_break'.leg # Lead
      /\ i > t => /\ highest_seq' = SeqAt(i) /\ last_accept' = clock
                  /\ out' # None /\ Agrees(S \cup {i}, i)'
      /\ i <= t => /\ highest_seq' = highest_seq
                   /\ last_accept' \in {clock, last_accept}
                   /\ out' # None => t - i < Window /\ i \notin S /\ Agrees(S \cup {i}, t)'
                   /\ out' = None => (t - i < Window => i \in S) /\ Agrees(S, t)'
  BY <1>2, <1>3, <1>4, StreamOutcome
<1>6. CASE out' = None
  <2>1. aired' = S
    BY <1>1, <1>6 DEF Deliver
  <2>2. ASSUME Agrees(S, t)' PROVE Agrees(aired, t)'
    BY <2>1, <2>2 DEF Agrees
  <2> QED BY <1>1, <1>5, <1>6, <2>1, <2>2
<1>7. CASE out' # None
  <2>1. aired' = S \cup {i}
    BY <1>1, <1>7 DEF Deliver
  <2>2. ASSUME NEW u \in {i, t}, Agrees(S \cup {i}, u)' PROVE Agrees(aired, u)'
    BY <2>1, <2>2 DEF Agrees
  <2> QED BY <1>1, <1>5, <1>7, <2>1, <2>2
<1> QED BY <1>6, <1>7

\* The first packet of all.
LEMMA FirstInStep ==
    ASSUME PairTypes, InStep, move = NotMoved, NEW l \in Legs, Deliver(l), ~ initialized
    PROVE  InStep' /\ here' \in aired' /\ aired = {}
<1>1. clock = 0 /\ aired = {} /\ last_break.leg # Lead
  BY DEF InStep
<1>2. clock - Delay(l) = 0
  BY <1>1, Delivered DEF Deliver
<1>3. MergeFirst(SeqAt(0), l, 0)
  <2>1. SeqOf(0) = SeqAt(0)
    BY SeqAtType
  <2> QED
    BY <1>1, <1>2, <2>1 DEF Deliver, TryMerge, MergeJump, MergeAdvance, MergeFill,
       MergeDuplicate, MergeMoved, MergeTooLate
<1>4. /\ initialized' /\ highest_seq' = SeqAt(0) /\ highest_slot' = 0 /\ emitted' = {0}
      /\ last_accept' = 0 /\ out' # None /\ last_break'.leg # Lead
  BY <1>1, <1>3, LegsAssumption, PairAssumption DEF MergeFirst, Anchor, Accept, NoBreak
<1>5. aired' = {0} /\ here' = 0 /\ clock' = 0
  BY <1>1, <1>2, <1>4 DEF Deliver
<1>6. Agrees(aired, 0)'
  <2>1. PICK S : S = {}
    OBVIOUS
  <2>2. S \subseteq Int /\ 0 \in Int /\ \A p \in S : p <= 0 - Window
    BY <2>1
  <2>3. Agrees(S \cup {0}, 0)'
    BY <1>4, <2>2, AnchorAgrees
  <2> QED BY <1>5, <2>1, <2>3 DEF Agrees
<1>7. clock' - 0 <= IF Lead \in due' THEN MaxMissed + 1 ELSE missed'[Lead]
  <2>1. missed'[Lead] \in 0 .. MaxMissed /\ MaxMissed \in Nat
    BY PairAssumption DEF Deliver, PairTypes
  <2> QED BY <1>5, <2>1
<1>8. Follows(0)'
  BY <1>4, <1>5, <1>6, <1>7 DEF Follows
<1> QED
  BY <1>1, <1>4, <1>5, <1>8 DEF InStep

\* A packet brought while the source does not move keeps the merger in step.
LEMMA DeliverInStep ==
    ASSUME MaxMissed + 1 < Half, PairTypes, InStep, move = NotMoved, lag <= Half,
           NEW l \in Legs, Deliver(l)
    PROVE  /\ InStep'
           /\ lag < Window => here' \in aired'
           /\ (\E i \in aired : i >= here') => UNCHANGED highest_seq
<1>1. CASE ~ initialized
  BY <1>1, FirstInStep
<1>2. CASE initialized
  <2>1. PICK t \in aired : Follows(t)
    BY <1>2 DEF InStep
  <2>2. /\ t \in Nat /\ clock \in Nat /\ lag \in Nat
    BY DEF InStep, PairTypes, TypeOK
  <2>3. PICK i \in Nat : i = clock - Delay(l)
    BY Delivered DEF Deliver
  <2>4. /\ i <= clock /\ clock - i <= lag
    BY <2>3, Delivered DEF Deliver
  <2>5. /\ initialized' /\ last_break'.leg # Lead
        /\ i > t => /\ highest_seq' = SeqAt(i) /\ Agrees(aired, i)'
                    /\ last_accept' = clock /\ i \in aired' /\ out' # None
        /\ i <= t => /\ highest_seq' = highest_seq /\ Agrees(aired, t)'
                     /\ last_accept' \in {clock, last_accept}
                     /\ t - i < Window => i \in aired'
        /\ aired' \in {aired, aired \cup {i}}
    BY <1>2, <2>1, <2>2, <2>3, DeliverOutcome
  <2>6. /\ here' = i /\ clock' = clock /\ lag' = lag /\ missed' = missed
        /\ due' = due \ {l} /\ move' = move
    BY <2>3 DEF Deliver
  <2>7. /\ t <= last_accept /\ last_accept <= clock /\ t <= clock
        /\ clock - t <= IF Lead \in due THEN MaxMissed + 1 ELSE missed[Lead]
        /\ missed[Lead] \in 0 .. MaxMissed /\ MaxMissed \in Nat /\ last_accept \in Nat
        /\ \A p \in aired : p <= t
    BY <2>1, <2>2, PairAssumption DEF Follows, PairTypes, TypeOK, Agrees
  <2>8. aired' \subseteq 0 .. clock'
    <3>1. aired \subseteq 0 .. clock /\ i \in 0 .. clock
      BY <2>2, <2>4 DEF InStep
    <3> QED BY <2>5, <2>6, <3>1
  <2>9. \E u \in aired' : Follows(u)'
    <3>1. l = Lead => i = clock
      BY <2>2, <2>3 DEF Delay
    <3>2. CASE i > t
      <4>1. clock - i <= IF Lead \in due' THEN MaxMissed + 1 ELSE missed'[Lead]
        BY <2>2, <2>4, <2>6, <2>7, <3>1, <3>2
      <4>2. Follows(i)'
        BY <2>2, <2>4, <2>5, <2>6, <3>2, <4>1 DEF Follows
      <4> QED BY <2>5, <3>2, <4>2
    <3>3. CASE i <= t
      <4>1. clock - t <= IF Lead \in due' THEN MaxMissed + 1 ELSE missed'[Lead]
        BY <2>2, <2>4, <2>6, <2>7, <3>1, <3>3
      <4>2. highest_seq' = SeqAt(t)
        BY <2>1, <2>5, <3>3 DEF Follows
      <4>3. t <= last_accept' /\ last_accept' <= clock
        BY <2>2, <2>5, <2>7, <3>3
      <4>4. Follows(t)'
        BY <2>5, <2>6, <3>3, <4>1, <4>2, <4>3 DEF Follows
      <4> QED BY <2>5, <4>4
    <3> QED BY <2>2, <3>2, <3>3
  <2>10. lag < Window => i \in aired'
    <3>1. lag < Window /\ i <= t => t - i < Window
      BY <2>2, <2>4, <2>7, WindowAssumption
    <3> QED BY <2>2, <2>5, <3>1
  <2>11. ASSUME NEW p \in aired, p >= here' PROVE UNCHANGED highest_seq
    <3>1. p \in Int /\ p <= t /\ p >= i
      BY <2>2, <2>6, <2>7, <2>11 DEF InStep
    <3>2. i <= t
      BY <2>2, <3>1
    <3> QED BY <2>5, <3>2
  <2> QED
    BY <2>5, <2>6, <2>8, <2>9, <2>10, <2>11 DEF InStep
<1> QED BY <1>1, <1>2

\* The next tick: a packet lost on the leading leg is one more in its outage.
LEMMA TickKeeps ==
    ASSUME PairTypes, NEW losing \in SUBSET Legs, Tick(losing)
    PROVE  PairTypes' /\ (move = NotMoved /\ InStep => InStep')
<1>1. /\ clock \in Nat /\ clock' = clock + 1 /\ lag' = lag /\ move' = move
      /\ due = {} /\ aired' = aired /\ MaxMissed \in Nat /\ lag \in Nat
  BY PairAssumption DEF Tick, PairTypes, TypeOK
<1>2. missed' \in [Legs -> 0 .. MaxMissed]
  BY <1>1 DEF Tick, PairTypes
<1>3. DueAt(clock)' = DueAt(clock + 1)
  BY <1>1 DEF DueAt, Delay
<1>4. TypeOK'
  BY <1>1 DEF PairTypes, TypeOK, Tick, mergerVars, windowVars, countVars, legVars
<1>5. PairTypes'
  BY <1>1, <1>2, <1>3, <1>4 DEF PairTypes, Tick, mergerVars, StaleAfterLag
<1>6. ASSUME move = NotMoved, InStep PROVE InStep'
  <2>1. initialized /\ initialized' /\ last_break' = last_break
    BY <1>1, <1>6 DEF InStep, Tick, mergerVars, legVars
  <2>2. PICK t \in aired : Follows(t)
    BY <1>6, <2>1 DEF InStep
  <2>3. t \in Nat /\ last_accept \in Nat /\ clock - t <= missed[Lead] /\ missed[Lead] \in 0 .. MaxMissed
    BY <1>1, <1>6, <2>2, PairAssumption DEF InStep, Follows, PairTypes, TypeOK
  <2>4. clock' - t <= IF Lead \in due' THEN MaxMissed + 1 ELSE missed'[Lead]
    <3>1. Lead \in DueAt(clock + 1)
      BY <1>1, PairAssumption DEF DueAt, Delay
    <3>2. CASE Lead \in losing
      BY <1>1, <2>3, <3>2, PairAssumption DEF Tick
    <3>3. CASE Lead \notin losing
      <4>1. Lead \in due'
        BY <3>1, <3>3 DEF Tick
      <4> QED BY <1>1, <2>3, <4>1
    <3> QED BY <3>2, <3>3
  <2>5. Agrees(aired, t)'
    <3>1. PICK S : S = aired
      OBVIOUS
    <3>2. Agrees(S, t)'
      BY <2>2, <3>1, UnmovedAgrees DEF Follows, Tick, mergerVars, windowVars
    <3> QED BY <1>1, <3>1, <3>2 DEF Agrees
  <2>6. highest_seq' = SeqAt(t) /\ t <= last_accept' /\ last_accept' <= clock'
    <3>1. highest_seq' = highest_seq /\ last_accept' = last_accept
      BY DEF Tick, mergerVars, windowVars, legVars
    <3> QED BY <1>1, <2>2, <2>3, <3>1 DEF Follows
  <2>7. Follows(t)'
    BY <2>4, <2>5, <2>6 DEF Follows
  <2>8. aired' \subseteq 0 .. clock'
    BY <1>1, <1>6 DEF InStep
  <2> QED
    BY <1>1, <1>6, <2>1, <2>2, <2>7, <2>8 DEF InStep
<1> QED BY <1>5, <1>6

\* A restart of the source keeps every type, and is one.
LEMMA MoveTypes ==
    ASSUME PairTypes, NEW shift \in NewIsns, MoveSource(shift)
    PROVE  PairTypes' /\ move' # NotMoved
<1>1. shift \in Nat /\ shift # 0
  BY PairAssumption
<1>2. move'.shift = shift /\ NotMoved.shift = 0
  BY DEF MoveSource, NotMoved
<1>3. TypeOK'
  BY DEF MoveSource, PairTypes, TypeOK, mergerVars, windowVars, countVars, legVars
<1>4. DueAt(clock)' = DueAt(clock)
  BY DEF MoveSource, DueAt, Delay
<1>5. PairTypes'
  BY <1>1, <1>2, <1>3, <1>4 DEF PairTypes, MoveSource, mergerVars, StaleAfterLag
<1> QED BY <1>1, <1>2, <1>5

LEMMA PairStep ==
    ASSUME MaxMissed + 1 < Half, PairInv, [PairNext]_pairVars
    PROVE  PairInv'
<1>0. PairTypes /\ NothingDeliveredIsMissed /\ (move = NotMoved /\ lag <= Half => InStep)
  BY DEF PairInv
<1>1. CASE \E l \in Legs : Deliver(l)
  <2>1. PICK l \in Legs : Deliver(l)
    BY <1>1
  <2>2. PairTypes' /\ move' = move /\ lag' = lag
    BY <1>0, <2>1, DeliverTypes DEF Deliver
  <2>3. lag < Window => lag <= Half
    BY <1>0, WindowAssumption, HalfAssumption DEF PairTypes
  <2>4. move = NotMoved /\ lag <= Half => InStep' /\ (lag < Window => here' \in aired')
    BY <1>0, <2>1, DeliverInStep
  <2> QED BY <2>2, <2>3, <2>4 DEF PairInv, NothingDeliveredIsMissed, NotMoved
<1>2. CASE \E losing \in SUBSET Legs : Tick(losing)
  <2>1. PICK losing \in SUBSET Legs : Tick(losing)
    BY <1>2
  <2>2. /\ PairTypes' /\ (move = NotMoved /\ InStep => InStep')
    BY <1>0, <2>1, TickKeeps
  <2>3. move' = move /\ lag' = lag /\ here' = here /\ aired' = aired
    BY <2>1 DEF Tick
  <2> QED BY <1>0, <2>2, <2>3 DEF PairInv, NothingDeliveredIsMissed, NotMoved
<1>3. CASE \E shift \in NewIsns : MoveSource(shift)
  <2>1. PICK shift \in NewIsns : MoveSource(shift)
    BY <1>3
  <2>2. PairTypes' /\ move' # NotMoved
    BY <1>0, <2>1, MoveTypes
  <2> QED BY <2>2 DEF PairInv, NothingDeliveredIsMissed, NotMoved
<1>4. CASE UNCHANGED pairVars
  <2>1. /\ UNCHANGED <<lag, due, missed, move, here, aired, clock, out>>
        /\ UNCHANGED <<highest_seq, highest_slot, emitted, last_accept, last_break, initialized>>
        /\ UNCHANGED <<covered, reset_tail, lost, skipped, resets, leg_seq, moved, active_leg, stale_after>>
    BY <1>4 DEF pairVars, vars, netVars, mergerVars, windowVars, countVars, legVars
  <2>2. PairTypes'
    BY <1>0, <2>1 DEF PairTypes, TypeOK, DueAt, Delay, StaleAfterLag
  <2>3. InStep => InStep'
    BY <2>1 DEF InStep, Follows, Agrees, SlotBehind, Wrap
  <2> QED BY <1>0, <2>1, <2>2, <2>3 DEF PairInv, NothingDeliveredIsMissed, NotMoved
<1> QED
  BY <1>1, <1>2, <1>3, <1>4 DEF PairNext

(* With legs less than a window apart, every packet either leg delivers goes  *)
(* out, for every window, lag and outage shorter than half the sequence       *)
(* space, as long as the source does not restart: no path through advance,    *)
(* reanchor and the too-late branch of try_merge drops a packet no copy of    *)
(* which was forwarded.                                                       *)
THEOREM PairDeliversAll ==
    ASSUME MaxMissed + 1 < Half
    PROVE  PairSpec => []NothingDeliveredIsMissed
<1>1. PairInit => PairInv
  BY PairStarts
<1>2. PairInv /\ [PairNext]_pairVars => PairInv'
  BY PairStep
<1>3. PairInv => NothingDeliveredIsMissed
  BY DEF PairInv
<1> QED
  BY <1>1, <1>2, <1>3, PTL DEF PairSpec

(* A leg that only lags never moves the window, however long its lag up to    *)
(* half the sequence space and whatever is lost on the way: its old packets   *)
(* fill gaps or are dropped, and neither branch of StreamMoved takes them for *)
(* a moved stream - the stale time outlasts the lag, and the leading leg      *)
(* never breaks its sequence at the same packet.                              *)
THEOREM LagNeverMovesWindow ==
    ASSUME MaxMissed + 1 < Half, \A d \in Lags : d <= Half
    PROVE  PairSpec => LaggingLegNeverMovesWindow
<1> DEFINE Inv == PairInv /\ lag \in Lags
<1>1. PairInit => Inv
  BY PairStarts DEF PairInit, NetInit
<1>2. Inv /\ [PairNext]_pairVars => Inv'
  <2>1. [PairNext]_pairVars => lag' = lag
    BY DEF PairNext, Deliver, Tick, MoveSource, pairVars
  <2> QED BY <2>1, PairStep
<1>3. Inv /\ [PairNext]_pairVars =>
        [move = NotMoved /\ (\E i \in aired : i >= here') => UNCHANGED highest_seq]_pairVars
  <2> SUFFICES ASSUME Inv, [PairNext]_pairVars, move = NotMoved,
                      \E i \in aired : i >= here'
               PROVE  UNCHANGED highest_seq
    OBVIOUS
  <2>1. PairTypes /\ lag <= Half /\ InStep
    BY DEF PairInv
  <2>2. CASE \E l \in Legs : Deliver(l)
    BY <2>1, <2>2, DeliverInStep
  <2>3. CASE ~ \E l \in Legs : Deliver(l)
    BY <2>3 DEF PairNext, Tick, MoveSource, pairVars, vars, mergerVars, windowVars
  <2> QED BY <2>2, <2>3
<1> QED
  BY <1>1, <1>2, <1>3, PTL DEF PairSpec, LaggingLegNeverMovesWindow

----------------------------------------------------------------------------
(* What try_merge does with a packet, whatever the stream. *)

\* The packet was forwarded: its leg's break is forgotten, the other's kept or not.
Taken(leg, now) ==
    /\ initialized' /\ out' = leg /\ last_accept' = now
    /\ moved' = moved \ {leg}
    /\ \A m \in Legs : last_break'.leg = m => m # leg /\ last_break' = last_break

\* The packet was dropped: it may have broken its leg's sequence.
Refused(seq, leg, now) ==
    /\ initialized' /\ out' = None /\ last_accept' = last_accept
    /\ UNCHANGED <<highest_seq, highest_slot, emitted>>
    /\ \/ Backward(seq) < Window
       \/ /\ ~ StreamMoved(seq, leg, leg_seq[leg], now)
          /\ leg_seq[leg] # None /\ BreaksLeg(seq, leg_seq[leg]) => leg \in moved'
    /\ moved \subseteq moved'
    /\ \A m \in moved' \ moved :
          /\ m = leg /\ leg_seq[leg] # None /\ BreaksLeg(seq, leg_seq[leg])
          /\ ~ StreamMoved(seq, leg, leg_seq[leg], now)
    /\ \A m \in Legs : last_break'.leg = m =>
          \/ last_break' = last_break
          \/ /\ m = leg /\ BreaksLeg(seq, leg_seq[leg])
             /\ leg_seq[leg] = None => last_break'.first

\* The window moved f ahead to seq: the bits of what was behind it stay with it.
MovesAhead(seq, f) ==
    /\ highest_seq' = seq
    /\ SlotBehind(0)' \in emitted'
    /\ \A n \in Slots : n + f \in Slots /\ SlotBehind(n) \in emitted
          => SlotBehind(n + f)' \in emitted'

LEMMA AcceptTakes ==
    ASSUME NEW leg \in Legs, NEW now, initialized', NEW seq, NEW prev,
           \/ Accept(leg, now, moved, last_break)
           \/ Accept(leg, now, MovedWith(seq, leg, prev), BreakWith(seq, leg, prev))
    PROVE  Taken(leg, now)
<1>1. NoBreak.leg \notin Legs
  BY LegsAssumption DEF NoBreak
<1> QED BY <1>1 DEF Accept, Taken, MovedWith, BreakWith

LEMMA WindowAhead ==
    ASSUME TypeOK, initialized, NEW seq \in Seqs, NEW leg \in Legs, NEW now \in Nat,
           TryMerge(seq, leg, now), IsForward(seq)
    PROVE  Taken(leg, now) /\ \E f \in Nat : f = Forward(seq) /\ MovesAhead(seq, f)
<1>0. PICK f \in Nat : f = Forward(seq) /\ f > 0 /\ f < Half
  BY WrappingSubType DEF TypeOK, IsForward, Forward, Seqs
<1>1. MergeJump(seq, leg, now) \/ MergeAdvance(seq, leg, now)
  BY DEF TryMerge, MergeFirst, MergeFill, MergeDuplicate, MergeMoved, MergeTooLate
<1>2. Taken(leg, now)
  BY <1>1, AcceptTakes DEF MergeJump, MergeAdvance
<1>3. PICK S : S = {x \in Int : 0 - x \in Slots /\ SlotBehind(0 - x) \in emitted}
  OBVIOUS
<1>4. \A n \in Slots : n \in Int /\ 0 - (0 - n) = n
  BY WindowAssumption DEF Slots
<1>5. Agrees(S, 0) /\ S \subseteq Int
  BY <1>3, <1>4, WindowAssumption DEF Agrees, Slots
<1>6. highest_seq' = seq /\ Agrees(S \cup {f}, f)'
  <2>1. 0 \in Int /\ f \in Int /\ f = 0 + f
    OBVIOUS
  <2> QED BY <1>0, <1>5, <2>1, MergeAhead
<1>7. SlotBehind(0)' \in emitted'
  <2>1. 0 \in Slots /\ f - 0 \in S \cup {f}
    BY WindowAssumption DEF Slots
  <2> QED BY <1>6, <2>1 DEF Agrees
<1>8. ASSUME NEW n \in Slots, n + f \in Slots, SlotBehind(n) \in emitted
      PROVE  SlotBehind(n + f)' \in emitted'
  <2>1. 0 - n \in S /\ f - (n + f) = 0 - n
    BY <1>0, <1>3, <1>4, <1>8
  <2>2. f - (n + f) \in S \cup {f}
    BY <2>1
  <2> QED BY <1>6, <1>8, <2>2 DEF Agrees
<1> QED BY <1>0, <1>2, <1>6, <1>7, <1>8 DEF MovesAhead

LEMMA Outcomes ==
    ASSUME TypeOK, initialized, NEW seq \in Seqs, NEW leg \in Legs, NEW now \in Nat,
           TryMerge(seq, leg, now)
    PROVE  \/ /\ IsForward(seq) /\ Taken(leg, now)
              /\ \E f \in Nat : f = Forward(seq) /\ MovesAhead(seq, f)
           \/ /\ ~ IsForward(seq) /\ Backward(seq) < Window
              /\ SlotBehind(Backward(seq)) \notin emitted
              /\ Taken(leg, now) /\ UNCHANGED <<highest_seq, highest_slot>>
              /\ emitted' = emitted \cup {SlotBehind(Backward(seq))}
           \/ /\ ~ IsForward(seq) /\ StreamMoved(seq, leg, leg_seq[leg], now)
              /\ Taken(leg, now) /\ highest_seq' = seq /\ highest_slot' = 0 /\ emitted' = {0}
           \/ ~ IsForward(seq) /\ Refused(seq, leg, now)
<1>1. CASE MergeJump(seq, leg, now) \/ MergeAdvance(seq, leg, now)
  BY <1>1, WindowAhead DEF MergeJump, MergeAdvance
<1>2. CASE MergeFill(seq, leg, now)
  BY <1>2, AcceptTakes DEF MergeFill
<1>3. CASE MergeMoved(seq, leg, now)
  BY <1>3, AcceptTakes DEF MergeMoved, Reanchor
<1>4. CASE MergeDuplicate(seq, leg, now)
  BY <1>4 DEF MergeDuplicate, Refused, windowVars, legVars
<1>5. CASE MergeTooLate(seq, leg, now)
  BY <1>5 DEF MergeTooLate, Refused, windowVars, MovedWith, BreakWith
<1> QED BY <1>1, <1>2, <1>3, <1>4, <1>5 DEF TryMerge, MergeFirst

----------------------------------------------------------------------------
(* The seqs of a stream that moves. *)

\* Where packet i stands, the source's move counted in.
Pos(i) == i + (IF i >= move.at THEN move.shift ELSE 0)

\* w is d around the sequence space.
Around(w, d) ==
    /\ w \in Seqs
    /\ w = d \/ w = d + SeqSpace \/ w = d - SeqSpace \/ w = d + 2 * SeqSpace

LEMMA GapOfRests ==
    ASSUME NEW n \in Nat \ {0}, NEW d \in Int, d < 2 * n, -d <= 2 * n,
           NEW a \in 0 .. n - 1, NEW b \in 0 .. n - 1, NEW k \in Int, d = n * k + (a - b),
           NEW w, w = (IF a >= b THEN a - b ELSE a - b + n)
    PROVE  /\ w \in 0 .. n - 1
           /\ w = d \/ w = d + n \/ w = d - n \/ w = d + 2 * n
<1>1. PICK z \in Int : z = n * k
  OBVIOUS
<1>2. d = z + (a - b)
  BY <1>1
<1>3. z > -3 * n /\ z < 3 * n
  BY <1>2
<1>4. k \in {-2, -1, 0, 1, 2}
  BY <1>1, <1>3
<1>5. z \in {-2 * n, -n, 0, n, 2 * n}
  BY <1>1, <1>4
<1> QED BY <1>2, <1>5

LEMMA SeqGap ==
    ASSUME NEW x \in Nat, NEW y \in Nat, x - y < 2 * SeqSpace, y - x <= 2 * SeqSpace
    PROVE  Around(WrappingSub(x % SeqSpace, y % SeqSpace), x - y)
<1>0. PICK n \in Nat \ {0} : n = SeqSpace
  BY SeqAtType
<1>1. PICK p \in Nat, q \in Nat : p = x \div n /\ q = y \div n
  OBVIOUS
<1>2. PICK a \in 0 .. n - 1, b \in 0 .. n - 1 : a = x % n /\ b = y % n
  OBVIOUS
<1>3. x = n * p + a /\ y = n * q + b
  BY <1>1, <1>2
<1>4. PICK k \in Int : k = p - q
  OBVIOUS
<1>5. n * p - n * q = n * k
  BY <1>4
<1>6. PICK d \in Int : d = x - y
  OBVIOUS
<1>7. d = n * k + (a - b)
  BY <1>3, <1>5, <1>6
<1>8. PICK w : w = (IF a >= b THEN a - b ELSE a - b + n)
  OBVIOUS
<1>9. d < 2 * n /\ -d <= 2 * n
  BY <1>0, <1>6
<1>10. /\ w \in 0 .. n - 1
       /\ w = d \/ w = d + n \/ w = d - n \/ w = d + 2 * n
  BY <1>7, <1>8, <1>9, GapOfRests
<1>11. w = WrappingSub(x % SeqSpace, y % SeqSpace)
  BY <1>0, <1>2, <1>8 DEF WrappingSub
<1> QED BY <1>0, <1>6, <1>10, <1>11 DEF Around, Seqs

LEMMA PosGap ==
    ASSUME move.at \in Nat, move.shift \in Nat, NEW i \in Nat, NEW j \in Nat,
           Pos(i) - Pos(j) < 2 * SeqSpace, Pos(j) - Pos(i) <= 2 * SeqSpace
    PROVE  /\ SeqOf(i) \in Seqs
           /\ Around(WrappingSub(SeqOf(i), SeqOf(j)), Pos(i) - Pos(j))
<1>0. SeqSpace \in Nat \ {0}
  BY SeqAtType
<1>1. FirstSeq \in Nat /\ Pos(i) \in Nat /\ Pos(j) \in Nat
  BY <1>0, PairAssumption DEF Seqs, Pos
<1>2. PICK x \in Nat, y \in Nat : x = FirstSeq + Pos(i) /\ y = FirstSeq + Pos(j)
  BY <1>1
<1>3. SeqOf(i) = x % SeqSpace /\ SeqOf(j) = y % SeqSpace
  BY <1>1, <1>2 DEF SeqOf, Pos
<1>4. x - y = Pos(i) - Pos(j) /\ y - x = Pos(j) - Pos(i)
  BY <1>1, <1>2
<1>5. Around(WrappingSub(x % SeqSpace, y % SeqSpace), x - y)
  BY <1>4, SeqGap
<1>6. x % SeqSpace \in Seqs
  BY <1>0 DEF Seqs
<1> QED BY <1>3, <1>4, <1>5, <1>6

----------------------------------------------------------------------------
(* The pair when the source moves.  p gives, for each leg, the last packet it *)
(* brought, and t is the packet whose seq is the highest.                     *)

\* Packet i belongs to the moved stream.
New(i) == i >= move.at

\* The source moves by less than half the sequence space, the lag included, or
\* by no less than half of it.
Near == move.shift + lag <= Half

\* The next packet a leg may bring, and the packets that a leg may still bring.
Coming(l)  == IF l \in due THEN clock - Delay(l) ELSE clock - Delay(l) + 1
Awaited(j) == \E l \in Legs : j >= Coming(l)

\* A copy of packet j would be dropped: inside the window it is a duplicate.
Safe(j) ==
    /\ Backward(SeqOf(j)) <= Half
    /\ Backward(SeqOf(j)) < Window => SlotBehind(Backward(SeqOf(j))) \in emitted

\* The legs' last packets: no older than an outage, and none newer was aired.
Heard(p) ==
    /\ \A l \in Legs : leg_seq[l] # None =>
          /\ leg_seq[l] = SeqOf(p[l])
          /\ p[l] < Coming(l)
          /\ p[l] >= clock - Delay(l) - (IF l \in due THEN MaxMissed + 1 ELSE missed[l])
    /\ \A j \in aired : \E l \in Legs : leg_seq[l] # None /\ j <= p[l]

\* No leg on the highest packet's stream is ahead of it, but for the leading leg
\* when the other has crossed too; and while the highest packet is an old one, a
\* leg that has crossed has not come round to it again.
Tops(p, t) ==
    /\ highest_seq = SeqOf(t)
    /\ ~ New(t) => \A l \in Legs : IF New(p[l]) THEN p[l] - t <= SeqSpace - move.shift
                                                ELSE t >= p[l]
    /\ New(t) => /\ \A l \in Legs \ {Lead} : New(p[l]) => t >= p[l]
                 /\ (\A l \in Legs \ {Lead} : ~ New(p[l])) => t >= p[Lead]

\* Only the move breaks a leg's sequence; a break is kept while the other leg has
\* not crossed only if no packet of the moved stream was aired.
Broken(p) ==
    /\ \A l \in moved : New(p[l])
    /\ \A l \in Legs : last_break.leg = l =>
          New(p[l]) /\ ((\E m \in Legs : ~ New(p[m])) => \A j \in aired : ~ New(j))

\* Aired packets of which a copy may still come.
NoCopyPasses(p, t) ==
    \A j \in aired : Awaited(j) =>
        /\ Safe(j)
        /\ (New(j) <=> New(t)) => j <= t
        /\ New(j) /\ ~ New(t) /\ Near => Backward(SeqOf(j)) < Window /\ \A l \in Legs : New(p[l])

AfterMove(p, t) ==
    /\ initialized /\ \A l \in Legs : leg_seq[l] # None
    /\ aired \subseteq 0 .. last_accept /\ last_accept <= clock
    /\ Heard(p) /\ Tops(p, t) /\ Broken(p) /\ NoCopyPasses(p, t)

\* The instances: the stale time outlasts the lag, an outage and a window and the
\* lag and a window fit in half the sequence space, and no move of the source
\* lands within the lag of half the space away.
MoveBounds ==
    /\ Margin >= 1 /\ MaxMissed + Window < Half
    /\ \A d \in Lags : d + Window <= Half /\ \A s \in NewIsns : s + d <= Half \/ s >= Half

\* The numbers that the proofs about the moved source are about.
Numbers ==
    /\ Half \in Nat /\ Window \in Nat \ {0} /\ SeqSpace = 2 * Half
    /\ MaxMissed \in Nat /\ MaxMissed + Window < Half
    /\ clock \in Nat /\ last_accept \in Nat /\ missed \in [Legs -> 0 .. MaxMissed]
    /\ lag \in Nat /\ lag + Window <= Half /\ stale_after \in Nat /\ stale_after >= lag + 1
    /\ move.at \in Nat /\ move.shift \in Nat /\ move.shift < SeqSpace
    /\ Near \/ move.shift >= Half
    /\ \A l \in Legs : Delay(l) \in {0, lag}
    /\ Delay(Lead) = 0 /\ \A l \in Legs \ {Lead} : Delay(l) = lag

\* What a delivery leaves alone, and which packet it brings.
LEMMA Brings ==
    ASSUME PairTypes, Numbers, NEW l \in Legs, Deliver(l)
    PROVE  \E i \in Nat :
             /\ i = clock - Delay(l) /\ i = Coming(l) /\ i <= clock /\ i >= clock - lag
             /\ l = Lead => i = clock
             /\ l # Lead => i = clock - lag
             /\ Coming(l)' = i + 1 /\ here' = i
             /\ \A m \in Legs \ {l} : Coming(m)' = Coming(m)
             /\ \A j \in Int : Awaited(j)' => Awaited(j)
             /\ TryMerge(SeqOf(i), l, clock) /\ SeqOf(i) \in Seqs
             /\ UNCHANGED <<clock, missed, move, lag>> /\ due' = due \ {l}
             /\ leg_seq' = [leg_seq EXCEPT ![l] = SeqOf(i)]
             /\ aired' = IF out' = None THEN aired ELSE aired \cup {i}
<1>1. l \in due /\ clock - Delay(l) \in Nat /\ SeqOf(clock - Delay(l)) \in Seqs
  BY Delivered DEF Deliver
<1>2. PICK i \in Nat : i = clock - Delay(l)
  BY <1>1
<1>3. /\ i = Coming(l) /\ i <= clock /\ i >= clock - lag
      /\ l = Lead => i = clock
      /\ l # Lead => i = clock - lag
  BY <1>1, <1>2 DEF Coming, Numbers
<1>4. /\ UNCHANGED <<clock, missed, move, lag>> /\ due' = due \ {l} /\ here' = i
      /\ aired' = IF out' = None THEN aired ELSE aired \cup {i}
      /\ TryMerge(SeqOf(i), l, clock)
  BY <1>2 DEF Deliver
<1>5. leg_seq' = [leg_seq EXCEPT ![l] = SeqOf(i)]
  BY <1>4 DEF TryMerge
<1>6. Delay(l)' = Delay(l) /\ \A m \in Legs : Delay(m)' = Delay(m) /\ Delay(m) \in Nat
  BY <1>4 DEF Delay, Numbers
<1>7. Coming(l)' = i + 1
  BY <1>2, <1>4, <1>6 DEF Coming, Numbers
<1>8. \A m \in Legs \ {l} : Coming(m)' = Coming(m)
  BY <1>4, <1>6 DEF Coming
<1>9. \A j \in Int : Awaited(j)' => Awaited(j)
  <2> SUFFICES ASSUME NEW j \in Int, NEW m \in Legs, j >= Coming(m)' PROVE j >= Coming(m)
    BY DEF Awaited
  <2> QED BY <1>3, <1>7, <1>8
<1> QED BY <1>1, <1>2, <1>3, <1>4, <1>5, <1>7, <1>8, <1>9

\* The legs' last packets after a delivery.
LEMMA HeardOn ==
    ASSUME Numbers, NEW l \in Legs, NEW i \in Nat, NEW p \in [Legs -> Nat],
           NEW q \in [Legs -> Nat], q = [p EXCEPT ![l] = i], Heard(p),
           i = clock - Delay(l), i = Coming(l), Coming(l)' = i + 1,
           \A m \in Legs \ {l} : Coming(m)' = Coming(m), l \in due, SeqOf(i) \in Seqs,
           UNCHANGED <<clock, missed, move, lag>>, due' = due \ {l},
           leg_seq \in [Legs -> Seqs \cup {None}], leg_seq' = [leg_seq EXCEPT ![l] = SeqOf(i)],
           aired' \subseteq aired \cup {i}, aired \subseteq Nat
    PROVE  /\ Heard(q)'
           /\ leg_seq[l] # None => p[l] < i /\ i <= p[l] + MaxMissed + 1
           /\ \A m \in Legs : leg_seq[m] # None => p[m] <= q[m]
<1>0. SeqOf(i) # None
  BY LegsAssumption, HalfAssumption DEF Seqs, SeqSpace
<1>1. \A x \in Nat : SeqOf(x)' = SeqOf(x)
  BY DEF SeqOf
<1>2. \A m \in Legs : Delay(m)' = Delay(m) /\ Delay(m) \in Nat
  BY DEF Delay, Numbers
<1>3. leg_seq[l] # None => p[l] < i /\ i <= p[l] + MaxMissed + 1
  BY DEF Heard, Numbers
<1>4. \A m \in Legs : leg_seq[m] # None => p[m] <= q[m]
  BY <1>3
<1>5. ASSUME NEW m \in Legs, leg_seq'[m] # None
      PROVE  /\ leg_seq'[m] = SeqOf(q[m])'
             /\ q[m] < Coming(m)'
             /\ q[m] >= clock' - Delay(m)' - (IF m \in due' THEN MaxMissed + 1 ELSE missed'[m])
  <2>1. CASE m = l
    BY <1>1, <1>2, <2>1 DEF Numbers
  <2>2. CASE m # l
    BY <1>1, <1>2, <1>5, <2>2 DEF Heard, Numbers
  <2> QED BY <2>1, <2>2
<1>6. ASSUME NEW j \in aired' PROVE \E m \in Legs : leg_seq'[m] # None /\ j <= q[m]
  <2>1. CASE j = i
    BY <1>0, <2>1
  <2>2. CASE j \in aired
    <3>1. PICK m \in Legs : leg_seq[m] # None /\ j <= p[m]
      BY <2>2 DEF Heard
    <3>2. j \in Nat /\ j <= q[m] /\ leg_seq'[m] # None
      BY <1>0, <1>4, <2>2, <3>1
    <3> QED BY <3>2
  <2> QED BY <2>1, <2>2
<1> QED BY <1>3, <1>4, <1>5, <1>6 DEF Heard

\* A leg breaks its own sequence only where it crosses to the moved stream.
LEMMA BreakCrosses ==
    ASSUME Numbers, NEW l \in Legs, NEW i \in Nat, NEW x \in Nat,
           x < i, i <= x + MaxMissed + 1, leg_seq[l] = SeqOf(x), leg_seq[l] # None,
           BreaksLeg(SeqOf(i), leg_seq[l])
    PROVE  New(i) /\ ~ New(x) /\ move.shift # 0
<1>1. SUFFICES ASSUME Pos(i) - Pos(x) = i - x PROVE FALSE
  BY DEF Pos, New, Numbers
<1>2. i - x \in 1 .. MaxMissed + 1 /\ i - x < Half
  BY DEF Numbers
<1>3. Pos(i) \in Nat /\ Pos(x) \in Nat
  BY DEF Pos, Numbers
<1>4. Pos(i) - Pos(x) < 2 * SeqSpace /\ Pos(x) - Pos(i) <= 2 * SeqSpace
  BY <1>1, <1>2, <1>3 DEF Numbers
<1>5. Around(WrappingSub(SeqOf(i), SeqOf(x)), i - x)
  BY <1>1, <1>4, PosGap DEF Numbers
<1>6. WrappingSub(SeqOf(i), SeqOf(x)) < Half
  BY <1>2, <1>5 DEF Around, Seqs, Numbers
<1>7. WrappingSub(SeqOf(i), SeqOf(x)) >= Half
  BY DEF BreaksLeg, BehindWindow
<1>8. WrappingSub(SeqOf(i), SeqOf(x)) \in Nat
  BY <1>5 DEF Around, Seqs, Numbers
<1> QED BY <1>6, <1>7, <1>8 DEF Numbers

\* The breaks after a delivery.
LEMMA BrokenOn ==
    ASSUME Numbers, NEW l \in Legs, NEW i \in Nat, NEW p \in [Legs -> Nat],
           NEW q \in [Legs -> Nat], q = [p EXCEPT ![l] = i], \A m \in Legs : p[m] <= q[m],
           Broken(p), aired \subseteq Nat, \A j \in aired : \E m \in Legs : j <= p[m],
           moved \subseteq Legs, move' = move,
           leg_seq[l] # None, BreaksLeg(SeqOf(i), leg_seq[l]) => New(i) /\ ~ New(p[l]),
           \/ Taken(l, clock) /\ aired' = aired \cup {i}
           \/ Refused(SeqOf(i), l, clock) /\ aired' = aired
    PROVE  Broken(q)'
<1>1. \A x \in Nat : New(x)' <=> New(x)
  BY DEF New
<1>2. \A m \in Legs : New(p[m]) => New(q[m])
  BY DEF New, Numbers
<1>3. \A m \in moved' : m \in Legs /\ New(q[m])
  BY <1>2 DEF Broken, Taken, Refused
<1>4. ASSUME NEW m \in Legs, last_break'.leg = m
      PROVE  New(q[m]) /\ ((\E k \in Legs : ~ New(q[k])) => \A j \in aired' : ~ New(j))
  <2>1. CASE Taken(l, clock) /\ aired' = aired \cup {i}
    <3>1. m # l /\ last_break.leg = m
      BY <1>4, <2>1 DEF Taken
    <3>2. New(q[m])
      BY <1>2, <3>1 DEF Broken
    <3>3. ASSUME NEW k \in Legs, ~ New(q[k]) PROVE \A j \in aired' : ~ New(j)
      <4>1. k # m /\ ~ New(p[k])
        BY <1>2, <3>2, <3>3
      <4>2. k = l
        BY <3>1, <4>1, PairAssumption
      <4>3. ~ New(i)
        BY <3>3, <4>2
      <4> QED BY <2>1, <3>1, <4>1, <4>3 DEF Broken
    <3> QED BY <3>2, <3>3
  <2>2. CASE Refused(SeqOf(i), l, clock) /\ aired' = aired
    <3>1. CASE last_break' = last_break
      BY <1>2, <1>4, <2>2, <3>1 DEF Broken
    <3>2. CASE m = l /\ New(i) /\ ~ New(p[l])
      <4>1. New(q[m])
        BY <3>2
      <4>2. ASSUME NEW k \in Legs, ~ New(q[k]), NEW j \in aired PROVE ~ New(j)
        <5>1. k # l /\ ~ New(p[k])
          BY <1>2, <3>2, <4>1, <4>2
        <5>2. PICK n \in Legs : j <= p[n]
          OBVIOUS
        <5>3. n = l \/ n = k
          BY <5>1, PairAssumption
        <5>4. ~ New(p[n]) /\ j \in Nat /\ p[n] \in Nat
          BY <3>2, <5>1, <5>3
        <5> QED BY <5>2, <5>4 DEF New, Numbers
      <4> QED BY <2>2, <4>1, <4>2
    <3> QED BY <1>4, <2>2, <3>1, <3>2 DEF Refused
  <2> QED BY <2>1, <2>2
<1>5. \A m \in Legs : q[m] \in Nat
  OBVIOUS
<1>6. aired' \subseteq Nat
  OBVIOUS
<1> QED BY <1>1, <1>3, <1>4, <1>5, <1>6 DEF Broken

\* When the merger follows a moved stream, no leg has yet to bring a copy of a
\* packet that was aired: for the stale time nothing was, or both legs have left
\* the old stream and nothing of the new one was aired.
LEMMA MoveIsLate ==
    ASSUME PairTypes, Numbers, NEW l \in Legs, NEW i \in Nat, NEW p \in [Legs -> Nat],
           Heard(p), Broken(p), aired \subseteq 0 .. last_accept,
           \A m \in Legs : leg_seq[m] # None, i = Coming(l), p[l] < i,
           BreaksLeg(SeqOf(i), leg_seq[l]) => New(i) /\ ~ New(p[l]),
           StreamMoved(SeqOf(i), l, leg_seq[l], clock)
    PROVE  New(i) /\ \A j \in aired : ~ Awaited(j)
<1>1. New(i)
  BY DEF StreamMoved, Broken, New, Numbers
<1>2. \A m \in Legs : Coming(m) \in Int /\ Coming(m) >= clock - lag /\ p[m] < Coming(m)
  BY DEF Coming, Numbers, Heard
<1>3. CASE clock - last_accept >= stale_after
  <2>1. ASSUME NEW j \in aired, NEW m \in Legs, j >= Coming(m) PROVE FALSE
    BY <1>2, <1>3, <2>1 DEF Numbers
  <2> QED BY <1>1, <2>1 DEF Awaited
<1>4. CASE BreaksLeg(SeqOf(i), leg_seq[l]) /\ last_break # NoBreak /\ last_break.leg # l
  <2>1. last_break.leg \in Legs
    BY <1>4 DEF PairTypes, TypeOK, Breaks
  <2>2. PICK m \in Legs : m = last_break.leg /\ m # l
    BY <1>4, <2>1
  <2>3. New(p[m]) /\ \A j \in aired : ~ New(j)
    BY <1>4, <2>2 DEF Broken
  <2>4. ASSUME NEW j \in aired, NEW k \in Legs, j >= Coming(k) PROVE FALSE
    <3>1. k = l \/ k = m
      BY <2>2, PairAssumption
    <3>2. Coming(k) >= move.at
      BY <1>1, <1>2, <2>3, <3>1 DEF New, Numbers
    <3> QED BY <1>2, <2>3, <2>4, <3>2 DEF New, Numbers
  <2> QED BY <1>1, <2>4 DEF Awaited
<1> QED BY <1>3, <1>4 DEF StreamMoved

\* The leg's packet against the highest one: how far apart they can be.
LEMMA FromHighest ==
    ASSUME Numbers, NEW l \in Legs, NEW i \in Nat, NEW t \in Nat, NEW p \in [Legs -> Nat],
           Tops(p, t), t <= clock, i <= clock, i >= clock - lag,
           \A m \in Legs : p[m] >= clock - lag - MaxMissed - 1,
           p[l] < i, i <= p[l] + MaxMissed + 1
    PROVE  /\ t - i <= lag
           /\ New(t) => i - t <= lag + MaxMissed + 1
           /\ ~ New(t) /\ ~ New(i) => i - t <= MaxMissed + 1
           /\ ~ New(t) /\ New(i) => i - t + move.shift <= SeqSpace + MaxMissed + 1
           /\ Around(Forward(SeqOf(i)), Pos(i) - Pos(t))
           /\ Around(Backward(SeqOf(i)), Pos(t) - Pos(i))
<1>1. t - i <= lag
  BY DEF Numbers
<1>2. ASSUME New(t) PROVE i - t <= lag + MaxMissed + 1
  <2>1. CASE \E m \in Legs \ {Lead} : New(p[m])
    <3>1. PICK m \in Legs \ {Lead} : New(p[m])
      BY <2>1
    <3>2. t >= p[m]
      BY <1>2, <3>1 DEF Tops
    <3>3. p[m] >= clock - lag - MaxMissed - 1
      OBVIOUS
    <3> QED BY <3>2, <3>3 DEF Numbers
  <2>2. CASE \A m \in Legs \ {Lead} : ~ New(p[m])
    <3>1. CASE l = Lead
      <4>1. t >= p[l]
        BY <1>2, <2>2, <3>1 DEF Tops
      <4> QED BY <4>1 DEF Numbers
    <3>2. CASE l # Lead
      BY <1>2, <2>2, <3>2 DEF New, Numbers
    <3> QED BY <3>1, <3>2
  <2> QED BY <2>1, <2>2
<1>3. ASSUME ~ New(t)
      PROVE  /\ ~ New(i) => i - t <= MaxMissed + 1
             /\ New(i) => i - t + move.shift <= SeqSpace + MaxMissed + 1
  <2>1. IF New(p[l]) THEN p[l] - t <= SeqSpace - move.shift ELSE t >= p[l]
    BY <1>3 DEF Tops
  <2> QED BY <2>1 DEF New, Numbers
<1>4. Pos(i) - Pos(t) < 2 * SeqSpace /\ Pos(t) - Pos(i) < 2 * SeqSpace
  BY <1>1, <1>2, <1>3 DEF Pos, New, Numbers
<1>5. Pos(i) \in Nat /\ Pos(t) \in Nat /\ SeqSpace \in Nat
  BY DEF Pos, Numbers
<1>6. /\ Pos(i) - Pos(t) <= 2 * SeqSpace /\ Pos(t) - Pos(i) <= 2 * SeqSpace
  BY <1>4, <1>5
<1>7. Around(WrappingSub(SeqOf(i), SeqOf(t)), Pos(i) - Pos(t))
  BY <1>4, <1>6, PosGap DEF Numbers
<1>8. Around(WrappingSub(SeqOf(t), SeqOf(i)), Pos(t) - Pos(i))
  BY <1>4, <1>6, PosGap DEF Numbers
<1>9. highest_seq = SeqOf(t)
  BY DEF Tops
<1> QED BY <1>1, <1>2, <1>3, <1>7, <1>8, <1>9 DEF Forward, Backward

\* A packet that is not ahead of the window leaves the highest one the highest.
LEMMA TopsStay ==
    ASSUME Numbers, NEW l \in Legs, NEW i \in Nat, NEW t \in Nat, NEW p \in [Legs -> Nat],
           NEW q \in [Legs -> Nat], q = [p EXCEPT ![l] = i],
           Tops(p, t), t <= clock, i <= clock, i >= clock - lag,
           \A m \in Legs : p[m] >= clock - lag - MaxMissed - 1,
           p[l] < i, i <= p[l] + MaxMissed + 1,
           ~ IsForward(SeqOf(i)), highest_seq' = highest_seq, move' = move
    PROVE  Tops(q, t)'
<1>0. /\ t - i <= lag
      /\ ~ New(t) /\ ~ New(i) => i - t <= MaxMissed + 1
      /\ ~ New(t) /\ New(i) => i - t + move.shift <= SeqSpace + MaxMissed + 1
      /\ Around(Forward(SeqOf(i)), Pos(i) - Pos(t))
  BY FromHighest
<1>1. PICK f \in Nat : f = Forward(SeqOf(i)) /\ (f = 0 \/ f >= Half) /\ f < SeqSpace
  BY <1>0 DEF Around, IsForward, Seqs, Numbers
<1>2. LET d == Pos(i) - Pos(t)
      IN  f = d \/ f = d + SeqSpace \/ f = d - SeqSpace \/ f = d + 2 * SeqSpace
  BY <1>0, <1>1 DEF Around
<1>3. ASSUME ~ New(t), ~ New(i) PROVE t >= i
  BY <1>0, <1>1, <1>2, <1>3 DEF Pos, New, Numbers
<1>4. ASSUME ~ New(t), New(i) PROVE i - t <= SeqSpace - move.shift
  BY <1>0, <1>1, <1>2, <1>4 DEF Pos, New, Numbers
<1>5. ASSUME New(t), New(i), i - t <= MaxMissed + 1 PROVE t >= i
  BY <1>0, <1>1, <1>2, <1>5 DEF Pos, New, Numbers
<1>6. \A x \in Nat : New(x)' <=> New(x)
  BY DEF New
<1>7. highest_seq' = SeqOf(t)'
  BY DEF Tops, SeqOf
<1>8. ASSUME ~ New(t), NEW m \in Legs
      PROVE  IF New(q[m]) THEN q[m] - t <= SeqSpace - move.shift ELSE t >= q[m]
  BY <1>3, <1>4, <1>8 DEF Tops
<1>9. ASSUME New(t), NEW m \in Legs \ {Lead}, New(q[m]) PROVE t >= q[m]
  <2>1. CASE m = l
    <3>1. i - t <= MaxMissed + 1
      BY <1>9, <2>1 DEF Tops, New, Numbers
    <3> QED BY <1>5, <1>9, <2>1, <3>1
  <2>2. CASE m # l
    BY <1>9, <2>2 DEF Tops
  <2> QED BY <2>1, <2>2
<1>10. ASSUME New(t), \A m \in Legs \ {Lead} : ~ New(q[m]) PROVE t >= q[Lead]
  <2>1. \A m \in Legs \ {Lead} : ~ New(p[m])
    BY <1>10 DEF New, Numbers
  <2>2. t >= p[Lead]
    BY <1>10, <2>1 DEF Tops
  <2>3. CASE l = Lead
    <3>1. i - t <= MaxMissed + 1
      BY <2>2, <2>3 DEF Numbers
    <3>2. t >= i
      BY <1>5, <1>10, <3>1 DEF New, Numbers
    <3> QED BY <2>3, <3>2, PairAssumption
  <2>4. CASE l # Lead
    BY <2>2, <2>4, PairAssumption
  <2> QED BY <2>3, <2>4
<1>11. \A m \in Legs : q[m] \in Nat
  OBVIOUS
<1> QED BY <1>6, <1>7, <1>8, <1>9, <1>10, <1>11, PairAssumption DEF Tops

\* A packet to which the window moves is the new highest one.
LEMMA TopsMove ==
    ASSUME Numbers, NEW l \in Legs, NEW i \in Nat, NEW t \in Nat, NEW p \in [Legs -> Nat],
           NEW q \in [Legs -> Nat], q = [p EXCEPT ![l] = i],
           Tops(p, t), t <= clock, i <= clock, i >= clock - lag, l = Lead => i = clock,
           \A m \in Legs : p[m] >= clock - lag - MaxMissed - 1 /\ p[m] <= clock,
           p[l] < i, i <= p[l] + MaxMissed + 1, \E m \in Legs : t <= p[m],
           IsForward(SeqOf(i)) \/ New(i), highest_seq' = SeqOf(i), move' = move
    PROVE  Tops(q, i)'
<1>0. /\ t - i <= lag
      /\ ~ New(t) /\ ~ New(i) => i - t <= MaxMissed + 1
      /\ Around(Forward(SeqOf(i)), Pos(i) - Pos(t))
  BY FromHighest
<1>1. PICK f \in Nat : f = Forward(SeqOf(i)) /\ f < SeqSpace
  BY <1>0 DEF Around, Seqs, Numbers
<1>2. LET d == Pos(i) - Pos(t)
      IN  f = d \/ f = d + SeqSpace \/ f = d - SeqSpace \/ f = d + 2 * SeqSpace
  BY <1>0, <1>1 DEF Around
<1>3. ASSUME ~ New(i), ~ New(t) PROVE i > t
  BY <1>0, <1>1, <1>2, <1>3 DEF Pos, New, IsForward, Numbers
<1>4. ASSUME ~ New(i), New(t) PROVE t - i <= SeqSpace - move.shift
  BY <1>0, <1>1, <1>2, <1>4 DEF Pos, New, IsForward, Numbers
<1>5. ASSUME ~ New(i), NEW m \in Legs \ {l}
      PROVE  IF New(p[m]) THEN p[m] - i <= SeqSpace - move.shift ELSE i >= p[m]
  <2>1. CASE ~ New(t)
    BY <1>3, <1>5, <2>1 DEF Tops, Numbers
  <2>2. CASE New(t)
    <3>0. PICK k \in Legs : t <= p[k]
      OBVIOUS
    <3>1. New(p[k]) /\ ~ New(p[l])
      BY <1>5, <2>2, <3>0 DEF New, Numbers
    <3>2. k = m
      BY <1>5, <3>1, PairAssumption
    <3>3. l # Lead
      BY <1>5, <3>1, <3>2 DEF New, Numbers
    <3>4. m = Lead /\ \A n \in Legs \ {Lead} : n = l
      BY <1>5, <3>3, PairAssumption
    <3>5. t >= p[Lead]
      BY <2>2, <3>1, <3>4 DEF Tops
    <3> QED BY <1>4, <1>5, <2>2, <3>1, <3>2, <3>4, <3>5 DEF Numbers
  <2> QED BY <2>1, <2>2
<1>6. ASSUME ~ New(i), NEW m \in Legs
      PROVE  IF New(q[m]) THEN q[m] - i <= SeqSpace - move.shift ELSE i >= q[m]
  BY <1>5, <1>6
<1>7. ASSUME New(i), NEW m \in Legs \ {Lead}, New(q[m]) PROVE i >= q[m]
  BY <1>7, PairAssumption
<1>8. ASSUME New(i), \A m \in Legs \ {Lead} : ~ New(q[m]) PROVE i >= q[Lead]
  BY <1>8, PairAssumption
<1>9. \A x \in Nat : New(x)' <=> New(x)
  BY DEF New
<1>10. highest_seq' = SeqOf(i)'
  BY DEF SeqOf
<1>11. \A m \in Legs : q[m] \in Nat
  OBVIOUS
<1> QED BY <1>6, <1>7, <1>8, <1>9, <1>10, <1>11, PairAssumption DEF Tops

\* An aired packet of which a copy may still come, against the highest one.
LEMMA AwaitedFromHighest ==
    ASSUME Numbers, NEW p \in [Legs -> Nat], NEW t \in Nat, Tops(p, t), NoCopyPasses(p, t),
           t <= clock, NEW j \in Nat, j \in aired, j <= clock, Awaited(j),
           \E m \in Legs : j <= p[m]
    PROVE  /\ j >= clock - lag
           /\ Safe(j) /\ Backward(SeqOf(j)) \in Nat
           /\ (New(j) <=> New(t)) => j <= t
           /\ New(j) /\ ~ New(t) => j - t <= SeqSpace - move.shift
           /\ New(j) /\ ~ New(t) /\ Near => Backward(SeqOf(j)) < Window /\ \A l \in Legs : New(p[l])
           /\ Around(Backward(SeqOf(j)), Pos(t) - Pos(j))
<1>1. \A m \in Legs : Coming(m) \in Int /\ Coming(m) >= clock - lag
  BY DEF Coming, Numbers
<1>2. j >= clock - lag
  BY <1>1 DEF Awaited, Numbers
<1>3. /\ Safe(j)
      /\ (New(j) <=> New(t)) => j <= t
      /\ New(j) /\ ~ New(t) /\ Near => Backward(SeqOf(j)) < Window /\ \A l \in Legs : New(p[l])
  BY DEF NoCopyPasses
<1>4. ASSUME New(j), ~ New(t) PROVE j - t <= SeqSpace - move.shift
  <2>1. PICK m \in Legs : j <= p[m]
    OBVIOUS
  <2>2. New(p[m])
    BY <1>4, <2>1 DEF New, Numbers
  <2>3. p[m] - t <= SeqSpace - move.shift
    BY <1>4, <2>2 DEF Tops
  <2> QED BY <2>1, <2>3 DEF Numbers
<1>5. Pos(j) \in Nat /\ Pos(t) \in Nat /\ SeqSpace \in Nat
  BY DEF Pos, Numbers
<1>6. Pos(t) - Pos(j) < 2 * SeqSpace /\ Pos(j) - Pos(t) <= 2 * SeqSpace
  BY <1>2, <1>3, <1>4 DEF Pos, New, Numbers
<1>7. Around(WrappingSub(SeqOf(t), SeqOf(j)), Pos(t) - Pos(j))
  BY <1>6, PosGap DEF Numbers
<1>8. Around(Backward(SeqOf(j)), Pos(t) - Pos(j))
  BY <1>7 DEF Tops, Backward
<1>9. Backward(SeqOf(j)) \in Nat
  BY <1>8 DEF Around, Seqs, Numbers
<1> QED BY <1>2, <1>3, <1>4, <1>8, <1>9

\* A packet the window moves ahead to, against an aired packet j of which a copy
\* may still come: j is behind it, by half the sequence space at most.
LEMMA AheadOfAwaited ==
    ASSUME Numbers, NEW l \in Legs, NEW i \in Nat, NEW t \in Nat, NEW p \in [Legs -> Nat],
           NEW q \in [Legs -> Nat], Tops(p, t), NoCopyPasses(p, t), t <= clock,
           i <= clock, l = Lead => i = clock, l # Lead => i = clock - lag,
           \A m \in Legs : p[m] >= clock - lag - MaxMissed - 1,
           p[l] < i, i <= p[l] + MaxMissed + 1,
           NEW f \in Nat, f = Forward(SeqOf(i)), f > 0, f < Half,
           NEW j \in Nat, j \in aired, j <= clock, Awaited(j), l # Lead => j >= i,
           \E m \in Legs : j <= p[m], NEW k \in Nat, k = Backward(SeqOf(j))
    PROVE  /\ k <= Half /\ k + f <= Half
           /\ (New(j) <=> New(i)) => j <= i
           /\ ~ (New(j) /\ ~ New(i) /\ Near)
<1>1. /\ t - i <= lag /\ i >= clock - lag
      /\ New(t) => i - t <= lag + MaxMissed + 1
      /\ ~ New(t) /\ ~ New(i) => i - t <= MaxMissed + 1
      /\ ~ New(t) /\ New(i) => i - t + move.shift <= SeqSpace + MaxMissed + 1
      /\ Around(f, Pos(i) - Pos(t))
  <2>1. i >= clock - lag
    BY DEF Numbers
  <2> QED BY <2>1, FromHighest
<1>2. /\ j >= clock - lag /\ k <= Half
      /\ (New(j) <=> New(t)) => j <= t
      /\ New(j) /\ ~ New(t) => j - t <= SeqSpace - move.shift
      /\ New(j) /\ ~ New(t) /\ Near => k < Window /\ New(p[l])
      /\ Around(k, Pos(t) - Pos(j))
  BY AwaitedFromHighest DEF Safe
<1>3. LET d == Pos(i) - Pos(t)
      IN  f = d \/ f = d + SeqSpace \/ f = d - SeqSpace \/ f = d + 2 * SeqSpace
  BY <1>1 DEF Around
<1>4. LET e == Pos(t) - Pos(j)
      IN  k = e \/ k = e + SeqSpace \/ k = e - SeqSpace \/ k = e + 2 * SeqSpace
  BY <1>2 DEF Around
<1>5. New(p[l]) => New(i)
  BY DEF New, Numbers
<1>6. CASE l = Lead
  <2>1. CASE ~ New(t)
    BY <1>1, <1>2, <1>3, <1>4, <1>6, <2>1 DEF Pos, New, Near, Numbers
  <2>2. CASE New(t)
    BY <1>1, <1>2, <1>3, <1>4, <1>6, <2>2 DEF Pos, New, Near, Numbers
  <2> QED BY <2>1, <2>2
<1>7. CASE l # Lead
  <2>1. CASE ~ New(t)
    BY <1>1, <1>2, <1>3, <1>4, <1>5, <1>7, <2>1 DEF Pos, New, Near, Numbers
  <2>2. CASE New(t)
    BY <1>1, <1>2, <1>3, <1>4, <1>7, <2>2 DEF Pos, New, Near, Numbers
  <2> QED BY <2>1, <2>2
<1> QED BY <1>6, <1>7

\* A packet that fills a gap while the highest one stays.
LEMMA FillLetsNoCopyPass ==
    ASSUME Numbers, NEW l \in Legs, NEW i \in Nat, NEW t \in Nat, NEW p \in [Legs -> Nat],
           NEW q \in [Legs -> Nat], q = [p EXCEPT ![l] = i], \A m \in Legs : p[m] <= q[m],
           Tops(p, t), t <= clock, i <= clock, i >= clock - lag, l = Lead => i = clock,
           \A m \in Legs : p[m] >= clock - lag - MaxMissed - 1,
           p[l] < i, i <= p[l] + MaxMissed + 1,
           ~ IsForward(SeqOf(i)), Backward(SeqOf(i)) < Window
    PROVE  /\ (New(i) <=> New(t)) => i <= t
           /\ New(i) /\ ~ New(t) /\ Near => \A m \in Legs : New(q[m])
<1>0. /\ t - i <= lag
      /\ New(t) => i - t <= lag + MaxMissed + 1
      /\ ~ New(t) /\ ~ New(i) => i - t <= MaxMissed + 1
      /\ ~ New(t) /\ New(i) => i - t + move.shift <= SeqSpace + MaxMissed + 1
      /\ Around(Backward(SeqOf(i)), Pos(t) - Pos(i))
  BY FromHighest
<1>1. PICK k \in Nat : k = Backward(SeqOf(i)) /\ k < Window
  BY <1>0 DEF Around, Seqs, Numbers
<1>2. LET e == Pos(t) - Pos(i)
      IN  k = e \/ k = e + SeqSpace \/ k = e - SeqSpace \/ k = e + 2 * SeqSpace
  BY <1>0, <1>1 DEF Around
<1>3. ASSUME New(i) <=> New(t) PROVE i <= t
  BY <1>0, <1>1, <1>2, <1>3 DEF Pos, New, Numbers
<1>4. ASSUME New(i), ~ New(t), Near, NEW m \in Legs PROVE New(q[m])
  <2>1. CASE m = l
    BY <1>4, <2>1
  <2>2. CASE m # l
    <3>1. SUFFICES ASSUME ~ New(p[m]) PROVE FALSE
      BY <1>4 DEF New, Numbers
    <3>2. t >= p[m]
      BY <1>4, <3>1 DEF Tops
    <3>3. i - t <= lag + MaxMissed + 1
      <4>1. p[m] >= clock - lag - MaxMissed - 1
        OBVIOUS
      <4> QED BY <3>2, <4>1 DEF Numbers
    <3> QED BY <1>0, <1>1, <1>2, <1>4, <3>3 DEF Pos, New, Near, Numbers
  <2> QED BY <2>1, <2>2
<1> QED BY <1>3, <1>4

\* What a window moved f ahead makes of a seq that was k behind its highest.
LEMMA BackwardMoves ==
    ASSUME Numbers, highest_seq \in Seqs, NEW s \in Seqs, NEW r \in Seqs,
           NEW f \in Nat, f = WrappingSub(s, highest_seq), f < Half,
           NEW k \in Nat, k = WrappingSub(highest_seq, r), k <= Half
    PROVE  WrappingSub(s, r) = k + f
  BY DEF WrappingSub, Seqs, Numbers

\* What the window moves ahead to leaves every awaited packet safe.
LEMMA AheadSafe ==
    ASSUME Numbers, TypeOK, NEW i \in Nat, NEW j \in Nat, SeqOf(i) \in Seqs, SeqOf(j) \in Seqs,
           move' = move, NEW f \in Nat, f = Forward(SeqOf(i)), f > 0, f < Half,
           MovesAhead(SeqOf(i), f), Safe(j),
           NEW k \in Nat, k = Backward(SeqOf(j)), k <= Half, k + f <= Half
    PROVE  Safe(j)'
<1>1. highest_seq' = SeqOf(i) /\ SeqOf(j)' = SeqOf(j)
  BY DEF MovesAhead, SeqOf
<1>2. WrappingSub(SeqOf(i), SeqOf(j)) = k + f
  BY BackwardMoves DEF TypeOK, Forward, Backward
<1>3. Backward(SeqOf(j))' = k + f
  BY <1>1, <1>2 DEF Backward
<1>4. ASSUME k + f < Window PROVE SlotBehind(k + f)' \in emitted'
  <2>1. k \in Slots /\ k + f \in Slots /\ k < Window
    BY <1>4 DEF Slots, Numbers
  <2>2. SlotBehind(k) \in emitted
    BY <2>1 DEF Safe
  <2> QED BY <2>1, <2>2 DEF MovesAhead
<1>5. PICK n \in Nat : n = k + f
  OBVIOUS
<1>6. Backward(SeqOf(j))' = n /\ (n < Window => SlotBehind(n)' \in emitted')
  BY <1>3, <1>4, <1>5
<1>7. SlotBehind(Backward(SeqOf(j)))' = SlotBehind(n)'
  BY <1>6 DEF SlotBehind
<1> QED BY <1>5, <1>6, <1>7 DEF Safe

\* The packet the window moves to is itself safe.
LEMMA MovedToSafe ==
    ASSUME Numbers, NEW i \in Nat, SeqOf(i) \in Seqs, move' = move,
           highest_seq' = SeqOf(i), SlotBehind(0)' \in emitted'
    PROVE  Safe(i)'
<1>1. SeqOf(i)' = SeqOf(i)
  BY DEF SeqOf
<1>2. Backward(SeqOf(i))' = 0
  BY <1>1 DEF Backward, WrappingSub, Seqs, Numbers
<1>3. SlotBehind(Backward(SeqOf(i)))' = SlotBehind(0)'
  BY <1>2 DEF SlotBehind
<1> QED BY <1>2, <1>3 DEF Safe, Numbers

\* A packet already safe stays so while the window stays and only gains bits.
LEMMA StaysSafe ==
    ASSUME NEW j \in Nat, Safe(j), move' = move, UNCHANGED <<highest_seq, highest_slot>>,
           emitted \subseteq emitted'
    PROVE  Safe(j)' /\ Backward(SeqOf(j))' = Backward(SeqOf(j))
  BY DEF Safe, SeqOf, Backward, SlotBehind

\* How a delivery leaves the highest packet: the one delivered, or the one before.
Settles(l, i, t, u) ==
    \/ u = i /\ Taken(l, clock) /\ IsForward(SeqOf(i))
    \/ u = i /\ Taken(l, clock) /\ StreamMoved(SeqOf(i), l, leg_seq[l], clock)
    \/ u = t /\ Taken(l, clock) /\ ~ IsForward(SeqOf(i)) /\ Backward(SeqOf(i)) < Window
    \/ u = t /\ Refused(SeqOf(i), l, clock) /\ ~ IsForward(SeqOf(i))

\* A delivery after the move: the packet does not go out again, and the highest
\* packet afterwards is the same or the one delivered.
LEMMA DeliverAfterMove ==
    ASSUME PairTypes, Numbers, NEW p \in [Legs -> Nat], NEW t \in aired, AfterMove(p, t),
           NEW l \in Legs, Deliver(l)
    PROVE  /\ out' # None => here' \notin aired
           /\ \E i \in Nat : \E q \in [Legs -> Nat] : \E u \in aired' :
                /\ i = clock - Delay(l) /\ q = [p EXCEPT ![l] = i]
                /\ Settles(l, i, t, u) /\ AfterMove(q, u)'
<1>1. PICK i \in Nat :
        /\ i = clock - Delay(l) /\ i = Coming(l) /\ i <= clock /\ i >= clock - lag
        /\ l = Lead => i = clock
        /\ l # Lead => i = clock - lag
        /\ Coming(l)' = i + 1 /\ here' = i
        /\ \A m \in Legs \ {l} : Coming(m)' = Coming(m)
        /\ \A j \in Int : Awaited(j)' => Awaited(j)
        /\ TryMerge(SeqOf(i), l, clock) /\ SeqOf(i) \in Seqs
        /\ UNCHANGED <<clock, missed, move, lag>> /\ due' = due \ {l}
        /\ leg_seq' = [leg_seq EXCEPT ![l] = SeqOf(i)]
        /\ aired' = IF out' = None THEN aired ELSE aired \cup {i}
  BY Brings
<1>2. /\ TypeOK /\ initialized /\ \A m \in Legs : leg_seq[m] # None
      /\ aired \subseteq 0 .. last_accept /\ last_accept <= clock
      /\ Heard(p) /\ Tops(p, t) /\ Broken(p) /\ NoCopyPasses(p, t)
  BY DEF AfterMove, PairTypes
<1>3. aired \subseteq Nat /\ (\A j \in aired : j <= clock) /\ t \in Nat /\ t <= clock
  BY <1>2 DEF Numbers
<1>4. PICK q \in [Legs -> Nat] : q = [p EXCEPT ![l] = i]
  OBVIOUS
<1>5. /\ Heard(q)' /\ p[l] < i /\ i <= p[l] + MaxMissed + 1
      /\ \A m \in Legs : p[m] <= q[m]
  <2>1. l \in due /\ leg_seq \in [Legs -> Seqs \cup {None}] /\ aired' \subseteq aired \cup {i}
    BY <1>1, <1>2 DEF Deliver, TypeOK
  <2> QED BY <1>1, <1>2, <1>3, <1>4, <2>1, HeardOn
<1>6. BreaksLeg(SeqOf(i), leg_seq[l]) => New(i) /\ ~ New(p[l])
  <2>1. leg_seq[l] = SeqOf(p[l]) /\ leg_seq[l] # None /\ p[l] \in Nat
    BY <1>2 DEF Heard
  <2> QED BY <1>5, <2>1, BreakCrosses
<1>7. /\ \A m \in Legs : p[m] >= clock - lag - MaxMissed - 1 /\ p[m] <= clock
      /\ \A j \in aired : \E m \in Legs : j <= p[m]
  <2>1. ASSUME NEW m \in Legs PROVE p[m] >= clock - lag - MaxMissed - 1 /\ p[m] <= clock
    <3>1. /\ p[m] < Coming(m)
          /\ p[m] >= clock - Delay(m) - (IF m \in due THEN MaxMissed + 1 ELSE missed[m])
      BY <1>2 DEF Heard
    <3>2. missed[m] \in 0 .. MaxMissed /\ Delay(m) \in {0, lag}
      BY DEF Numbers
    <3> QED BY <3>1, <3>2 DEF Coming, Numbers
  <2> QED BY <1>2, <2>1 DEF Heard
<1>8. \A x \in Nat : (New(x)' <=> New(x)) /\ SeqOf(x)' = SeqOf(x)
  BY <1>1 DEF New, SeqOf
<1>9. (Near' <=> Near) /\ \A m \in Legs : New(p[m]) => New(q[m])
  BY <1>1, <1>5 DEF Near, New, Numbers
<1>10. l # Lead => \A j \in Nat : Awaited(j)' /\ j <= clock => j >= i
  BY <1>1 DEF Awaited, Numbers, Coming
<1>11. ASSUME StreamMoved(SeqOf(i), l, leg_seq[l], clock)
       PROVE  New(i) /\ \A j \in aired : ~ Awaited(j)
  BY <1>1, <1>2, <1>5, <1>6, <1>11, MoveIsLate
<1>12. i \in aired => Safe(i) /\ Awaited(i)
  BY <1>1, <1>2 DEF NoCopyPasses, Awaited
<1>13. i \in aired => ~ IsForward(SeqOf(i))
  <2>1. Forward(SeqOf(i)) \in Seqs /\ Backward(SeqOf(i)) \in Seqs /\ highest_seq \in Seqs
    BY <1>1, <1>2, WrappingSubType DEF TypeOK, Forward, Backward
  <2>2. Forward(SeqOf(i)) = 0 \/ Forward(SeqOf(i)) + Backward(SeqOf(i)) = SeqSpace
    BY <1>1, <2>1, WrappingSubType DEF Forward, Backward
  <2> QED BY <1>12, <2>1, <2>2 DEF Safe, IsForward, Seqs, Numbers
\* Everything but the highest packet and the order is the same for every outcome.
<1>14. ASSUME \/ Taken(l, clock)
              \/ Refused(SeqOf(i), l, clock)
       PROVE  /\ initialized' /\ \A m \in Legs : leg_seq'[m] # None
              /\ aired' \subseteq 0 .. last_accept' /\ last_accept' <= clock'
              /\ Heard(q)' /\ Broken(q)'
              /\ aired' = (IF out' = None THEN aired ELSE aired \cup {i})
              /\ Taken(l, clock) => out' # None
  <2>1. (Taken(l, clock) => aired' = aired \cup {i} /\ out' # None)
        /\ (Refused(SeqOf(i), l, clock) => aired' = aired)
    BY <1>1, LegsAssumption DEF Taken, Refused
  <2>2. initialized' /\ \A m \in Legs : leg_seq'[m] # None
    <3>1. SeqOf(i) # None
      BY <1>1, LegsAssumption, HalfAssumption DEF Seqs, SeqSpace
    <3>2. leg_seq \in [Legs -> Seqs \cup {None}]
      BY <1>2 DEF TypeOK
    <3> QED BY <1>1, <1>2, <1>14, <3>1, <3>2 DEF Taken, Refused
  <2>3. aired' \subseteq 0 .. last_accept' /\ last_accept' <= clock'
    <3>1. last_accept \in Nat /\ clock \in Nat /\ clock' = clock
      BY <1>1 DEF Numbers
    <3>2. CASE Taken(l, clock)
      <4>1. last_accept' = clock /\ aired' = aired \cup {i}
        BY <2>1, <3>2 DEF Taken
      <4>2. \A j \in aired' : j \in Nat /\ j <= clock
        BY <1>1, <1>3, <4>1
      <4> QED BY <3>1, <4>1, <4>2
    <3>3. CASE Refused(SeqOf(i), l, clock)
      <4>1. last_accept' = last_accept /\ aired' = aired
        BY <2>1, <3>3 DEF Refused
      <4> QED BY <1>2, <3>1, <4>1
    <3> QED BY <1>14, <3>2, <3>3
  <2>4. Broken(q)'
    BY <1>1, <1>2, <1>3, <1>4, <1>5, <1>6, <1>7, <1>14, <2>1, BrokenOn DEF TypeOK
  <2> QED BY <1>1, <1>5, <2>1, <2>2, <2>3, <2>4
\* Ahead of the window.
<1>15. CASE /\ IsForward(SeqOf(i)) /\ Taken(l, clock)
            /\ \E f \in Nat : f = Forward(SeqOf(i)) /\ MovesAhead(SeqOf(i), f)
  <2>1. PICK f \in Nat : f = Forward(SeqOf(i)) /\ MovesAhead(SeqOf(i), f)
    BY <1>15
  <2>2. f > 0 /\ f < Half /\ highest_seq' = SeqOf(i) /\ SlotBehind(0)' \in emitted'
    BY <1>15, <2>1 DEF IsForward, MovesAhead
  <2>3. Tops(q, i)'
    <3>1. \E m \in Legs : t <= p[m]
      BY <1>7
    <3> QED BY <1>1, <1>2, <1>3, <1>4, <1>5, <1>7, <1>15, <2>2, <3>1, TopsMove
  <2>4. ASSUME NEW j \in aired', Awaited(j)'
        PROVE  /\ Safe(j)'
               /\ (New(j)' <=> New(i)') => j <= i
               /\ ~ (New(j)' /\ ~ New(i)' /\ Near')
    <3>1. CASE j = i
      BY <1>1, <2>2, <3>1, MovedToSafe
    <3>2. CASE j \in aired
      <4>1. /\ j \in Nat /\ j <= clock /\ Awaited(j) /\ \E m \in Legs : j <= p[m]
            /\ l # Lead => j >= i
        BY <1>1, <1>3, <1>7, <1>10, <2>4, <3>2
      <4>2. Safe(j) /\ Backward(SeqOf(j)) \in Nat
        BY <1>2, <1>3, <3>2, <4>1, AwaitedFromHighest
      <4>3. PICK k \in Nat : k = Backward(SeqOf(j))
        BY <4>2
      <4>4. /\ k <= Half /\ k + f <= Half
            /\ (New(j) <=> New(i)) => j <= i
            /\ ~ (New(j) /\ ~ New(i) /\ Near)
        BY <1>1, <1>2, <1>3, <1>5, <1>7, <2>1, <2>2, <3>2, <4>1, <4>3, AheadOfAwaited
      <4>5. SeqOf(j) \in Seqs
        BY <4>1, PosGap DEF Numbers, Pos
      <4>6. Safe(j)'
        BY <1>1, <1>2, <2>1, <2>2, <4>1, <4>2, <4>3, <4>4, <4>5, AheadSafe
      <4> QED BY <1>8, <1>9, <4>1, <4>4, <4>6
    <3> QED BY <1>15, <1>14, <3>1, <3>2
  <2>5. NoCopyPasses(q, i)'
    BY <2>4 DEF NoCopyPasses
  <2>6. i \in aired' /\ AfterMove(q, i)'
    BY <1>14, <1>15, <2>3, <2>5 DEF AfterMove
  <2>7. Settles(l, i, t, i)
    BY <1>15 DEF Settles
  <2> QED BY <1>1, <1>4, <1>13, <1>15, <2>6, <2>7
\* A gap of the window.
<1>16. CASE /\ ~ IsForward(SeqOf(i)) /\ Backward(SeqOf(i)) < Window
            /\ SlotBehind(Backward(SeqOf(i))) \notin emitted
            /\ Taken(l, clock) /\ UNCHANGED <<highest_seq, highest_slot>>
            /\ emitted' = emitted \cup {SlotBehind(Backward(SeqOf(i)))}
  <2>1. i \notin aired
    BY <1>12, <1>16 DEF Safe
  <2>2. Tops(q, t)'
    BY <1>1, <1>2, <1>3, <1>4, <1>5, <1>7, <1>16, TopsStay
  <2>3. /\ (New(i) <=> New(t)) => i <= t
        /\ New(i) /\ ~ New(t) /\ Near => \A m \in Legs : New(q[m])
    BY <1>1, <1>2, <1>3, <1>4, <1>5, <1>7, <1>16, FillLetsNoCopyPass
  <2>4. ASSUME NEW j \in aired', Awaited(j)'
        PROVE  /\ Safe(j)'
               /\ (New(j) <=> New(t)) => j <= t
               /\ New(j) /\ ~ New(t) /\ Near
                    => Backward(SeqOf(j))' < Window /\ \A m \in Legs : New(q[m])
    <3>1. CASE j = i
      <4>1. Backward(SeqOf(i))' = Backward(SeqOf(i)) /\ Backward(SeqOf(i)) \in Nat
        <5>1. Backward(SeqOf(i)) \in Seqs
          BY <1>1, <1>2, WrappingSubType DEF TypeOK, Backward
        <5> QED BY <1>8, <1>16, <5>1 DEF Backward, Seqs, Numbers
      <4>2. SlotBehind(Backward(SeqOf(i)))' = SlotBehind(Backward(SeqOf(i)))
        BY <1>16, <4>1 DEF SlotBehind
      <4>3. Safe(i)'
        BY <1>16, <4>1, <4>2 DEF Safe, Numbers
      <4> QED BY <1>16, <2>3, <3>1, <4>1, <4>3
    <3>2. CASE j \in aired
      <4>1. j \in Nat /\ Awaited(j)
        BY <1>1, <1>3, <2>4, <3>2
      <4>2. /\ Safe(j)
            /\ (New(j) <=> New(t)) => j <= t
            /\ New(j) /\ ~ New(t) /\ Near
                 => Backward(SeqOf(j)) < Window /\ \A m \in Legs : New(p[m])
        BY <1>2, <3>2, <4>1 DEF NoCopyPasses
      <4>3. Safe(j)' /\ Backward(SeqOf(j))' = Backward(SeqOf(j))
        BY <1>1, <1>16, <4>1, <4>2, StaysSafe
      <4> QED BY <1>9, <4>2, <4>3
    <3> QED BY <1>14, <1>16, <3>1, <3>2
  <2>5. aired' \subseteq Nat /\ \A m \in Legs : q[m] \in Nat
    BY <1>1, <1>3
  <2>6. NoCopyPasses(q, t)'
    BY <1>3, <1>8, <1>9, <2>4, <2>5 DEF NoCopyPasses
  <2>7. t \in aired' /\ AfterMove(q, t)'
    BY <1>14, <1>16, <2>2, <2>6 DEF AfterMove
  <2>8. Settles(l, i, t, t)
    BY <1>16 DEF Settles
  <2> QED BY <1>1, <1>4, <2>1, <2>7, <2>8
\* The moved stream is followed.
<1>17. CASE /\ ~ IsForward(SeqOf(i)) /\ StreamMoved(SeqOf(i), l, leg_seq[l], clock)
            /\ Taken(l, clock) /\ highest_seq' = SeqOf(i) /\ highest_slot' = 0 /\ emitted' = {0}
  <2>1. New(i) /\ \A j \in aired : ~ Awaited(j)
    BY <1>11, <1>17
  <2>2. i \notin aired
    BY <1>12, <2>1
  <2>3. Tops(q, i)'
    <3>1. \E m \in Legs : t <= p[m]
      BY <1>7
    <3> QED BY <1>1, <1>2, <1>3, <1>4, <1>5, <1>7, <1>17, <2>1, <3>1, TopsMove
  <2>4. Safe(i)'
    <3>1. SlotBehind(0)' \in emitted'
      BY <1>17 DEF SlotBehind, Wrap, Numbers
    <3> QED BY <1>1, <1>17, <3>1, MovedToSafe
  <2>5. \A j \in aired' : Awaited(j)' => j = i
    BY <1>1, <1>3, <1>14, <1>17, <2>1
  <2>6. NoCopyPasses(q, i)'
    BY <2>4, <2>5 DEF NoCopyPasses
  <2>7. i \in aired' /\ AfterMove(q, i)'
    BY <1>14, <1>17, <2>3, <2>6 DEF AfterMove
  <2>8. Settles(l, i, t, i)
    BY <1>17 DEF Settles
  <2> QED BY <1>1, <1>4, <2>2, <2>7, <2>8
\* Dropped.
<1>18. CASE ~ IsForward(SeqOf(i)) /\ Refused(SeqOf(i), l, clock)
  <2>1. /\ aired' = aired /\ out' = None
        /\ UNCHANGED <<highest_seq, highest_slot, emitted>>
    BY <1>1, <1>18 DEF Refused
  <2>2. Tops(q, t)'
    BY <1>1, <1>2, <1>3, <1>4, <1>5, <1>7, <1>18, <2>1, TopsStay
  <2>3. ASSUME NEW j \in aired', Awaited(j)'
        PROVE  /\ Safe(j)'
               /\ (New(j) <=> New(t)) => j <= t
               /\ New(j) /\ ~ New(t) /\ Near
                    => Backward(SeqOf(j))' < Window /\ \A m \in Legs : New(q[m])
    <3>1. j \in aired /\ j \in Nat /\ Awaited(j)
      BY <1>1, <1>3, <2>1, <2>3
    <3>2. /\ Safe(j)
          /\ (New(j) <=> New(t)) => j <= t
          /\ New(j) /\ ~ New(t) /\ Near
               => Backward(SeqOf(j)) < Window /\ \A m \in Legs : New(p[m])
      BY <1>2, <3>1 DEF NoCopyPasses
    <3>3. Safe(j)' /\ Backward(SeqOf(j))' = Backward(SeqOf(j))
      BY <1>1, <2>1, <3>1, <3>2, StaysSafe
    <3> QED BY <1>9, <3>2, <3>3
  <2>4. aired' \subseteq Nat /\ \A m \in Legs : q[m] \in Nat
    BY <1>3, <2>1
  <2>5. NoCopyPasses(q, t)'
    BY <1>3, <1>8, <1>9, <2>3, <2>4 DEF NoCopyPasses
  <2>6. t \in aired' /\ AfterMove(q, t)'
    BY <1>14, <1>18, <2>1, <2>2, <2>5 DEF AfterMove
  <2>7. Settles(l, i, t, t)
    BY <1>18 DEF Settles
  <2> QED BY <1>1, <1>4, <2>1, <2>6, <2>7
<1> QED
  BY <1>1, <1>2, <1>15, <1>16, <1>17, <1>18, Outcomes DEF Numbers

\* The next tick brings nothing: what is awaited then was awaited before.
LEMMA TickHears ==
    ASSUME Numbers, NEW p \in [Legs -> Nat], Heard(p), aired \subseteq Nat,
           NEW losing \in SUBSET Legs, Tick(losing)
    PROVE  Heard(p)' /\ \A j \in Nat : Awaited(j)' => Awaited(j)
<1>1. /\ due = {} /\ clock' = clock + 1 /\ lag' = lag /\ move' = move /\ aired' = aired
      /\ leg_seq' = leg_seq /\ due' = DueAt(clock + 1) \ losing
      /\ \A l \in losing : missed[l] < MaxMissed
      /\ missed' = [l \in Legs |-> IF l \in losing THEN missed[l] + 1 ELSE 0]
  BY DEF Tick, mergerVars
<1>2. \A l \in Legs : Delay(l)' = Delay(l) /\ Delay(l) \in Nat
  BY <1>1 DEF Delay, Numbers
<1>3. \A l \in Legs : /\ Coming(l) \in Int /\ Coming(l)' \in Int /\ Coming(l) <= Coming(l)'
                      /\ Coming(l) = clock - Delay(l) + 1
  BY <1>1, <1>2 DEF Coming, Numbers
<1>4. \A j \in Nat : Awaited(j)' => Awaited(j)
  BY <1>3 DEF Awaited
<1>5. ASSUME NEW l \in Legs, leg_seq[l] # None
      PROVE  /\ leg_seq'[l] = SeqOf(p[l])'
             /\ p[l] < Coming(l)'
             /\ p[l] >= clock' - Delay(l)' - (IF l \in due' THEN MaxMissed + 1 ELSE missed'[l])
  <2>1. /\ leg_seq[l] = SeqOf(p[l]) /\ p[l] < Coming(l)
        /\ p[l] >= clock - Delay(l) - missed[l] /\ p[l] \in Nat
    BY <1>1, <1>5 DEF Heard
  <2>2. leg_seq'[l] = SeqOf(p[l])'
    BY <1>1, <2>1 DEF SeqOf
  <2>3. missed[l] \in 0 .. MaxMissed
    BY DEF Numbers
  <2>4. CASE l \in due'
    BY <1>1, <1>2, <1>3, <2>1, <2>2, <2>3, <2>4 DEF Numbers
  <2>5. CASE l \notin due' /\ l \in losing
    BY <1>1, <1>2, <1>3, <2>1, <2>2, <2>3, <2>5 DEF Numbers
  <2>6. CASE l \notin due' /\ l \notin losing
    <3>1. missed'[l] = 0 /\ ~ (Delay(l) <= clock + 1)
      BY <1>1, <2>6 DEF DueAt
    <3> QED BY <1>1, <1>2, <1>3, <2>1, <2>2, <2>6, <3>1 DEF Numbers
  <2> QED BY <2>4, <2>5, <2>6
<1> QED BY <1>1, <1>4, <1>5 DEF Heard

LEMMA TickAfterMove ==
    ASSUME Numbers, NEW p \in [Legs -> Nat], NEW t \in aired, AfterMove(p, t),
           NEW losing \in SUBSET Legs, Tick(losing)
    PROVE  t \in aired' /\ AfterMove(p, t)'
<1>1. /\ UNCHANGED <<lag, move, aired, highest_seq, highest_slot, emitted, last_accept>>
      /\ UNCHANGED <<moved, last_break, leg_seq, initialized>> /\ clock' = clock + 1
  BY DEF Tick, mergerVars, windowVars, legVars
<1>2. aired \subseteq Nat
  BY DEF AfterMove, Numbers
<1>3. Heard(p)' /\ \A j \in Nat : Awaited(j)' => Awaited(j)
  BY <1>2, TickHears DEF AfterMove
<1>4. \A x \in Nat : (New(x)' <=> New(x)) /\ SeqOf(x)' = SeqOf(x)
  BY <1>1 DEF New, SeqOf
<1>5. t \in Nat /\ \A l \in Legs : p[l] \in Nat
  BY <1>2
<1>6. Tops(p, t)'
  BY <1>1, <1>4, <1>5, PairAssumption DEF AfterMove, Tops
<1>7. Broken(p)'
  BY <1>1, <1>2, <1>4, <1>5 DEF AfterMove, Broken, New
<1>8. NoCopyPasses(p, t)'
  <2> SUFFICES ASSUME NEW j \in aired', Awaited(j)'
               PROVE  /\ Safe(j)'
                      /\ (New(j)' <=> New(t)') => j <= t
                      /\ New(j)' /\ ~ New(t)' /\ Near'
                           => Backward(SeqOf(j))' < Window /\ \A l \in Legs : New(p[l])'
    BY DEF NoCopyPasses
  <2>1. j \in aired /\ j \in Nat /\ Awaited(j)
    BY <1>1, <1>2, <1>3
  <2>2. /\ Safe(j)
        /\ (New(j) <=> New(t)) => j <= t
        /\ New(j) /\ ~ New(t) /\ Near
             => Backward(SeqOf(j)) < Window /\ \A l \in Legs : New(p[l])
    BY <2>1 DEF AfterMove, NoCopyPasses
  <2>3. Safe(j)' /\ Backward(SeqOf(j))' = Backward(SeqOf(j))
    BY <1>1, <2>1, <2>2, StaysSafe
  <2>4. Near' <=> Near
    BY <1>1 DEF Near
  <2> QED BY <1>4, <1>5, <2>1, <2>2, <2>3, <2>4
<1>9. last_accept' <= clock' /\ aired' \subseteq 0 .. last_accept'
  BY <1>1 DEF AfterMove, Numbers
<1> QED BY <1>1, <1>3, <1>6, <1>7, <1>8, <1>9 DEF AfterMove

----------------------------------------------------------------------------
(* Until the source moves no leg breaks its sequence after its first packet,  *)
(* so that the move finds the merger in step with both legs.                  *)

BeforeMove(p) ==
    /\ InStep
    /\ moved = {}
    /\ \A m \in Legs : last_break.leg = m => last_break.first
    /\ Heard(p) /\ \A l \in Legs : leg_seq[l] # None => \E u \in aired : p[l] <= u

LEMMA DeliverBeforeMove ==
    ASSUME PairTypes, Numbers, NEW p \in [Legs -> Nat], BeforeMove(p), move = NotMoved,
           NEW l \in Legs, Deliver(l)
    PROVE  /\ out' # None => here' \notin aired
           /\ \E i \in Nat : \E q \in [Legs -> Nat] :
                i = clock - Delay(l) /\ q = [p EXCEPT ![l] = i] /\ BeforeMove(q)'
<1>0. MaxMissed + 1 < Half /\ lag <= Half /\ move.shift = 0
  BY DEF Numbers, NotMoved
<1>1. PICK i \in Nat :
        /\ i = clock - Delay(l) /\ i = Coming(l)
        /\ Coming(l)' = i + 1 /\ here' = i
        /\ \A m \in Legs \ {l} : Coming(m)' = Coming(m)
        /\ TryMerge(SeqOf(i), l, clock) /\ SeqOf(i) \in Seqs
        /\ UNCHANGED <<clock, missed, move, lag>> /\ due' = due \ {l}
        /\ leg_seq' = [leg_seq EXCEPT ![l] = SeqOf(i)]
        /\ aired' = IF out' = None THEN aired ELSE aired \cup {i}
  BY Brings
<1>2. InStep /\ InStep' /\ TypeOK /\ aired \subseteq Nat /\ l \in due
  <2>1. aired \subseteq Nat
    BY DEF BeforeMove, InStep, Numbers
  <2> QED BY <1>0, <2>1, DeliverInStep DEF BeforeMove, PairTypes, Deliver
<1>3. (out' # None => i \notin aired) /\ \E u \in aired' : i <= u
  <2>1. CASE ~ initialized
    <3>1. here' \in aired' /\ aired = {}
      BY <1>2, <2>1, FirstInStep
    <3>2. i \in aired' /\ i \notin aired /\ i <= i
      BY <1>1, <3>1
    <3> QED BY <3>2
  <2>2. CASE initialized
    <3>1. PICK t \in aired : Follows(t)
      BY <1>2, <2>2 DEF InStep
    <3>2. t \in Nat /\ \A u \in aired : u <= t
      BY <1>2, <3>1 DEF Follows, Agrees
    <3>3. /\ i > t => i \in aired'
          /\ i <= t /\ out' # None => i \notin aired
          /\ aired' \in {aired, aired \cup {i}}
      BY <1>0, <1>1, <1>2, <2>2, <3>1, <3>2, DeliverOutcome
    <3>4. CASE i > t
      <4>1. i \notin aired /\ i \in aired' /\ i <= i
        BY <3>2, <3>3, <3>4
      <4> QED BY <4>1
    <3>5. CASE i <= t
      <4>1. t \in aired'
        BY <3>3
      <4> QED BY <3>3, <3>5, <4>1
    <3> QED BY <3>2, <3>4, <3>5
  <2> QED BY <2>1, <2>2
<1>4. Heard(p) /\ \A m \in Legs : leg_seq[m] # None => \E u \in aired : p[m] <= u
  BY DEF BeforeMove
<1>5. PICK q \in [Legs -> Nat] : q = [p EXCEPT ![l] = i]
  OBVIOUS
<1>6. /\ Heard(q)'
      /\ leg_seq[l] # None => p[l] < i /\ i <= p[l] + MaxMissed + 1
  <2>1. leg_seq \in [Legs -> Seqs \cup {None}] /\ aired' \subseteq aired \cup {i}
    BY <1>1, <1>2 DEF TypeOK
  <2> QED BY <1>1, <1>2, <1>4, <1>5, <2>1, HeardOn
<1>7. leg_seq[l] # None => ~ BreaksLeg(SeqOf(i), leg_seq[l])
  <2>1. leg_seq[l] # None => leg_seq[l] = SeqOf(p[l]) /\ p[l] \in Nat
    BY <1>4 DEF Heard
  <2> QED BY <1>0, <1>6, <2>1, BreakCrosses
<1>8. ASSUME NEW m \in Legs, leg_seq'[m] # None PROVE \E u \in aired' : q[m] <= u
  <2>1. CASE m = l
    BY <1>3, <1>5, <2>1
  <2>2. CASE m # l
    <3>1. leg_seq[m] # None /\ q[m] = p[m] /\ aired \subseteq aired'
      BY <1>1, <1>2, <1>5, <1>8, <2>2 DEF TypeOK
    <3> QED BY <1>4, <3>1
  <2> QED BY <2>1, <2>2
<1>9. Taken(l, clock) \/ Refused(SeqOf(i), l, clock)
  <2>1. CASE ~ initialized
    <3>1. MergeFirst(SeqOf(i), l, clock)
      BY <1>1, <2>1 DEF TryMerge, MergeJump, MergeAdvance, MergeFill, MergeDuplicate,
         MergeMoved, MergeTooLate
    <3> QED BY <3>1, AcceptTakes DEF MergeFirst
  <2>2. CASE initialized
    BY <1>1, <1>2, <2>2, Outcomes DEF Numbers
  <2> QED BY <2>1, <2>2
<1>10. moved' = {} /\ \A m \in Legs : last_break'.leg = m => last_break'.first
  BY <1>7, <1>9 DEF BeforeMove, Taken, Refused
<1>11. BeforeMove(q)'
  BY <1>2, <1>6, <1>8, <1>10 DEF BeforeMove
<1> QED BY <1>1, <1>3, <1>5, <1>11

LEMMA TickBeforeMove ==
    ASSUME PairTypes, Numbers, NEW p \in [Legs -> Nat], BeforeMove(p), move = NotMoved,
           NEW losing \in SUBSET Legs, Tick(losing)
    PROVE  BeforeMove(p)'
<1>1. InStep' /\ aired \subseteq Nat
  BY TickKeeps DEF BeforeMove, InStep, Numbers
<1>2. UNCHANGED <<moved, last_break, leg_seq, aired>>
  BY DEF Tick, mergerVars, legVars
<1>3. Heard(p) /\ \A m \in Legs : leg_seq[m] # None => \E u \in aired : p[m] <= u
  BY DEF BeforeMove
<1>4. Heard(p)'
  BY <1>1, <1>3, TickHears
<1> QED BY <1>1, <1>2, <1>3, <1>4 DEF BeforeMove

\* At the move every packet is an old one, and the window is the highest's.
LEMMA MoveFollows ==
    ASSUME PairTypes, Numbers, NEW p \in [Legs -> Nat], BeforeMove(p), move = NotMoved,
           NEW shift \in NewIsns, MoveSource(shift)
    PROVE  \E t \in aired' : AfterMove(p, t)' /\ ~ New(t)' /\ \A l \in Legs : ~ New(p[l])'
<1>1. /\ due = {} /\ ~ last_break.first /\ \A l \in Legs : leg_seq[l] # None
      /\ move' = [at |-> clock + 1, shift |-> shift]
      /\ UNCHANGED <<lag, clock, due, missed, aired, highest_seq, highest_slot, emitted>>
      /\ UNCHANGED <<last_accept, moved, last_break, leg_seq, initialized>>
  BY DEF MoveSource, mergerVars, windowVars, legVars
<1>2. initialized
  BY <1>1 DEF BeforeMove, InStep
<1>3. PICK t \in aired : Follows(t)
  BY <1>2 DEF BeforeMove, InStep
<1>4. Heard(p) /\ \A m \in Legs : leg_seq[m] # None => \E u \in aired : p[m] <= u
  BY DEF BeforeMove
<1>5. /\ aired \subseteq Nat /\ t \in Nat /\ \A j \in aired : j <= t
      /\ t <= last_accept /\ last_accept <= clock /\ highest_seq = SeqAt(t)
  BY <1>3 DEF BeforeMove, InStep, Numbers, Follows, Agrees
<1>6. \A l \in Legs : p[l] <= t
  <2>1. \A l \in Legs : \E u \in aired : p[l] <= u
    BY <1>1, <1>4
  <2>2. ASSUME NEW l \in Legs PROVE p[l] <= t
    <3>1. PICK u \in aired : p[l] <= u
      BY <2>1
    <3>2. u \in Nat /\ u <= t /\ p[l] \in Nat
      BY <1>5
    <3> QED BY <1>5, <3>1, <3>2
  <2> QED BY <2>2
<1>7. \A x \in Nat : x <= clock => ~ New(x)' /\ SeqOf(x)' = SeqAt(x) /\ SeqOf(x) = SeqAt(x)
  <2>1. ASSUME NEW x \in Nat, x <= clock
        PROVE  ~ New(x)' /\ SeqOf(x)' = SeqAt(x) /\ SeqOf(x) = SeqAt(x)
    <3>1. ~ (x >= move'.at)
      BY <1>1, <2>1 DEF Numbers
    <3>2. FirstSeq + x + 0 = FirstSeq + x
      BY PairAssumption DEF Seqs, Numbers
    <3> QED BY <3>1, <3>2, SeqAtType DEF New, SeqOf, SeqAt
  <2> QED BY <2>1
<1>8. t <= clock /\ (\A j \in aired : j <= clock) /\ \A l \in Legs : p[l] <= clock /\ p[l] \in Nat
  BY <1>5, <1>6 DEF Numbers
<1>9. \A l \in Legs : Coming(l)' = Coming(l) /\ Delay(l)' = Delay(l)
  BY <1>1 DEF Coming, Delay
<1>10. Heard(p)'
  BY <1>1, <1>4, <1>7, <1>8, <1>9 DEF Heard
<1>11. Tops(p, t)'
  BY <1>1, <1>5, <1>6, <1>7, <1>8 DEF Tops
<1>12. Broken(p)'
  BY <1>1 DEF BeforeMove, Broken
<1>13. NoCopyPasses(p, t)'
  <2> SUFFICES ASSUME NEW j \in aired, Awaited(j)' PROVE Safe(j)' /\ ~ New(j)' /\ j <= t
    BY <1>1, <1>5, <1>8 DEF NoCopyPasses
  <2>1. j \in Nat /\ j <= t /\ j <= clock /\ ~ New(j)' /\ SeqOf(j)' = SeqAt(j)
    BY <1>5, <1>7, <1>8
  <2>2. \A l \in Legs : Coming(l)' \in Int /\ Coming(l)' >= clock - lag
    BY <1>9 DEF Coming, Numbers
  <2>3. t - j <= lag
    BY <1>8, <2>1, <2>2 DEF Awaited, Numbers
  <2>4. t - j < SeqSpace /\ t - j <= Half /\ t - j \in Nat
    BY <1>5, <2>1, <2>3 DEF Numbers
  <2>5. Backward(SeqOf(j))' = t - j
    BY <1>1, <1>5, <2>1, <2>4, SeqDistance DEF Backward
  <2>6. ASSUME t - j < Window PROVE SlotBehind(t - j) \in emitted
    <3>1. t - j \in Slots /\ t - (t - j) = j
      BY <1>5, <2>1, <2>4, <2>6 DEF Slots, Numbers
    <3> QED BY <1>3, <3>1 DEF Follows, Agrees
  <2>7. SlotBehind(Backward(SeqOf(j)))' = SlotBehind(t - j)
    BY <1>1, <2>5 DEF SlotBehind
  <2> QED BY <1>1, <2>1, <2>4, <2>5, <2>6, <2>7 DEF Safe
<1>14. last_accept' <= clock' /\ aired' \subseteq 0 .. last_accept'
  <2>1. \A j \in aired : j \in Nat /\ j <= last_accept
    BY <1>5 DEF Numbers
  <2> QED BY <1>1, <1>5, <2>1 DEF Numbers
<1>15. AfterMove(p, t)'
  BY <1>1, <1>2, <1>10, <1>11, <1>12, <1>13, <1>14 DEF AfterMove
<1> QED BY <1>1, <1>5, <1>7, <1>8, <1>15

MoveTypesOK ==
    /\ PairTypes /\ lag \in Lags
    /\ move.at \in Nat /\ move.shift \in NewIsns \cup {0}

OnceInv ==
    /\ MoveTypesOK
    /\ move = NotMoved => \E p \in [Legs -> Nat] : BeforeMove(p)
    /\ move # NotMoved => \E p \in [Legs -> Nat] : \E t \in aired : AfterMove(p, t)

LEMMA NumbersOK ==
    ASSUME MoveBounds, MoveTypesOK
    PROVE  Numbers
<1>1. /\ Half \in Nat /\ Window \in Nat \ {0} /\ SeqSpace = 2 * Half
      /\ MaxMissed \in Nat /\ MaxMissed + Window < Half
      /\ clock \in Nat /\ last_accept \in Nat /\ missed \in [Legs -> 0 .. MaxMissed]
      /\ lag \in Nat /\ lag + Window <= Half /\ move.at \in Nat
  BY HalfAssumption, WindowAssumption, PairAssumption
     DEF MoveBounds, MoveTypesOK, PairTypes, TypeOK, SeqSpace
<1>2. stale_after \in Nat /\ stale_after >= lag + 1
  <2>1. stale_after \in Nat /\ stale_after >= lag + Margin /\ Margin \in Nat /\ Margin >= 1
    BY PairAssumption DEF MoveBounds, MoveTypesOK, PairTypes, TypeOK, StaleAfterLag
  <2> QED BY <1>1, <2>1
<1>3. move.shift \in Nat /\ move.shift < SeqSpace
  <2>1. CASE move.shift = 0
    BY <1>1, <2>1
  <2>2. CASE move.shift \in NewIsns
    <3>1. move.shift \in 1 .. SeqSpace - 1
      BY <2>2, PairAssumption
    <3> QED BY <1>1, <3>1
  <2> QED BY <2>1, <2>2 DEF MoveTypesOK
<1>4. Near \/ move.shift >= Half
  <2>1. CASE move.shift = 0
    BY <1>1, <2>1 DEF Near
  <2>2. CASE move.shift \in NewIsns
    BY <2>2 DEF Near, MoveBounds, MoveTypesOK
  <2> QED BY <2>1, <2>2 DEF MoveTypesOK
<1>5. /\ \A l \in Legs : Delay(l) \in {0, lag}
      /\ Delay(Lead) = 0 /\ \A l \in Legs \ {Lead} : Delay(l) = lag
  BY DEF Delay
<1> QED BY <1>1, <1>2, <1>3, <1>4, <1>5 DEF Numbers

LEMMA OnceStarts ==
    ASSUME MoveBounds, PairInit
    PROVE  OnceInv
<1>1. MoveTypesOK /\ move = NotMoved
  <2>1. PairTypes /\ lag \in Lags /\ move = NotMoved
    BY PairStarts DEF PairInv, PairInit, NetInit
  <2> QED BY <2>1, PairAssumption DEF MoveTypesOK, NotMoved
<1>2. lag <= Half
  BY <1>1, NumbersOK DEF Numbers
<1>3. InStep
  BY <1>1, <1>2, PairStarts DEF PairInv
<1>4. moved = {} /\ \A m \in Legs : last_break.leg # m
  BY LegsAssumption DEF PairInit, Init, NoBreak
<1>5. aired = {} /\ \A l \in Legs : leg_seq[l] = None
  BY DEF PairInit, Init, NetInit
<1>6. PICK p \in [Legs -> Nat] : p = [l \in Legs |-> 0]
  OBVIOUS
<1>7. Heard(p) /\ \A l \in Legs : leg_seq[l] # None => \E u \in aired : p[l] <= u
  BY <1>5 DEF Heard
<1> QED BY <1>1, <1>3, <1>4, <1>7 DEF OnceInv, BeforeMove

\* Every step keeps the invariant, and a packet that goes out was not aired.
LEMMA OnceStep ==
    ASSUME MoveBounds, OnceInv, [PairNext]_pairVars
    PROVE  OnceInv' /\ [out' # None => here' \notin aired]_pairVars
<1>0. PairTypes /\ Numbers /\ MoveTypesOK
  BY NumbersOK DEF OnceInv, MoveTypesOK
<1>1. ASSUME NEW l \in Legs, Deliver(l)
      PROVE  OnceInv' /\ (out' # None => here' \notin aired)
  <2>1. MoveTypesOK' /\ move' = move
    BY <1>0, <1>1, DeliverTypes DEF MoveTypesOK, Deliver
  <2>2. CASE move = NotMoved
    <3>1. PICK p \in [Legs -> Nat] : BeforeMove(p)
      BY <2>2 DEF OnceInv
    <3>2. /\ out' # None => here' \notin aired
          /\ \E i \in Nat : \E q \in [Legs -> Nat] : BeforeMove(q)'
      BY <1>0, <1>1, <2>2, <3>1, DeliverBeforeMove
    <3> QED BY <2>1, <2>2, <3>2 DEF OnceInv, NotMoved
  <2>3. CASE move # NotMoved
    <3>1. PICK p \in [Legs -> Nat], t \in aired : AfterMove(p, t)
      BY <2>3 DEF OnceInv
    <3>2. /\ out' # None => here' \notin aired
          /\ \E i \in Nat : \E q \in [Legs -> Nat] : \E u \in aired' : AfterMove(q, u)'
      BY <1>0, <1>1, <3>1, DeliverAfterMove
    <3> QED BY <2>1, <2>3, <3>2 DEF OnceInv, NotMoved
  <2> QED BY <2>2, <2>3
<1>2. ASSUME NEW losing \in SUBSET Legs, Tick(losing)
      PROVE  OnceInv' /\ out' = None
  <2>1. MoveTypesOK' /\ move' = move /\ out' = None
    BY <1>0, <1>2, TickKeeps DEF MoveTypesOK, Tick
  <2>2. CASE move = NotMoved
    <3>1. PICK p \in [Legs -> Nat] : BeforeMove(p)
      BY <2>2 DEF OnceInv
    <3>2. BeforeMove(p)'
      BY <1>0, <1>2, <2>2, <3>1, TickBeforeMove
    <3> QED BY <2>1, <2>2, <3>2 DEF OnceInv, NotMoved
  <2>3. CASE move # NotMoved
    <3>1. PICK p \in [Legs -> Nat], t \in aired : AfterMove(p, t)
      BY <2>3 DEF OnceInv
    <3>2. t \in aired' /\ AfterMove(p, t)'
      BY <1>0, <1>2, <3>1, TickAfterMove
    <3> QED BY <2>1, <2>3, <3>2 DEF OnceInv, NotMoved
  <2> QED BY <2>1, <2>2, <2>3
<1>3. ASSUME NEW shift \in NewIsns, MoveSource(shift)
      PROVE  OnceInv' /\ out' = None
  <2>1. PairTypes' /\ move' # NotMoved
    BY <1>0, <1>3, MoveTypes
  <2>2. move = NotMoved /\ move' = [at |-> clock + 1, shift |-> shift] /\ out' = None /\ lag' = lag
    BY <1>3 DEF MoveSource
  <2>3. MoveTypesOK'
    BY <1>0, <2>1, <2>2 DEF MoveTypesOK, Numbers
  <2>4. \E p \in [Legs -> Nat] : \E t \in aired' : AfterMove(p, t)'
    <3>1. PICK p \in [Legs -> Nat] : BeforeMove(p)
      BY <2>2 DEF OnceInv
    <3> QED BY <1>0, <1>3, <2>2, <3>1, MoveFollows
  <2> QED BY <2>1, <2>2, <2>3, <2>4 DEF OnceInv, NotMoved
<1>4. ASSUME UNCHANGED pairVars PROVE OnceInv'
  <2>1. /\ UNCHANGED <<lag, due, missed, move, here, aired, clock, out>>
        /\ UNCHANGED <<highest_seq, highest_slot, emitted, last_accept, last_break, initialized>>
        /\ UNCHANGED <<covered, reset_tail, lost, skipped, resets, leg_seq, moved, active_leg, stale_after>>
    BY <1>4 DEF pairVars, vars, netVars, mergerVars, windowVars, countVars, legVars
  <2>2. MoveTypesOK'
    BY <1>0, <2>1 DEF MoveTypesOK, PairTypes, TypeOK, DueAt, Delay, StaleAfterLag
  <2>3. ASSUME NEW p \in [Legs -> Nat], BeforeMove(p) PROVE BeforeMove(p)'
    BY <2>1, <2>3 DEF BeforeMove, InStep, Follows, Agrees, SlotBehind, Wrap, Heard, Coming, Delay, SeqOf
  <2>4. ASSUME NEW p \in [Legs -> Nat], NEW t \in aired, AfterMove(p, t) PROVE AfterMove(p, t)'
    BY <2>1, <2>4 DEF AfterMove, Heard, Tops, Broken, NoCopyPasses, Awaited, Safe, New, Near,
       Coming, Delay, SeqOf, Backward, SlotBehind, Wrap
  <2> QED BY <2>1, <2>2, <2>3, <2>4 DEF OnceInv, NotMoved
<1>5. CASE \E l \in Legs : Deliver(l)
  <2>1. PICK l \in Legs : Deliver(l)
    BY <1>5
  <2> QED BY <1>1, <2>1
<1>6. CASE \E losing \in SUBSET Legs : Tick(losing)
  <2>1. PICK losing \in SUBSET Legs : Tick(losing)
    BY <1>6
  <2> QED BY <1>2, <2>1
<1>7. CASE \E shift \in NewIsns : MoveSource(shift)
  <2>1. PICK shift \in NewIsns : MoveSource(shift)
    BY <1>7
  <2> QED BY <1>3, <2>1
<1> QED BY <1>4, <1>5, <1>6, <1>7 DEF PairNext

(* No packet of the source goes out twice, wherever the source restarts: for  *)
(* every sequence space, window, lag and outages within MoveBounds, neither   *)
(* the window nor the stale rule nor the both-legs rule of stream_moved lets  *)
(* through a copy of a packet that was forwarded.                             *)
THEOREM NothingAiredTwice ==
    ASSUME MoveBounds
    PROVE  PairSpec => AiredOnce
<1>1. PairInit => OnceInv
  BY OnceStarts
<1>2. OnceInv /\ [PairNext]_pairVars => OnceInv' /\ [out' # None => here' \notin aired]_pairVars
  BY OnceStep
<1> QED
  BY <1>1, <1>2, PTL DEF PairSpec, AiredOnce

----------------------------------------------------------------------------
(* A leg that keeps delivering is not discarded for good.                     *)

\* How long nothing was accepted; whether a packet of leg l is yet to come this
\* tick; and how many packets leg l, on the moved stream, has to go until it comes
\* round to the highest packet of the old one.
Silence       == clock - last_accept
Owes(l)       == IF l \in due THEN 1 ELSE 0
Left(p, t, l) == SeqSpace - move.shift - (p[l] - t)

\* What streak says of a leg: its last packet is that of this tick, or the one before.
Steady(p) ==
    \A l \in Legs :
        /\ streak[l] \in Nat
        /\ l \in due \/ streak[l] > 0 => missed[l] = 0
        /\ l \in due /\ streak[l] > 1 =>
              clock <= Delay(l) \/ (leg_seq[l] # None /\ p[l] >= clock - Delay(l) - 1)
        /\ l \notin due /\ streak[l] > 0 => clock < Delay(l) \/ leg_seq[l] # None

\* A leg that broke its sequence is followed once the stale time is over, unless it
\* is already inside the window, and a leg inside the window leaves it at the front.
ComesRound(p, t, l) ==
    \A k \in Nat : Silence - Owes(l) >= stale_after + k /\ streak[l] - Owes(l) > k
                     => Left(p, t, l) <= Window - 1 - k
ComesIn(p, t, l) ==
    /\ Left(p, t, l) <= Window - 1
    /\ \A k \in Nat : Silence - Owes(l) >= k /\ streak[l] - Owes(l) >= k
                        => Left(p, t, l) <= Window - 1 - k

\* What was accepted last is no older than a leg's last packet, unless the leg is
\* on the moved stream and the highest packet is not; then the leg's break is
\* remembered, or the move was too short to hold it up for long.
Lively(p, t) ==
    /\ \A l \in Legs : New(t) \/ ~ New(p[l]) => p[l] <= last_accept
    /\ New(t) /\ (\E m \in Legs : ~ New(p[m])) /\ ~ Near
         => SeqSpace - move.shift <= lag + MaxMissed
    /\ \A l \in Legs : ~ New(t) /\ New(p[l]) =>
          \/ l \in moved /\ ComesRound(p, t, l)
          \/ l \notin moved /\ SeqSpace - move.shift <= Window + lag + MaxMissed
          \/ l \notin moved /\ (\A m \in Legs : New(p[m])) /\ ComesIn(p, t, l)

\* The instances: as before, with outages shorter than the margin of the stale time
\* and, the lag added, than half the sequence space.
LiveBounds ==
    /\ MoveBounds /\ MaxMissed + 1 < Margin
    /\ \A d \in Lags : d + MaxMissed + 1 < Half

LiveNumbers ==
    /\ Numbers /\ Margin \in Nat /\ MaxMissed + 1 < Margin
    /\ stale_after = lag + Margin /\ lag + MaxMissed + 1 < Half

\* A leg with a streak has just delivered, or its first packet is not yet due.
LEMMA SteadyRecent ==
    ASSUME Numbers, NEW p \in [Legs -> Nat], Heard(p), Steady(p), NEW l \in Legs, streak[l] > 1
    PROVE  clock <= Delay(l) \/ (leg_seq[l] # None /\ p[l] >= clock - Delay(l) - 1)
<1>1. clock \in Nat /\ Delay(l) \in Nat /\ streak[l] \in Nat /\ p[l] \in Nat
  BY DEF Numbers, Steady
<1>2. CASE l \in due
  BY <1>2 DEF Steady
<1>3. CASE l \notin due
  <2>1. missed[l] = 0 /\ (clock < Delay(l) \/ leg_seq[l] # None)
    BY <1>1, <1>3 DEF Steady
  <2>2. leg_seq[l] # None => p[l] >= clock - Delay(l)
    BY <1>3, <2>1, <1>1 DEF Heard
  <2> QED BY <1>1, <2>1, <2>2
<1> QED BY <1>2, <1>3

LEMMA SteadyOn ==
    ASSUME Numbers, NEW l \in Legs, NEW i \in Nat, NEW p \in [Legs -> Nat],
           NEW q \in [Legs -> Nat], q = [p EXCEPT ![l] = i], Steady(p), l \in due,
           UNCHANGED <<clock, missed, streak, lag>>, due' = due \ {l}, SeqOf(i) \in Seqs,
           leg_seq \in [Legs -> Seqs \cup {None}], leg_seq' = [leg_seq EXCEPT ![l] = SeqOf(i)]
    PROVE  Steady(q)'
<1>1. SeqOf(i) # None
  BY LegsAssumption, HalfAssumption DEF Seqs, SeqSpace
<1>2. \A m \in Legs : Delay(m)' = Delay(m)
  BY DEF Delay
<1>3. ASSUME NEW m \in Legs
      PROVE  /\ streak'[m] \in Nat
             /\ m \in due' \/ streak'[m] > 0 => missed'[m] = 0
             /\ m \in due' /\ streak'[m] > 1 =>
                   clock' <= Delay(m)' \/ (leg_seq'[m] # None /\ q[m] >= clock' - Delay(m)' - 1)
             /\ m \notin due' /\ streak'[m] > 0 => clock' < Delay(m)' \/ leg_seq'[m] # None
  <2>1. CASE m = l
    BY <1>1, <1>2, <2>1 DEF Steady
  <2>2. CASE m # l
    BY <1>2, <2>2 DEF Steady
  <2> QED BY <2>1, <2>2
<1> QED BY <1>3 DEF Steady

LEMMA SteadyTicks ==
    ASSUME Numbers, Patience \in Nat, NEW p \in [Legs -> Nat], Heard(p), Steady(p),
           NEW losing \in SUBSET Legs, Tick(losing)
    PROVE  /\ Steady(p)'
           /\ \A l \in Legs : streak'[l] <= streak[l] + 1 /\ (l \notin due' => streak'[l] = 0 \/ clock' < Delay(l))
<1>1. /\ due = {} /\ clock' = clock + 1 /\ lag' = lag /\ leg_seq' = leg_seq
      /\ due' = DueAt(clock + 1) \ losing
      /\ missed' = [l \in Legs |-> IF l \in losing THEN missed[l] + 1 ELSE 0]
      /\ streak' = [l \in Legs |-> IF l \in losing THEN 0 ELSE Lesser(streak[l] + 1, Patience + 1)]
  BY DEF Tick, mergerVars
<1>2. \A l \in Legs : Delay(l)' = Delay(l) /\ Delay(l) \in Nat
  BY <1>1 DEF Delay, Numbers
<1>3. \A l \in Legs : streak[l] \in Nat
  BY DEF Steady
<1>4. ASSUME NEW l \in Legs
      PROVE  /\ streak'[l] \in Nat /\ streak'[l] <= streak[l] + 1
             /\ l \notin losing => missed'[l] = 0
             /\ l \in losing => streak'[l] = 0
             /\ l \notin due' => streak'[l] = 0 \/ clock' < Delay(l)
  BY <1>1, <1>2, <1>3 DEF Lesser, DueAt, Numbers
<1>5. ASSUME NEW l \in Legs, l \in due', streak'[l] > 1
      PROVE  clock' <= Delay(l) \/ (leg_seq[l] # None /\ p[l] >= clock' - Delay(l) - 1)
  <2>1. streak[l] > 0 /\ l \notin due
    BY <1>1, <1>3, <1>4, <1>5
  <2>2. missed[l] = 0 /\ (clock < Delay(l) \/ leg_seq[l] # None)
    BY <2>1 DEF Steady
  <2>3. leg_seq[l] # None => p[l] >= clock - Delay(l)
    BY <1>2, <2>1, <2>2 DEF Heard, Numbers
  <2> QED BY <1>1, <1>2, <2>2, <2>3 DEF Numbers
<1>6. ASSUME NEW l \in Legs
      PROVE  /\ streak'[l] \in Nat
             /\ l \in due' \/ streak'[l] > 0 => missed'[l] = 0
             /\ l \in due' /\ streak'[l] > 1 =>
                   clock' <= Delay(l)' \/ (leg_seq'[l] # None /\ p[l] >= clock' - Delay(l)' - 1)
             /\ l \notin due' /\ streak'[l] > 0 => clock' < Delay(l)' \/ leg_seq'[l] # None
  BY <1>1, <1>2, <1>4, <1>5
<1> QED BY <1>4, <1>6 DEF Steady

\* The packet of a delivery against the legs' last ones and the highest one.
LEMMA InReach ==
    ASSUME PairTypes, Numbers, NEW p \in [Legs -> Nat], NEW t \in aired, AfterMove(p, t),
           NEW l \in Legs, Deliver(l), NEW i \in Nat, i = clock - Delay(l)
    PROVE  /\ t \in Nat /\ t <= last_accept /\ last_accept <= clock /\ t <= clock
           /\ i = Coming(l) /\ i <= clock /\ i >= clock - lag
           /\ p[l] < i /\ i <= p[l] + MaxMissed + 1
           /\ \A m \in Legs : p[m] >= clock - lag - MaxMissed - 1 /\ p[m] <= clock
           /\ leg_seq[l] # None /\ leg_seq[l] = SeqOf(p[l])
           /\ BreaksLeg(SeqOf(i), leg_seq[l]) => New(i) /\ ~ New(p[l])
<1>1. /\ i = Coming(l) /\ i <= clock /\ i >= clock - lag
  <2>1. l \in due /\ Delay(l) \in {0, lag}
    BY DEF Deliver, Numbers
  <2> QED BY <2>1 DEF Coming, Numbers
<1>2. /\ aired \subseteq 0 .. last_accept /\ last_accept <= clock /\ Heard(p)
      /\ \A m \in Legs : leg_seq[m] # None
  BY DEF AfterMove
<1>3. t \in Nat /\ t <= last_accept /\ t <= clock
  BY <1>2 DEF Numbers
<1>4. ASSUME NEW m \in Legs PROVE p[m] >= clock - lag - MaxMissed - 1 /\ p[m] <= clock
  <2>1. /\ p[m] < Coming(m)
        /\ p[m] >= clock - Delay(m) - (IF m \in due THEN MaxMissed + 1 ELSE missed[m])
    BY <1>2 DEF Heard
  <2>2. missed[m] \in 0 .. MaxMissed /\ Delay(m) \in {0, lag}
    BY DEF Numbers
  <2> QED BY <2>1, <2>2 DEF Coming, Numbers
<1>5. /\ leg_seq[l] # None /\ leg_seq[l] = SeqOf(p[l])
      /\ p[l] < i /\ i <= p[l] + MaxMissed + 1
  <2>1. /\ leg_seq[l] = SeqOf(p[l]) /\ p[l] < Coming(l) /\ l \in due
        /\ p[l] >= clock - Delay(l) - (IF l \in due THEN MaxMissed + 1 ELSE missed[l])
    BY <1>2 DEF Heard, Deliver
  <2>2. p[l] \in Nat /\ Delay(l) \in {0, lag}
    BY DEF Numbers
  <2> QED BY <1>1, <1>2, <2>1, <2>2 DEF Numbers
<1>6. p[l] \in Nat
  OBVIOUS
<1>7. BreaksLeg(SeqOf(i), leg_seq[l]) => New(i) /\ ~ New(p[l])
  BY <1>5, <1>6, BreakCrosses
<1> QED BY <1>1, <1>2, <1>3, <1>4, <1>5, <1>7

\* The window moved to i, or stayed: how far the move of the source can be, when
\* one leg has crossed and the other has not.
LEMMA MoveIsShort ==
    ASSUME PairTypes, LiveNumbers, NEW p \in [Legs -> Nat], NEW t \in aired, AfterMove(p, t),
           Lively(p, t), NEW l \in Legs, Deliver(l), NEW i \in Nat, i = clock - Delay(l),
           NEW m \in Legs \ {l}
    PROVE  /\ /\ New(i) /\ ~ New(p[m]) /\ ~ Near
              /\ IsForward(SeqOf(i)) \/ StreamMoved(SeqOf(i), l, leg_seq[l], clock)
              => SeqSpace - move.shift <= lag + MaxMissed
           /\ ~ New(i) /\ New(t) /\ IsForward(SeqOf(i)) => SeqSpace - move.shift <= lag + MaxMissed
           /\ ~ New(p[m]) /\ New(i) /\ ~ New(t) /\ ~ IsForward(SeqOf(i)) /\ Backward(SeqOf(i)) < Window
              => SeqSpace - move.shift <= Window + lag + MaxMissed
<1>0. Numbers
  BY DEF LiveNumbers
<1>1. /\ t \in Nat /\ t <= last_accept /\ last_accept <= clock /\ t <= clock
      /\ i <= clock /\ i >= clock - lag /\ p[l] < i /\ i <= p[l] + MaxMissed + 1
      /\ \A k \in Legs : p[k] >= clock - lag - MaxMissed - 1 /\ p[k] <= clock
      /\ BreaksLeg(SeqOf(i), leg_seq[l]) => New(i) /\ ~ New(p[l])
  BY <1>0, InReach
<1>2. Tops(p, t) /\ Broken(p)
  BY DEF AfterMove
<1>3. /\ t - i <= lag
      /\ New(t) => i - t <= lag + MaxMissed + 1
      /\ ~ New(t) /\ New(i) => i - t + move.shift <= SeqSpace + MaxMissed + 1
      /\ Around(Forward(SeqOf(i)), Pos(i) - Pos(t))
      /\ Around(Backward(SeqOf(i)), Pos(t) - Pos(i))
  BY <1>0, <1>1, <1>2, FromHighest
<1>4. PICK f \in Nat, k \in Nat : f = Forward(SeqOf(i)) /\ k = Backward(SeqOf(i))
                                   /\ f < SeqSpace /\ k < SeqSpace
  BY <1>0, <1>3 DEF Around, Seqs, Numbers
<1>5. LET d == Pos(i) - Pos(t)
      IN  f = d \/ f = d + SeqSpace \/ f = d - SeqSpace \/ f = d + 2 * SeqSpace
  BY <1>3, <1>4 DEF Around
<1>6. LET e == Pos(t) - Pos(i)
      IN  k = e \/ k = e + SeqSpace \/ k = e - SeqSpace \/ k = e + 2 * SeqSpace
  BY <1>3, <1>4 DEF Around
<1>7. ASSUME ~ New(t), ~ New(p[m]) PROVE i - t <= lag + MaxMissed + 1 /\ t >= clock - lag - MaxMissed - 1
  <2>1. t >= p[m] /\ p[m] >= clock - lag - MaxMissed - 1 /\ p[m] \in Nat
    BY <1>1, <1>2, <1>7 DEF Tops
  <2> QED BY <1>0, <1>1, <2>1 DEF Numbers
<1>8. ASSUME New(i), ~ New(p[m]), ~ Near,
             IsForward(SeqOf(i)) \/ StreamMoved(SeqOf(i), l, leg_seq[l], clock)
      PROVE  SeqSpace - move.shift <= lag + MaxMissed
  <2>1. CASE New(t)
    BY <1>8, <2>1 DEF Lively
  <2>2. CASE ~ New(t) /\ IsForward(SeqOf(i))
    BY <1>0, <1>1, <1>3, <1>4, <1>5, <1>7, <1>8, <2>2 DEF IsForward, Pos, New, Numbers
  <2>3. CASE ~ New(t) /\ StreamMoved(SeqOf(i), l, leg_seq[l], clock)
    <3>1. CASE clock - last_accept >= stale_after
      BY <1>0, <1>1, <1>7, <1>8, <2>3, <3>1 DEF LiveNumbers, Numbers
    <3>2. CASE last_break # NoBreak /\ last_break.leg # l
      <4>1. last_break.leg \in Legs
        BY <3>2 DEF PairTypes, TypeOK, Breaks
      <4>2. last_break.leg = m
        BY <3>2, <4>1, PairAssumption
      <4> QED BY <1>2, <1>8, <4>2 DEF Broken
    <3> QED BY <2>3, <3>1, <3>2 DEF StreamMoved
  <2> QED BY <1>8, <2>1, <2>2, <2>3
<1>9. ASSUME ~ New(i), New(t), IsForward(SeqOf(i))
      PROVE  SeqSpace - move.shift <= lag + MaxMissed
  <2>1. ~ New(p[l])
    BY <1>0, <1>1, <1>9 DEF New, Numbers
  <2>2. ~ Near
    BY <1>0, <1>1, <1>3, <1>4, <1>5, <1>9 DEF IsForward, Pos, New, Near, Numbers
  <2> QED BY <1>9, <2>1, <2>2 DEF Lively
<1>10. ASSUME ~ New(p[m]), New(i), ~ New(t), ~ IsForward(SeqOf(i)), Backward(SeqOf(i)) < Window
       PROVE  SeqSpace - move.shift <= Window + lag + MaxMissed
  BY <1>0, <1>1, <1>3, <1>4, <1>6, <1>7, <1>10 DEF Pos, New, Numbers
<1> QED BY <1>8, <1>9, <1>10

\* A packet that is forwarded ends the silence.
LEMMA LivelyTaken ==
    ASSUME PairTypes, LiveNumbers, NEW p \in [Legs -> Nat], NEW t \in aired, AfterMove(p, t),
           Lively(p, t), NEW l \in Legs, Deliver(l), NEW i \in Nat, i = clock - Delay(l),
           NEW q \in [Legs -> Nat], q = [p EXCEPT ![l] = i], NEW u \in Nat,
           Tops(q, u)', Settles(l, i, t, u), Taken(l, clock)
    PROVE  Lively(q, u)'
<1>0. Numbers
  BY DEF LiveNumbers
<1>1. /\ t \in Nat /\ i <= clock /\ p[l] < i
      /\ \A k \in Legs : p[k] >= clock - lag - MaxMissed - 1 /\ p[k] <= clock
  BY <1>0, InReach
<1>2. /\ UNCHANGED <<clock, move, lag>> /\ last_accept' = clock /\ moved' = moved \ {l}
      /\ due' = due \ {l} /\ stale_after' = stale_after
  BY DEF Deliver, Taken, TryMerge
<1>3. \A x \in Nat : New(x)' <=> New(x)
  BY <1>2 DEF New
<1>4. /\ Silence' = 0 /\ (Near' <=> Near)
      /\ \A m \in Legs : New(p[m]) => New(q[m])
      /\ \A m \in Legs : q[m] \in Nat /\ q[m] <= clock /\ Owes(m)' \in {0, 1}
  BY <1>0, <1>1, <1>2 DEF Silence, Near, New, Owes, Numbers
<1>5. \A m \in Legs : New(u)' \/ ~ New(q[m])' => q[m] <= last_accept'
  BY <1>2, <1>4
<1>6. ASSUME New(u), NEW n \in Legs, ~ New(q[n]), ~ Near
      PROVE  SeqSpace - move.shift <= lag + MaxMissed
  <2>1. ~ New(p[n])
    BY <1>4, <1>6
  <2>2. CASE u = i
    <3>1. n # l /\ New(i)
      BY <1>6, <2>2
    <3>2. CASE IsForward(SeqOf(i)) \/ StreamMoved(SeqOf(i), l, leg_seq[l], clock)
      BY <1>6, <2>1, <3>1, <3>2, MoveIsShort
    <3>3. CASE u = t
      BY <1>6, <2>1, <3>3 DEF Lively
    <3> QED BY <3>2, <3>3 DEF Settles
  <2>3. CASE u = t
    BY <1>6, <2>1, <2>3 DEF Lively
  <2> QED BY <2>2, <2>3 DEF Settles
<1>7. ASSUME ~ New(u), NEW m \in Legs, New(q[m])
      PROVE  \/ m \in moved' /\ ComesRound(q, u, m)'
             \/ m \notin moved' /\ SeqSpace - move.shift <= Window + lag + MaxMissed
             \/ m \notin moved' /\ (\A n \in Legs : New(q[n])) /\ ComesIn(q, u, m)'
  <2>1. ComesRound(q, u, m)'
    BY <1>0, <1>2, <1>4 DEF ComesRound, LiveNumbers, Numbers
  <2>2. ASSUME Left(q, u, m)' <= Window - 1, Left(q, u, m)' \in Int PROVE ComesIn(q, u, m)'
    <3>1. ASSUME NEW k \in Nat, 0 - Owes(m)' >= k PROVE k = 0
      BY <1>4, <3>1
    <3>2. Window - 1 - 0 = Window - 1
      BY <1>0 DEF Numbers
    <3> QED BY <1>4, <2>2, <3>1, <3>2 DEF ComesIn
  <2>3. Left(q, u, m)' = SeqSpace - move.shift - (q[m] - u) /\ Left(q, u, m)' \in Int
    BY <1>0, <1>2, <1>4 DEF Left, Numbers
  <2>4. CASE m # l
    <3>0. New(p[m]) /\ q[m] = p[m] /\ (m \in moved' <=> m \in moved)
      BY <1>2, <1>7, <2>4
    <3>1. CASE u = t
      <4>1. \/ m \in moved
            \/ m \notin moved /\ SeqSpace - move.shift <= Window + lag + MaxMissed
            \/ m \notin moved /\ (\A n \in Legs : New(p[n])) /\ Left(p, t, m) <= Window - 1
        BY <1>7, <3>0, <3>1 DEF Lively, ComesIn
      <4>2. Left(p, t, m) = SeqSpace - move.shift - (q[m] - u)
        BY <3>0, <3>1 DEF Left
      <4> QED BY <1>4, <2>1, <2>2, <2>3, <3>0, <4>1, <4>2
    <3>2. CASE u = i /\ u # t
      <4>1. IsForward(SeqOf(i))
        <5>1. ASSUME StreamMoved(SeqOf(i), l, leg_seq[l], clock) PROVE New(i)
          <6>1. /\ Heard(p) /\ Broken(p) /\ aired \subseteq 0 .. last_accept
                /\ \A n \in Legs : leg_seq[n] # None
            BY DEF AfterMove
          <6>2. /\ i = Coming(l)
                /\ BreaksLeg(SeqOf(i), leg_seq[l]) => New(i) /\ ~ New(p[l])
            BY <1>0, InReach
          <6> QED BY <1>0, <1>1, <5>1, <6>1, <6>2, MoveIsLate
        <5> QED BY <1>7, <3>2, <5>1 DEF Settles
      <4>2. ~ New(p[l])
        BY <1>0, <1>1, <1>7, <3>2 DEF New, Numbers
      <4>3. CASE New(t)
        <5>1. SeqSpace - move.shift <= lag + MaxMissed
          BY <1>7, <2>4, <3>2, <4>1, <4>3, MoveIsShort
        <5>2. SeqSpace - move.shift <= Window + lag + MaxMissed
          BY <1>0, <5>1 DEF Numbers
        <5> QED BY <2>1, <5>2
      <4>4. CASE ~ New(t)
        <5>1. m \in moved \/ SeqSpace - move.shift <= Window + lag + MaxMissed
          BY <3>0, <4>2, <4>4 DEF Lively
        <5> QED BY <2>1, <3>0, <5>1
      <4> QED BY <4>3, <4>4
    <3> QED BY <3>1, <3>2 DEF Settles
  <2>5. CASE m = l
    <3>1. New(i) /\ m \notin moved' /\ u = t /\ u # i
      BY <1>2, <1>7, <2>5 DEF Settles
    <3>2. ~ IsForward(SeqOf(i)) /\ Backward(SeqOf(i)) < Window
      <4>1. ~ Refused(SeqOf(i), l, clock)
        BY LegsAssumption DEF Taken, Refused
      <4> QED BY <3>1, <4>1 DEF Settles
    <3>3. CASE \A n \in Legs : New(q[n])
      <4>1. Left(q, u, m)' <= Window - 1
        <5>1. q[m] = i
          BY <2>5
        <5>2. i - t <= SeqSpace - move.shift
          <6>1. ~ New(u)' /\ New(q[m])'
            BY <1>3, <1>4, <1>7
          <6> QED BY <1>2, <3>1, <5>1, <6>1 DEF Tops
        <5>3. Around(Backward(SeqOf(i)), Pos(t) - Pos(i))
          <6>1. Tops(p, t)
            BY DEF AfterMove
          <6>2. /\ t <= clock /\ i >= clock - lag /\ i <= p[l] + MaxMissed + 1
            BY <1>0, InReach
          <6> QED BY <1>0, <1>1, <6>1, <6>2, FromHighest
        <5>4. PICK k \in Nat : k = Backward(SeqOf(i)) /\ k < Window
          BY <1>0, <3>2, <5>3 DEF Around, Seqs, Numbers
        <5>5. LET e == Pos(t) - Pos(i)
              IN  k = e \/ k = e + SeqSpace \/ k = e - SeqSpace \/ k = e + 2 * SeqSpace
          BY <5>3, <5>4 DEF Around
        <5>6. SeqSpace - move.shift - (i - t) <= Window - 1
          BY <1>0, <1>1, <1>7, <3>1, <5>2, <5>4, <5>5 DEF Pos, New, Numbers
        <5> QED BY <2>3, <3>1, <5>1, <5>6
      <4> QED BY <2>2, <2>3, <3>1, <3>3, <4>1
    <3>4. CASE \E n \in Legs : ~ New(q[n])
      <4>1. PICK n \in Legs : ~ New(q[n])
        BY <3>4
      <4>2. n # l /\ ~ New(p[n])
        BY <1>4, <1>7, <2>5, <4>1
      <4> QED BY <1>7, <3>1, <3>2, <4>2, MoveIsShort
    <3> QED BY <3>3, <3>4
  <2> QED BY <2>4, <2>5
<1>8. \A m \in Legs : New(q[m])' <=> New(q[m])
  BY <1>3, <1>4
<1>9. New(u)' <=> New(u)
  BY <1>3
<1> QED BY <1>2, <1>4, <1>5, <1>6, <1>7, <1>8, <1>9 DEF Lively

\* A leg crosses to the moved stream without a break, its packet behind the window:
\* the move is shorter than the window and an outage.
LEMMA CrossedUnbroken ==
    ASSUME Numbers, NEW x \in Nat, NEW i \in Nat, NEW t \in Nat, ~ New(x), New(i), ~ New(t),
           x < i, i <= x + MaxMissed + 1, t >= x, i - t <= SeqSpace - move.shift,
           Around(Forward(SeqOf(i)), Pos(i) - Pos(t)), ~ IsForward(SeqOf(i)),
           ~ BehindWindow(SeqOf(i), SeqOf(x))
    PROVE  SeqSpace - move.shift <= Window + MaxMissed
<1>1. PICK f \in Nat : f = Forward(SeqOf(i)) /\ f < SeqSpace /\ (f = 0 \/ f >= Half)
  BY DEF Around, IsForward, Seqs, Numbers
<1>2. LET d == Pos(i) - Pos(t)
      IN  f = d \/ f = d + SeqSpace \/ f = d - SeqSpace \/ f = d + 2 * SeqSpace
  BY <1>1 DEF Around
<1>3. i - x + move.shift >= Half
  BY <1>1, <1>2 DEF Pos, New, Numbers
<1>4. Pos(i) - Pos(x) = i - x + move.shift /\ Pos(x) - Pos(i) = -(i - x + move.shift)
  BY DEF Pos, New, Numbers
<1>5. PICK g \in Nat : g = i - x + move.shift /\ g < 2 * SeqSpace
  BY DEF Numbers
<1>6. Pos(i) - Pos(x) < 2 * SeqSpace /\ Pos(x) - Pos(i) <= 2 * SeqSpace
      /\ Pos(x) - Pos(i) < 2 * SeqSpace /\ Pos(i) - Pos(x) <= 2 * SeqSpace
  BY <1>4, <1>5 DEF Numbers
<1>7. /\ Around(WrappingSub(SeqOf(i), SeqOf(x)), g)
      /\ Around(WrappingSub(SeqOf(x), SeqOf(i)), -g)
  BY <1>4, <1>5, <1>6, PosGap DEF Numbers
<1>8. PICK a \in Nat, b \in Nat : /\ a = WrappingSub(SeqOf(i), SeqOf(x)) /\ a < SeqSpace
                                  /\ b = WrappingSub(SeqOf(x), SeqOf(i)) /\ b < SeqSpace
  BY <1>7 DEF Around, Seqs, Numbers
<1>9. a < Half \/ b < Window
  BY <1>8 DEF BehindWindow, Numbers
<1>10. /\ a = g \/ a = g + SeqSpace \/ a = g - SeqSpace \/ a = g + 2 * SeqSpace
       /\ b = -g \/ b = -g + SeqSpace \/ b = -g - SeqSpace \/ b = -g + 2 * SeqSpace
  BY <1>7, <1>8 DEF Around
<1> QED BY <1>3, <1>5, <1>8, <1>9, <1>10 DEF Numbers

\* A packet that is dropped: its leg was accepted lately, or it is a step closer.
LEMMA LivelyRefused ==
    ASSUME PairTypes, LiveNumbers, NEW p \in [Legs -> Nat], NEW t \in aired, AfterMove(p, t),
           Lively(p, t), NEW l \in Legs, Deliver(l), NEW i \in Nat, i = clock - Delay(l),
           NEW q \in [Legs -> Nat], q = [p EXCEPT ![l] = i], \A m \in Legs : streak[m] \in Nat,
           Tops(q, t)', Refused(SeqOf(i), l, clock), ~ IsForward(SeqOf(i))
    PROVE  Lively(q, t)'
<1>0. Numbers
  BY DEF LiveNumbers
<1>1. /\ t \in Nat /\ t <= last_accept /\ last_accept <= clock /\ t <= clock
      /\ i <= clock /\ i >= clock - lag /\ p[l] < i /\ i <= p[l] + MaxMissed + 1
      /\ \A m \in Legs : p[m] >= clock - lag - MaxMissed - 1 /\ p[m] <= clock
      /\ leg_seq[l] # None /\ leg_seq[l] = SeqOf(p[l])
      /\ BreaksLeg(SeqOf(i), leg_seq[l]) => New(i) /\ ~ New(p[l])
  BY <1>0, InReach
<1>2. /\ UNCHANGED <<clock, move, lag, streak, last_accept, stale_after>>
      /\ due' = due \ {l} /\ l \in due /\ moved \subseteq moved'
      /\ \A m \in moved' \ moved :
            /\ m = l /\ BreaksLeg(SeqOf(i), leg_seq[l])
            /\ ~ StreamMoved(SeqOf(i), l, leg_seq[l], clock)
      /\ \/ Backward(SeqOf(i)) < Window
         \/ /\ ~ StreamMoved(SeqOf(i), l, leg_seq[l], clock)
            /\ leg_seq[l] # None /\ BreaksLeg(SeqOf(i), leg_seq[l]) => l \in moved'
  BY DEF Deliver, Refused, TryMerge
<1>3. \A x \in Nat : New(x)' <=> New(x)
  BY <1>2 DEF New
<1>4. /\ Silence' = Silence /\ Silence \in Int /\ (Near' <=> Near)
      /\ \A m \in Legs : New(p[m]) => New(q[m])
      /\ \A m \in Legs : q[m] \in Nat /\ (m # l => Owes(m)' = Owes(m))
      /\ Owes(l) = 1 /\ Owes(l)' = 0 /\ q[l] = i
  BY <1>0, <1>1, <1>2 DEF Silence, Near, New, Owes, Numbers
<1>5. Tops(p, t)
  BY DEF AfterMove
<1>6. /\ New(t) => i - t <= lag + MaxMissed + 1
      /\ t - i <= lag
      /\ Around(Forward(SeqOf(i)), Pos(i) - Pos(t))
      /\ Around(Backward(SeqOf(i)), Pos(t) - Pos(i))
  BY <1>0, <1>1, <1>5, FromHighest
<1>7. ASSUME NEW m \in Legs, New(t) \/ ~ New(q[m]) PROVE q[m] <= last_accept
  <2>1. CASE m # l
    BY <1>7, <2>1 DEF Lively
  <2>2. CASE m = l /\ ~ New(t)
    <3>1. t >= q[m]
      BY <1>2, <1>3, <1>4, <1>7, <2>2, <1>1 DEF Tops
    <3> QED BY <1>0, <1>1, <1>4, <3>1 DEF Numbers
  <2>3. CASE m = l /\ New(t)
    <3>1. PICK f \in Nat : f = Forward(SeqOf(i)) /\ f < SeqSpace /\ (f = 0 \/ f >= Half)
      BY <1>0, <1>6 DEF Around, IsForward, Seqs, Numbers
    <3>2. LET d == Pos(i) - Pos(t)
          IN  f = d \/ f = d + SeqSpace \/ f = d - SeqSpace \/ f = d + 2 * SeqSpace
      BY <1>6, <3>1 DEF Around
    <3>3. i <= t
      BY <1>0, <1>1, <1>6, <2>3, <3>1, <3>2 DEF LiveNumbers, Numbers, Pos, New
    <3> QED BY <1>0, <1>1, <1>4, <2>3, <3>3 DEF Numbers
  <2> QED BY <2>1, <2>2, <2>3
<1>8. ASSUME New(t), NEW n \in Legs, ~ New(q[n]), ~ Near
      PROVE  SeqSpace - move.shift <= lag + MaxMissed
  BY <1>4, <1>8 DEF Lively
<1>9. \A m \in Legs : /\ Left(q, t, m)' = SeqSpace - move.shift - (q[m] - t)
                      /\ Left(p, t, m) = SeqSpace - move.shift - (p[m] - t)
                      /\ Left(q, t, m)' \in Int /\ Left(p, t, m) \in Int
  BY <1>0, <1>1, <1>2, <1>4 DEF Left, Numbers
<1>10. ASSUME ~ New(t), NEW m \in Legs, m # l, New(q[m])
       PROVE  \/ m \in moved' /\ ComesRound(q, t, m)'
              \/ m \notin moved' /\ SeqSpace - move.shift <= Window + lag + MaxMissed
              \/ m \notin moved' /\ (\A n \in Legs : New(q[n])) /\ ComesIn(q, t, m)'
  <2>1. New(p[m]) /\ q[m] = p[m] /\ (m \in moved' <=> m \in moved)
    BY <1>2, <1>10
  <2>2. Left(q, t, m)' = Left(p, t, m)
    BY <1>9, <2>1
  <2>3. (ComesRound(q, t, m)' <=> ComesRound(p, t, m)) /\ (ComesIn(q, t, m)' <=> ComesIn(p, t, m))
    BY <1>2, <1>4, <1>10, <2>2 DEF ComesRound, ComesIn
  <2> QED BY <1>4, <1>10, <2>1, <2>3 DEF Lively
<1>11. ASSUME ~ New(t), New(i)
       PROVE  \/ l \in moved' /\ ComesRound(q, t, l)'
              \/ l \notin moved' /\ SeqSpace - move.shift <= Window + lag + MaxMissed
              \/ l \notin moved' /\ (\A n \in Legs : New(q[n])) /\ ComesIn(q, t, l)'
  <2>1. i - t <= SeqSpace - move.shift
    <3>1. ~ New(t)' /\ New(q[l])'
      BY <1>1, <1>3, <1>4, <1>11
    <3> QED BY <1>2, <1>4, <3>1 DEF Tops
  <2>2. PICK a \in Int, c \in Int :
          /\ a = Left(q, t, l)' /\ c = Left(p, t, l) /\ a <= c - 1
          /\ a = SeqSpace - move.shift - (i - t)
    <3>1. Left(q, t, l)' = SeqSpace - move.shift - (i - t) /\ p[l] \in Nat
      BY <1>2, <1>4 DEF Left
    <3> QED BY <1>0, <1>1, <3>1 DEF Left, Numbers
  <2>3. CASE l \in moved' /\ l \notin moved
    <3>1. BreaksLeg(SeqOf(i), leg_seq[l]) /\ ~ StreamMoved(SeqOf(i), l, leg_seq[l], clock)
      BY <1>2, <2>3
    <3>2. ~ (clock - last_accept >= stale_after)
      BY <3>1 DEF StreamMoved
    <3>3. ComesRound(q, t, l)'
      BY <1>0, <1>2, <1>4, <3>2 DEF ComesRound, Silence, Numbers
    <3> QED BY <2>3, <3>3
  <2>4. CASE l \in moved
    <3>1. New(p[l])
      BY <2>4 DEF AfterMove, Broken
    <3>2. ComesRound(p, t, l)
      BY <1>11, <2>4, <3>1 DEF Lively
    <3>3. ASSUME NEW k \in Nat, Silence >= stale_after + k, streak[l] > k
          PROVE  Left(q, t, l)' <= Window - 1 - k
      <4>1. CASE k = 0
        <5>1. StreamMoved(SeqOf(i), l, leg_seq[l], clock)
          BY <1>0, <2>4, <3>3, <4>1 DEF StreamMoved, Silence, Numbers
        <5>2. Backward(SeqOf(i)) < Window
          BY <1>2, <5>1
        <5>3. PICK b \in Nat : b = Backward(SeqOf(i)) /\ b < Window
          BY <1>0, <1>6, <5>2 DEF Around, Seqs, Numbers
        <5>4. LET e == Pos(t) - Pos(i)
              IN  b = e \/ b = e + SeqSpace \/ b = e - SeqSpace \/ b = e + 2 * SeqSpace
          BY <1>6, <5>3 DEF Around
        <5>5. SeqSpace - move.shift - (i - t) <= Window - 1
          BY <1>0, <1>1, <1>11, <2>1, <5>3, <5>4 DEF Pos, New, Numbers
        <5> QED BY <1>0, <2>2, <4>1, <5>5 DEF Numbers
      <4>2. CASE k # 0
        <5>1. PICK j \in Nat : k = j + 1
          BY <4>2
        <5>2. Silence - 1 >= stale_after + j /\ streak[l] - 1 > j
          BY <1>0, <1>4, <3>3, <5>1 DEF Numbers
        <5>3. Left(p, t, l) <= Window - 1 - j
          BY <1>4, <3>2, <5>2 DEF ComesRound
        <5> QED BY <1>0, <2>2, <5>1, <5>3 DEF Numbers
      <4> QED BY <4>1, <4>2
    <3>4. streak[l] - 0 = streak[l] /\ Silence - 0 = Silence
      BY <1>4
    <3>5. ComesRound(q, t, l)'
      BY <1>2, <1>4, <3>3, <3>4 DEF ComesRound
    <3> QED BY <1>2, <2>4, <3>5
  <2>5. CASE l \notin moved' /\ New(p[l])
    <3>1. l \notin moved
      BY <1>2, <2>5
    <3>2. CASE (\A n \in Legs : New(p[n])) /\ ComesIn(p, t, l)
      <4>1. Left(q, t, l)' <= Window - 1
        BY <1>0, <2>2, <3>2 DEF ComesIn, Numbers
      <4>2. ASSUME NEW k \in Nat, Silence >= k, streak[l] >= k
            PROVE  Left(q, t, l)' <= Window - 1 - k
        <5>1. CASE k = 0
          BY <1>0, <4>1, <5>1 DEF Numbers
        <5>2. CASE k # 0
          <6>1. PICK j \in Nat : k = j + 1
            BY <5>2
          <6>2. Silence - 1 >= j /\ streak[l] - 1 >= j
            BY <1>4, <4>2, <6>1
          <6>3. Left(p, t, l) <= Window - 1 - j
            BY <1>4, <3>2, <6>2 DEF ComesIn
          <6> QED BY <1>0, <2>2, <6>1, <6>3 DEF Numbers
        <5> QED BY <5>1, <5>2
      <4>3. streak[l] - 0 = streak[l] /\ Silence - 0 = Silence
        BY <1>4
      <4>4. ComesIn(q, t, l)'
        BY <1>2, <1>4, <4>1, <4>2, <4>3 DEF ComesIn
      <4> QED BY <1>4, <2>5, <3>2, <4>4
    <3>3. CASE SeqSpace - move.shift <= Window + lag + MaxMissed
      BY <2>5, <3>3
    <3> QED BY <1>11, <2>5, <3>1, <3>2, <3>3 DEF Lively
  <2>6. CASE l \notin moved' /\ ~ New(p[l])
    <3>0. t >= p[l] /\ p[l] \in Nat
      BY <1>5, <1>11, <2>6 DEF Tops
    <3>1. CASE Backward(SeqOf(i)) < Window
      <4>1. PICK b \in Nat : b = Backward(SeqOf(i)) /\ b < Window
        BY <1>0, <1>6, <3>1 DEF Around, Seqs, Numbers
      <4>2. LET e == Pos(t) - Pos(i)
            IN  b = e \/ b = e + SeqSpace \/ b = e - SeqSpace \/ b = e + 2 * SeqSpace
        BY <1>6, <4>1 DEF Around
      <4>3. SeqSpace - move.shift <= Window + lag + MaxMissed
        BY <1>0, <1>1, <1>11, <2>1, <3>0, <4>1, <4>2 DEF Pos, New, Numbers
      <4> QED BY <2>6, <4>3
    <3>2. CASE ~ BreaksLeg(SeqOf(i), leg_seq[l])
      <4>1. ~ BehindWindow(SeqOf(i), SeqOf(p[l]))
        BY <1>1, <3>2 DEF BreaksLeg
      <4>2. SeqSpace - move.shift <= Window + MaxMissed
        BY <1>0, <1>1, <1>6, <1>11, <2>1, <2>6, <3>0, <4>1, CrossedUnbroken
      <4>3. SeqSpace - move.shift <= Window + lag + MaxMissed
        BY <1>0, <4>2 DEF Numbers
      <4> QED BY <2>6, <4>3
    <3> QED BY <1>1, <1>2, <2>6, <3>1, <3>2
  <2> QED BY <1>2, <2>3, <2>4, <2>5, <2>6
<1>12. \A m \in Legs : New(q[m])' <=> New(q[m])
  BY <1>3, <1>4
<1>13. New(t)' <=> New(t)
  BY <1>1, <1>3
<1>14. ASSUME ~ New(t), NEW m \in Legs, New(q[m])
       PROVE  \/ m \in moved' /\ ComesRound(q, t, m)'
              \/ m \notin moved' /\ SeqSpace - move.shift <= Window + lag + MaxMissed
              \/ m \notin moved' /\ (\A n \in Legs : New(q[n])) /\ ComesIn(q, t, m)'
  BY <1>4, <1>10, <1>11, <1>14
<1> QED BY <1>2, <1>4, <1>7, <1>8, <1>12, <1>13, <1>14 DEF Lively

\* A tick adds one to the silence, and to the streak of the legs that deliver at it.
LEMMA LivelyTicks ==
    ASSUME LiveNumbers, Patience \in Nat, NEW p \in [Legs -> Nat], NEW t \in aired,
           AfterMove(p, t), Lively(p, t), Steady(p), NEW losing \in SUBSET Legs, Tick(losing)
    PROVE  Lively(p, t)'
<1>0. Numbers /\ Heard(p) /\ \A l \in Legs : leg_seq[l] # None
  BY DEF LiveNumbers, AfterMove
<1>1. /\ UNCHANGED <<lag, move, moved, last_accept, stale_after>>
      /\ due = {} /\ clock' = clock + 1
  BY DEF Tick, mergerVars, legVars
<1>2. \A l \in Legs : /\ streak[l] \in Nat /\ streak'[l] \in Nat /\ streak'[l] <= streak[l] + 1
                      /\ l \notin due' => streak'[l] = 0 \/ clock' < Delay(l)
  BY <1>0, SteadyTicks DEF Steady
<1>3. t \in Nat
  BY DEF AfterMove, Numbers
<1>4. /\ Silence' = Silence + 1 /\ Silence \in Int /\ (Near' <=> Near)
      /\ \A x \in Nat : New(x)' <=> New(x)
  BY <1>0, <1>1 DEF Silence, Near, New, Numbers
<1>5. ASSUME NEW l \in Legs
      PROVE  /\ Owes(l) = 0
             /\ l \in due' => Owes(l)' = 1
             /\ l \notin due' => Owes(l)' = 0 /\ streak'[l] = 0
  <2>1. p[l] < clock - Delay(l) + 1 /\ p[l] \in Nat /\ Delay(l) \in Nat
    BY <1>0, <1>1 DEF Heard, Coming, Numbers
  <2>2. ~ (clock' < Delay(l))
    BY <1>0, <1>1, <2>1 DEF Numbers
  <2> QED BY <1>1, <1>2, <2>2 DEF Owes
<1>6. ASSUME NEW l \in Legs PROVE Left(p, t, l)' = Left(p, t, l) /\ Left(p, t, l) \in Int
  BY <1>0, <1>1, <1>3 DEF Left, Numbers
<1>7. ASSUME NEW l \in Legs, ComesRound(p, t, l) PROVE ComesRound(p, t, l)'
  <2>1. ASSUME NEW k \in Nat, Silence' - Owes(l)' >= stale_after' + k, streak'[l] - Owes(l)' > k
        PROVE  Silence - Owes(l) >= stale_after + k /\ streak[l] - Owes(l) > k
    BY <1>0, <1>1, <1>2, <1>4, <1>5, <2>1 DEF Numbers
  <2> QED BY <1>6, <1>7, <2>1 DEF ComesRound
<1>8. ASSUME NEW l \in Legs, ComesIn(p, t, l) PROVE ComesIn(p, t, l)'
  <2>1. ASSUME NEW k \in Nat, Silence' - Owes(l)' >= k, streak'[l] - Owes(l)' >= k
        PROVE  Left(p, t, l) <= Window - 1 - k
    <3>1. CASE l \in due'
      <4>1. Silence - Owes(l) >= k /\ streak[l] - Owes(l) >= k
        BY <1>2, <1>4, <1>5, <2>1, <3>1
      <4> QED BY <1>8, <4>1 DEF ComesIn
    <3>2. CASE l \notin due'
      <4>1. k = 0
        BY <1>5, <2>1, <3>2
      <4>2. Left(p, t, l) <= Window - 1
        BY <1>8 DEF ComesIn
      <4> QED BY <1>0, <1>6, <4>1, <4>2 DEF Numbers
    <3> QED BY <3>1, <3>2
  <2> QED BY <1>6, <1>8, <2>1 DEF ComesIn
<1>9. \A l \in Legs : New(p[l])' <=> New(p[l])
  BY <1>4
<1>10. New(t)' <=> New(t)
  BY <1>3, <1>4
<1> QED BY <1>1, <1>4, <1>7, <1>8, <1>9, <1>10 DEF Lively

LiveInv ==
    /\ MoveTypesOK /\ stale_after = StaleAfterLag(lag)
    /\ \E p \in [Legs -> Nat] :
         /\ Steady(p)
         /\ move = NotMoved => BeforeMove(p)
         /\ move # NotMoved => \E t \in aired : AfterMove(p, t) /\ Lively(p, t)

LEMMA LiveNumbersOK ==
    ASSUME LiveBounds, MoveTypesOK, stale_after = StaleAfterLag(lag)
    PROVE  /\ LiveNumbers
           /\ Patience \in Nat /\ Patience = 2 * lag + Margin + Window + 1
<1>1. Numbers /\ Margin \in Nat
  BY NumbersOK, PairAssumption DEF LiveBounds
<1>2. MaxMissed + 1 < Margin /\ lag + MaxMissed + 1 < Half
  BY DEF LiveBounds, MoveTypesOK
<1>3. stale_after = lag + Margin
  BY DEF StaleAfterLag
<1> QED BY <1>1, <1>2, <1>3 DEF LiveNumbers, Numbers, Patience, StaleAfterLag

LEMMA LiveStarts ==
    ASSUME LiveBounds, PairInit
    PROVE  LiveInv
<1>1. OnceInv /\ move = NotMoved
  BY OnceStarts DEF LiveBounds, PairInit, NetInit
<1>2. PICK p \in [Legs -> Nat] : BeforeMove(p)
  BY <1>1 DEF OnceInv
<1>3. Steady(p)
  BY DEF Steady, PairInit, NetInit
<1>4. stale_after = StaleAfterLag(lag)
  BY DEF PairInit
<1> QED BY <1>1, <1>2, <1>3, <1>4 DEF LiveInv, OnceInv

LEMMA LiveStep ==
    ASSUME LiveBounds, LiveInv, [PairNext]_pairVars
    PROVE  LiveInv'
<1>0. /\ PairTypes /\ LiveNumbers /\ Numbers /\ MoveTypesOK /\ Patience \in Nat
      /\ stale_after = StaleAfterLag(lag)
  BY LiveNumbersOK DEF LiveInv, MoveTypesOK, LiveNumbers
<1>1. PICK p \in [Legs -> Nat] :
        /\ Steady(p)
        /\ move = NotMoved => BeforeMove(p)
        /\ move # NotMoved => \E t \in aired : AfterMove(p, t) /\ Lively(p, t)
  BY DEF LiveInv
<1>2. ASSUME NEW l \in Legs, Deliver(l) PROVE LiveInv'
  <2>1. /\ MoveTypesOK' /\ move' = move /\ (stale_after = StaleAfterLag(lag))'
        /\ UNCHANGED <<clock, missed, streak, lag>> /\ due' = due \ {l} /\ l \in due
    <3>1. PairTypes' /\ UNCHANGED <<move, lag, stale_after>>
      BY <1>0, <1>2, DeliverTypes DEF Deliver, TryMerge
    <3> QED BY <1>0, <1>2, <3>1 DEF MoveTypesOK, StaleAfterLag, Deliver
  <2>2. ASSUME NEW i \in Nat, i = clock - Delay(l), NEW q \in [Legs -> Nat],
               q = [p EXCEPT ![l] = i]
        PROVE  Steady(q)'
    <3>1. SeqOf(i) \in Seqs /\ leg_seq' = [leg_seq EXCEPT ![l] = SeqOf(i)]
      BY <1>0, <1>2, <2>2, Delivered DEF Deliver, TryMerge
    <3>2. leg_seq \in [Legs -> Seqs \cup {None}]
      BY <1>0 DEF PairTypes, TypeOK
    <3> QED BY <1>0, <1>1, <2>1, <2>2, <3>1, <3>2, SteadyOn
  <2>3. CASE move = NotMoved
    <3>1. PICK i \in Nat, q \in [Legs -> Nat] :
            i = clock - Delay(l) /\ q = [p EXCEPT ![l] = i] /\ BeforeMove(q)'
      BY <1>0, <1>1, <1>2, <2>3, DeliverBeforeMove
    <3> QED BY <2>1, <2>2, <2>3, <3>1 DEF LiveInv, NotMoved
  <2>4. CASE move # NotMoved
    <3>1. PICK t \in aired : AfterMove(p, t) /\ Lively(p, t)
      BY <1>1, <2>4
    <3>2. PICK i \in Nat, q \in [Legs -> Nat], u \in aired' :
            /\ i = clock - Delay(l) /\ q = [p EXCEPT ![l] = i]
            /\ Settles(l, i, t, u) /\ AfterMove(q, u)'
      BY <1>0, <1>2, <3>1, DeliverAfterMove
    <3>3. Tops(q, u)' /\ t \in Nat /\ u \in Nat
      <4>1. aired' \subseteq 0 .. last_accept' /\ aired \subseteq 0 .. last_accept
        BY <3>1, <3>2 DEF AfterMove
      <4>2. t \in Nat /\ u \in Nat
        BY <4>1
      <4> QED BY <3>2, <4>2 DEF AfterMove
    <3>4. Lively(q, u)'
      <4>1. CASE Taken(l, clock)
        BY <1>0, <1>2, <3>1, <3>2, <3>3, <4>1, LivelyTaken
      <4>2. CASE u = t /\ Refused(SeqOf(i), l, clock) /\ ~ IsForward(SeqOf(i))
        <5>1. \A m \in Legs : streak[m] \in Nat
          BY <1>1 DEF Steady
        <5>2. Tops(q, t)'
          BY <3>3, <4>2
        <5>3. Lively(q, t)'
          BY <1>0, <1>2, <3>1, <3>2, <4>2, <5>1, <5>2, LivelyRefused
        <5> QED BY <4>2, <5>3
      <4> QED BY <3>2, <4>1, <4>2 DEF Settles
    <3> QED BY <2>1, <2>2, <2>4, <3>2, <3>4 DEF LiveInv, NotMoved
  <2> QED BY <2>3, <2>4
<1>3. ASSUME NEW losing \in SUBSET Legs, Tick(losing) PROVE LiveInv'
  <2>1. MoveTypesOK' /\ move' = move /\ (stale_after = StaleAfterLag(lag))'
    <3>1. PairTypes' /\ UNCHANGED <<move, lag, stale_after>>
      BY <1>0, <1>3, TickKeeps DEF Tick, mergerVars
    <3> QED BY <1>0, <3>1 DEF MoveTypesOK, StaleAfterLag
  <2>2. CASE move = NotMoved
    <3>1. BeforeMove(p) /\ BeforeMove(p)' /\ Heard(p)
      BY <1>0, <1>1, <1>3, <2>2, TickBeforeMove DEF BeforeMove
    <3>2. Steady(p)'
      BY <1>0, <1>1, <1>3, <3>1, SteadyTicks
    <3> QED BY <2>1, <2>2, <3>1, <3>2 DEF LiveInv, NotMoved
  <2>3. CASE move # NotMoved
    <3>1. PICK t \in aired : AfterMove(p, t) /\ Lively(p, t)
      BY <1>1, <2>3
    <3>2. t \in aired' /\ AfterMove(p, t)'
      BY <1>0, <1>3, <3>1, TickAfterMove
    <3>3. Lively(p, t)'
      BY <1>0, <1>1, <1>3, <3>1, LivelyTicks
    <3>4. Steady(p)'
      BY <1>0, <1>1, <1>3, <3>1, SteadyTicks DEF AfterMove
    <3> QED BY <2>1, <2>3, <3>2, <3>3, <3>4 DEF LiveInv, NotMoved
  <2> QED BY <2>2, <2>3
<1>4. ASSUME NEW shift \in NewIsns, MoveSource(shift) PROVE LiveInv'
  <2>1. /\ move = NotMoved /\ move' = [at |-> clock + 1, shift |-> shift]
        /\ UNCHANGED <<lag, clock, due, missed, streak, leg_seq, stale_after>>
    BY <1>4 DEF MoveSource, mergerVars
  <2>2. MoveTypesOK' /\ move' # NotMoved /\ (stale_after = StaleAfterLag(lag))'
    <3>1. PairTypes' /\ move' # NotMoved
      BY <1>0, <1>4, MoveTypes
    <3> QED BY <1>0, <2>1, <3>1 DEF MoveTypesOK, StaleAfterLag, Numbers
  <2>3. Steady(p)'
    BY <1>1, <2>1 DEF Steady, Delay
  <2>4. PICK t \in aired' : AfterMove(p, t)' /\ ~ New(t)' /\ \A l \in Legs : ~ New(p[l])'
    BY <1>0, <1>1, <1>4, <2>1, MoveFollows
  <2>5. \A l \in Legs : p[l] <= last_accept'
    <3>1. ASSUME NEW l \in Legs PROVE p[l] <= last_accept'
      <4>1. t >= p[l] /\ p[l] \in Nat
        BY <2>4 DEF AfterMove, Tops
      <4>2. t \in 0 .. last_accept'
        BY <2>4 DEF AfterMove
      <4>3. last_accept' \in Nat
        BY <2>2 DEF MoveTypesOK, PairTypes, TypeOK
      <4> QED BY <4>1, <4>2, <4>3
    <3> QED BY <3>1
  <2>6. Lively(p, t)'
    BY <2>4, <2>5 DEF Lively
  <2> QED BY <2>2, <2>3, <2>4, <2>6 DEF LiveInv, NotMoved
<1>5. ASSUME UNCHANGED pairVars PROVE LiveInv'
  <2>1. /\ UNCHANGED <<lag, due, missed, streak, move, here, aired, clock, out>>
        /\ UNCHANGED <<highest_seq, highest_slot, emitted, last_accept, last_break, initialized>>
        /\ UNCHANGED <<covered, reset_tail, lost, skipped, resets, leg_seq, moved, active_leg, stale_after>>
    BY <1>5 DEF pairVars, vars, netVars, mergerVars, windowVars, countVars, legVars
  <2>2. MoveTypesOK' /\ (stale_after = StaleAfterLag(lag))'
    BY <1>0, <2>1 DEF MoveTypesOK, PairTypes, TypeOK, DueAt, Delay, StaleAfterLag
  <2>3. Steady(p)'
    BY <1>1, <2>1 DEF Steady, Delay
  <2>4. BeforeMove(p) => BeforeMove(p)'
    BY <2>1 DEF BeforeMove, InStep, Follows, Agrees, SlotBehind, Wrap, Heard, Coming, Delay, SeqOf
  <2>5. ASSUME NEW t \in aired, AfterMove(p, t) PROVE AfterMove(p, t)'
    BY <2>1, <2>5 DEF AfterMove, Heard, Tops, Broken, NoCopyPasses, Awaited, Safe, New, Near,
       Coming, Delay, SeqOf, Backward, SlotBehind, Wrap
  <2>6. ASSUME NEW t \in aired, Lively(p, t) PROVE Lively(p, t)'
    BY <2>1, <2>6 DEF Lively, New, Near, ComesRound, ComesIn, Silence, Owes, Left
  <2> QED BY <1>1, <2>1, <2>2, <2>3, <2>4, <2>5, <2>6 DEF LiveInv, NotMoved
<1>6. CASE \E l \in Legs : Deliver(l)
  <2>1. PICK l \in Legs : Deliver(l)
    BY <1>6
  <2> QED BY <1>2, <2>1
<1>7. CASE \E losing \in SUBSET Legs : Tick(losing)
  <2>1. PICK losing \in SUBSET Legs : Tick(losing)
    BY <1>7
  <2> QED BY <1>3, <2>1
<1>8. CASE \E shift \in NewIsns : MoveSource(shift)
  <2>1. PICK shift \in NewIsns : MoveSource(shift)
    BY <1>8
  <2> QED BY <1>4, <2>1
<1> QED BY <1>5, <1>6, <1>7, <1>8 DEF PairNext

LEMMA LiveIsEnough ==
    ASSUME LiveBounds, LiveInv
    PROVE  NoLongBlackout
<1>0. /\ LiveNumbers /\ Numbers /\ Patience \in Nat /\ Patience = 2 * lag + Margin + Window + 1
      /\ Margin \in Nat /\ MaxMissed + 1 < Margin /\ stale_after = lag + Margin
  BY LiveNumbersOK DEF LiveInv, LiveNumbers
<1>1. PICK p \in [Legs -> Nat] :
        /\ Steady(p)
        /\ move = NotMoved => BeforeMove(p)
        /\ move # NotMoved => \E t \in aired : AfterMove(p, t) /\ Lively(p, t)
  BY DEF LiveInv
<1>2. SUFFICES ASSUME NEW l \in Legs, streak[l] > Patience PROVE Silence <= Patience
  BY DEF NoLongBlackout, Silence
<1>3. /\ clock \in Nat /\ last_accept \in Nat /\ lag \in Nat /\ Window \in Nat \ {0} /\ MaxMissed \in Nat
      /\ SeqSpace \in Nat /\ move.shift \in Nat /\ Delay(l) \in 0 .. lag /\ p[l] \in Nat
  BY <1>0 DEF Numbers
<1>4. streak[l] \in Nat /\ streak[l] > 1 /\ Heard(p)
  BY <1>0, <1>1, <1>2, <1>3 DEF Steady, BeforeMove, AfterMove
<1>5. clock <= Delay(l) \/ (leg_seq[l] # None /\ p[l] >= clock - Delay(l) - 1)
  BY <1>0, <1>1, <1>4, SteadyRecent
<1>6. CASE clock <= Delay(l)
  BY <1>0, <1>3, <1>6 DEF Silence
<1>7. ASSUME leg_seq[l] # None, p[l] >= clock - Delay(l) - 1, p[l] <= last_accept
      PROVE  Silence <= Patience
  BY <1>0, <1>3, <1>7 DEF Silence
<1>8. CASE leg_seq[l] # None /\ p[l] >= clock - Delay(l) - 1 /\ move = NotMoved
  <2>1. InStep /\ \E u \in aired : p[l] <= u
    BY <1>1, <1>8 DEF BeforeMove
  <2>2. initialized
    BY <2>1 DEF InStep
  <2>3. PICK t \in aired : Follows(t)
    BY <2>1, <2>2 DEF InStep
  <2>4. PICK u \in aired : p[l] <= u
    BY <2>1
  <2>5. t \in Nat /\ u \in Nat /\ u <= t /\ t <= last_accept
    BY <2>1, <2>3, <2>4, <1>3 DEF InStep, Follows, Agrees
  <2> QED BY <1>3, <1>7, <1>8, <2>4, <2>5
<1>9. CASE leg_seq[l] # None /\ p[l] >= clock - Delay(l) - 1 /\ move # NotMoved
  <2>1. PICK t \in aired : AfterMove(p, t) /\ Lively(p, t)
    BY <1>1, <1>9
  <2>2. t \in Nat /\ t <= last_accept
    BY <1>3, <2>1 DEF AfterMove
  <2>3. CASE New(t) \/ ~ New(p[l])
    BY <1>7, <1>9, <2>1, <2>3 DEF Lively
  <2>4. CASE ~ New(t) /\ New(p[l])
    <3>1. Left(p, t, l) >= 0 /\ Left(p, t, l) \in Int
      BY <1>3, <2>1, <2>2, <2>4 DEF AfterMove, Tops, Left
    <3>2. Owes(l) \in {0, 1} /\ Silence \in Int
      BY <1>3 DEF Owes, Silence
    <3>3. CASE ComesRound(p, t, l)
      <4>1. Silence - Owes(l) >= stale_after + Window /\ streak[l] - Owes(l) > Window
              => Left(p, t, l) <= Window - 1 - Window
        BY <1>3, <3>3 DEF ComesRound
      <4> QED BY <1>0, <1>2, <1>3, <1>4, <3>1, <3>2, <4>1
    <3>4. CASE SeqSpace - move.shift <= Window + lag + MaxMissed
      <4>1. p[l] <= last_accept + Window + lag + MaxMissed
        BY <1>3, <2>2, <3>1, <3>4 DEF Left
      <4> QED BY <1>0, <1>3, <1>9, <4>1 DEF Silence
    <3>5. CASE ComesIn(p, t, l)
      <4>1. Silence - Owes(l) >= Window /\ streak[l] - Owes(l) >= Window
              => Left(p, t, l) <= Window - 1 - Window
        BY <1>3, <3>5 DEF ComesIn
      <4> QED BY <1>0, <1>2, <1>3, <1>4, <3>1, <3>2, <4>1
    <3> QED BY <2>1, <2>4, <3>3, <3>4, <3>5 DEF Lively
  <2> QED BY <2>3, <2>4
<1> QED BY <1>5, <1>6, <1>8, <1>9

(* NoLongBlackout, for legs whose outages are shorter than the margin by which *)
(* the stale time exceeds the lag: whatever the legs lose and wherever the     *)
(* source restarts, a leg that has delivered for a lag, a stale time and a     *)
(* window is not being discarded.  Its packets either follow the highest one,  *)
(* or its break is remembered until the stale rule of stream_moved takes it,   *)
(* or the restart was so short that its numbers soon come round.               *)
THEOREM NoLegIsDiscarded ==
    ASSUME LiveBounds
    PROVE  PairSpec => []NoLongBlackout
<1>1. PairInit => LiveInv
  BY LiveStarts
<1>2. LiveInv /\ [PairNext]_pairVars => LiveInv'
  BY LiveStep
<1>3. LiveInv => NoLongBlackout
  BY LiveIsEnough
<1> QED
  BY <1>1, <1>2, <1>3, PTL DEF PairSpec
=============================================================================
