---------------------------- MODULE HitlessPair ----------------------------
(***************************************************************************)
(* A 2022-7 pair end to end: one source, two network legs and the hitless  *)
(* merger.  The source sends packet i of its stream at tick i; the Lead    *)
(* leg brings it at once and the other leg lag ticks later, both in order. *)
(* Either leg may lose packets, singly or in outages, and the source may   *)
(* move once: restart on another initial sequence number.  Packets due at  *)
(* the same tick arrive in either order, as tokio::select! dispatches them. *)
(* The network and the source are external; the merger is HitlessMerger.   *)
(***************************************************************************)
EXTENDS HitlessMerger

CONSTANTS Lead,       \* the leg with the shorter path
          Lags,       \* by how many ticks the other leg may lag it
          Margin,     \* how far past the lag the stale time is set: a second in the code
          FirstSeq,   \* seq of the stream's first packet
          NewIsns,    \* by how much a restart of the source shifts its seqs
          MaxOutages, \* outages of the legs, together
          MaxMissed,  \* packets one outage of a leg may lose
          Horizon     \* ticks

ASSUME PairAssumption ==
    /\ Lead \in Legs /\ \A l, m \in Legs \ {Lead} : l = m   \* two legs
    /\ Lags \subseteq Nat /\ Margin \in Nat /\ FirstSeq \in Seqs
    /\ NewIsns \subseteq 1 .. SeqSpace - 1
    /\ MaxOutages \in Nat /\ MaxMissed \in Nat /\ Horizon \in Nat

VARIABLES
    lag,     \* how many ticks after the leading leg the other delivers
    due,     \* legs whose packet of this tick has yet to arrive
    missed,  \* per leg, packets lost in a row
    streak,  \* per leg, packets delivered in a row
    outages, \* outages so far
    move,    \* the first packet of the moved stream and its shift
    here,    \* the packet that just arrived
    aired    \* packets forwarded

netVars   == <<due, missed, streak, outages, move>>
pairVars  == <<vars, lag, netVars, here, aired>>

\* stale_after_lag_us: the caller sets the stale time past its legs' lag.
StaleAfterLag(d) == d + Margin

\* How long a leg delivers without a loss before the merger owes it something.
Patience == lag + StaleAfterLag(lag) + Window + 1

NotMoved == [at |-> Horizon + 1, shift |-> 0]

Delay(l) == IF l = Lead THEN 0 ELSE lag

SeqOf(i) == (FirstSeq + i + (IF i >= move.at THEN move.shift ELSE 0)) % SeqSpace

DueAt(t) == {l \in Legs : Delay(l) <= t}

NetInit ==
    /\ lag \in Lags
    /\ due = DueAt(0)
    /\ missed = [l \in Legs |-> 0] /\ streak = [l \in Legs |-> 0]
    /\ outages = 0 /\ move = NotMoved
    /\ here = None /\ aired = {}

PairInit ==
    /\ Init
    /\ NetInit
    /\ stale_after = StaleAfterLag(lag)

Deliver(l) ==
    LET i == clock - Delay(l)
    IN  /\ l \in due
        /\ TryMerge(SeqOf(i), l, clock)
        /\ here'   = i
        /\ aired'  = IF out' = None THEN aired ELSE aired \cup {i}
        /\ due'    = due \ {l}
        /\ UNCHANGED <<clock, missed, streak, outages, move, lag>>

\* The next tick, at which the legs in losing lose the packet they would bring.
Tick(losing) ==
    /\ due = {}
    /\ clock < Horizon
    /\ clock'   = clock + 1
    /\ losing \subseteq DueAt(clock + 1)
    /\ \A l \in losing : missed[l] < MaxMissed
    /\ outages' = outages + Cardinality({l \in losing : missed[l] = 0})
    /\ outages' <= MaxOutages
    /\ due'     = DueAt(clock + 1) \ losing
    /\ missed'  = [l \in Legs |-> IF l \in losing THEN missed[l] + 1 ELSE 0]
    /\ streak'  = [l \in Legs |-> IF l \in losing THEN 0 ELSE Lesser(streak[l] + 1, Patience + 1)]
    /\ out'     = None
    /\ UNCHANGED <<mergerVars, lag, move, here, aired>>

\* The source restarts before its next packet, once both legs are established.
MoveSource(shift) ==
    /\ due = {}
    /\ move = NotMoved
    /\ ~ last_break.first /\ \A l \in Legs : leg_seq[l] # None
    /\ move' = [at |-> clock + 1, shift |-> shift]
    /\ out'  = None
    /\ UNCHANGED <<mergerVars, lag, clock, due, missed, streak, outages, here, aired>>

PairNext ==
    \/ \E l \in Legs : Deliver(l)
    \/ \E losing \in SUBSET Legs : Tick(losing)
    \/ \E shift \in NewIsns : MoveSource(shift)

PairSpec == PairInit /\ [][PairNext]_pairVars

----------------------------------------------------------------------------

(* No packet of the source goes out twice: the caller's stale time, past    *)
(* the legs' lag, keeps the merger from following a moved stream while the  *)
(* lagging leg still carries the old one (module doc, Re-anchoring).  This  *)
(* is for outages that with a window are shorter than half the sequence     *)
(* space, and one restart, whose jump does not fall short of half the space *)
(* by less than the lag.  Beyond these bounds a seq does not tell an old    *)
(* packet from a new one, and a packet can air twice.                       *)
AiredOnce == [][out' # None => here' \notin aired]_pairVars

(* With legs less than a window apart and no restart of the source, every   *)
(* packet that either leg delivers goes out: the other leg's losses are     *)
(* filled also after an outage of both legs re-anchored the window.         *)
NothingDeliveredIsMissed ==
    lag < Window /\ move = NotMoved /\ here # None => here \in aired

(* A packet of the stream older than one already forwarded never moves the  *)
(* window: a leg that only lags fills gaps or is dropped, while the source  *)
(* does not move.  The module doc says "however long the lag"; this is for  *)
(* lags of at most half the sequence space and outages shorter than it, as  *)
(* a packet further behind reads as one ahead and does move the window.     *)
LaggingLegNeverMovesWindow ==
    [][move = NotMoved /\ (\E i \in aired : i >= here') => UNCHANGED highest_seq]_pairVars

(* A leg that keeps delivering is never discarded for good: once it has     *)
(* delivered a lag, a stale time and a window of packets without a loss,    *)
(* something was forwarded within that time, whether the legs' outages,     *)
(* a restart of the source or both came before.  Outages that outlast the   *)
(* margin of the stale time can break it: the leading leg's moved stream is *)
(* followed, the returned leg's old one takes the window back and stops.    *)
NoLongBlackout ==
    \A l \in Legs : streak[l] > Patience => clock - last_accept <= Patience

=============================================================================
