--------------------------- MODULE HitlessLedger ---------------------------
(***************************************************************************)
(* The hitless merger with a ledger of what it did.  The merger only keeps *)
(* wrapping seqs and a rotating bitmap; the ledger keeps every position of *)
(* the stream as the merger reads it, unwrapped and never forgotten, so    *)
(* that what the bitmap says can be compared with what was forwarded.      *)
(***************************************************************************)
EXTENDS HitlessMerger

VARIABLES
    top,       \* position of highest_seq since the merger started
    forwarded, \* positions forwarded since the merger started
    pos,       \* position of the packet that just arrived; None if too late to have one
    span,      \* positions the stream has covered, over every start
    carried    \* how many of them were forwarded

ledgerVars  == <<top, forwarded, pos, span, carried>>
historyVars == <<vars, ledgerVars>>

\* A packet that moves the window forward, to position p.
EnterAhead(p) ==
    /\ top'       = p
    /\ pos'       = p
    /\ forwarded' = forwarded \cup {p}
    /\ span'      = span + (p - top)
    /\ carried'   = carried + 1

\* A packet inside the window, whether forwarded or a duplicate.  One from
\* before the first packet is no position of the stream as counted.
EnterInside(n) ==
    /\ pos'       = top - n
    /\ forwarded' = IF out' = None THEN forwarded ELSE forwarded \cup {top - n}
    /\ carried'   = IF out' # None /\ n < covered THEN carried + 1 ELSE carried
    /\ UNCHANGED <<top, span>>

EnterNothing == pos' = None /\ UNCHANGED <<top, forwarded, span, carried>>

RecordArrival(seq) ==
    \/ /\ ~ initialized
       /\ top' = 0 /\ pos' = 0 /\ forwarded' = {0}
       /\ span' = span + 1 /\ carried' = carried + 1
    \/ /\ initialized /\ IsForward(seq)
       /\ EnterAhead(top + Forward(seq))
    \/ /\ initialized /\ ~ IsForward(seq) /\ Backward(seq) < Window
       /\ EnterInside(Backward(seq))
    \/ /\ initialized /\ ~ IsForward(seq) /\ Backward(seq) >= Window
       /\ IF out' = None THEN EnterNothing ELSE EnterAhead(top + Forward(seq))

LedgerInit ==
    /\ Init
    /\ top = 0 /\ forwarded = {} /\ pos = None /\ span = 0 /\ carried = 0

LedgerArrive ==
    \E seq \in Seqs, leg \in Legs, now \in Times :
        /\ now >= clock
        /\ clock' = now
        /\ TryMerge(seq, leg, now)
        /\ RecordArrival(seq)

LedgerRestart ==
    /\ Restart
    /\ forwarded' = {} /\ top' = 0 /\ pos' = None
    /\ UNCHANGED <<clock, span, carried>>

LedgerNext ==
    \/ LedgerArrive
    \/ LedgerRestart
    \/ ObserveCopy /\ EnterNothing
    \/ Reconfigure /\ EnterNothing

LedgerSpec == LedgerInit /\ [][LedgerNext]_historyVars

----------------------------------------------------------------------------

(* The bitmap remembers exactly what was forwarded: the slot n behind the   *)
(* highest seq has its bit set if and only if the position n behind the     *)
(* highest was forwarded, through every wrap of the u16 seq, rotation of    *)
(* the slots and re-anchor - also for a window that does not divide the     *)
(* sequence space, the reason slots are placed relative to highest_slot.    *)
BitmapIsHistory ==
    /\ \A n \in Slots : SlotBehind(n) \in emitted <=> top - n \in forwarded
    /\ \A p \in forwarded : p <= top

(* Every seq the stream covered is accounted for exactly once: forwarded,   *)
(* still fillable in the window, lost, or skipped by a re-anchor.  The      *)
(* counts a pair hands on (LossCounts) rest on it, across advances,         *)
(* re-anchors over earlier re-anchors, fills and restarts.                  *)
LossBalance == span = carried + UnfilledOrdinary + UnfilledTail + lost + skipped

(* try_merge forwards a packet it can place if and only if its position was *)
(* not forwarded before: no gap a leg can fill is left, and nothing goes    *)
(* out twice, until the merger is restarted.                                *)
ExactlyOnce == [][pos' # None => (out' # None <=> pos' \notin forwarded)]_historyVars

=============================================================================
