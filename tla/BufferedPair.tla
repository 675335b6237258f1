---------------------------- MODULE BufferedPair ----------------------------
(***************************************************************************)
(* A 2022-7 pair with a path differential, end to end: the source and the  *)
(* two legs of HitlessPair in front of the buffered merger, as the RTP and *)
(* the SRT inputs run it (engine/input_rtp.rs, engine/input_srt.rs).  The  *)
(* input sleeps until the merger's next deadline; packets and the timer    *)
(* due at one tick come in any order.  Once, both legs may be lost for     *)
(* good and come back, over which an SRT pair restarts its merger.         *)
(***************************************************************************)
EXTENDS HitlessPair, BufferedMerger

VARIABLES
    sent,   \* packets released, by their position in the source's stream
    cut     \* packets the source had sent when both legs were lost; None until then

feedVars == <<pairVars, bufferVars, sent, cut>>

\* The part of the legs' lag that their configuration sets (pair_leg_lag); the
\* hold budgets the rest, which their networks add.
LegLag == IF lag > Hold THEN lag - Hold ELSE 0

\* with_leg_lag: the stale time outlasts both together.
StaleTime == StaleAfterLag(Hold + LegLag)

FeedInit ==
    /\ BufferInit
    /\ NetInit
    /\ stale_after = StaleTime
    /\ sent = {} /\ cut = None

Sends == sent' = sent \cup {e.payload : e \in batch'}

FeedDeliver(l) ==
    LET i == clock - Delay(l)
    IN  /\ l \in due
        /\ Ingest(SeqOf(i), l, i, clock)
        /\ here'  = i
        /\ aired' = IF out' = None THEN aired ELSE aired \cup {i}
        /\ due'   = due \ {l}
        /\ Sends
        /\ UNCHANGED <<clock, missed, streak, outages, move, lag, cut>>

WakeDue == Ready(held, clock) # {}

\* The sleep until next_deadline ends.
Wake ==
    /\ WakeDue
    /\ DrainExpired(clock)
    /\ Sends
    /\ UNCHANGED <<clock, lag, netVars, here, aired, cut>>

HoldIdle ==
    /\ batch' = {}
    /\ UNCHANGED <<held, cursor, stretches, released, gap_lost, anchorVars, lateVars, sent>>

BeforeCut(i) == cut # None /\ i <= cut

FeedTick(losing) ==
    /\ ~ WakeDue
    /\ \A l \in DueAt(clock + 1) : BeforeCut(clock + 1 - Delay(l)) => l \in losing
    /\ Tick(losing)
    /\ HoldIdle
    /\ UNCHANGED cut

FeedMove(shift) ==
    /\ MoveSource(shift)
    /\ HoldIdle
    /\ UNCHANGED cut

\* Both legs are lost, with whatever was under way on them.
LoseBoth ==
    /\ due = {} /\ cut = None
    /\ RestartHold
    /\ cut' = clock
    /\ UNCHANGED <<clock, lag, netVars, here, aired, sent>>

\* The legs come back with raw TS, which the merger does not see: what it holds
\* goes out first.  They bring RTP again only once both were lost again.
FlushForRaw ==
    /\ due = {} /\ cut # None /\ ~ initialized /\ held # {}
    /\ ReleaseAll
    /\ Sends
    /\ UNCHANGED <<clock, lag, netVars, here, aired, cut>>

FeedNext ==
    \/ \E l \in Legs : FeedDeliver(l)
    \/ Wake
    \/ \E losing \in SUBSET Legs : FeedTick(losing)
    \/ \E shift \in NewIsns : FeedMove(shift)
    \/ LoseBoth
    \/ FlushForRaw

FeedSpec == FeedInit /\ [][FeedNext]_feedVars

----------------------------------------------------------------------------

HeldPackets == {e.payload : e \in held}

(* Nothing goes out twice, and while the source does not restart the output *)
(* is in its order, over a restart of the merger too: no backward step      *)
(* reaches a decoder.  This is for lags and outages that with a window are  *)
(* shorter than half the sequence space, and one restart, whose jump does   *)
(* not fall short of half the space by less than the lag (see AiredOnce).   *)
SourceOrder ==
    [][\A e \in batch' :
         /\ e.payload \notin sent
         /\ move = NotMoved =>
              /\ \A p \in sent : p < e.payload
              /\ \A d \in batch' : d.virt < e.virt <=> d.payload < e.payload]_feedVars

(* "N ms of leg skew tolerated hitlessly": with the legs no further apart   *)
(* than the hold and the window, a source that does not move and a buffer   *)
(* that does not fill up, every packet either leg delivers goes out.        *)
SkewTolerated ==
    (/\ lag <= Hold /\ lag < Window
     /\ move = NotMoved /\ overflow_dropped = 0
     /\ here # None)
    => here \in sent \cup HeldPackets

(* A packet leaves the hold at most the legs' skew after its own release    *)
(* time: a gap filled ahead of it puts it off, and it can be put off again, *)
(* but not past the time the slower leg has brought everything before it.   *)
BoundedLatency == \A e \in held : clock <= e.release_at + lag

Missing(ps) == IF ps = {} THEN {} ELSE (Min(ps) .. Max(ps)) \ ps

Earlier == {p \in sent : BeforeCut(p)}

(* "gap_lost is the output's loss": it counts exactly the packets missing   *)
(* from the output, late fills and overflows included, and none between the *)
(* streams before and after a restart.                                      *)
GapLostIsOutputLoss ==
    move = NotMoved =>
        gap_lost = Cardinality(Missing(Earlier)) + Cardinality(Missing(sent \ Earlier))

(* Each packet the hitless merger admits is released, held or counted       *)
(* unreleased: with it, lost() misses nothing the hold gave up.             *)
AdmittedAccounted ==
    move = NotMoved =>
        Cardinality(aired) = Cardinality(sent) + Cardinality(held) + unreleased

(* A copy counted late_dropped, rather than a harmless duplicate, is one    *)
(* of a packet that never went out, as far back as the merger remembers.    *)
LateMeansLost ==
    [][(/\ late_dropped' > late_dropped
        /\ move = NotMoved
        /\ \A p \in sent : p - here' < Remember)
       => here' \notin sent]_feedVars
=============================================================================
