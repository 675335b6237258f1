-------------------------- MODULE MCHitlessLedger --------------------------
(* The ledger for TLC: at most MaxArrivals calls, the first packet at FirstSeq *)
(* (the merger only reads differences of seqs).                                *)
EXTENDS HitlessLedger

CONSTANTS MaxArrivals, FirstSeq

VARIABLE calls

mcVars == <<historyVars, calls>>

MCInit == LedgerInit /\ calls = 0

MCNext ==
    /\ calls < MaxArrivals
    /\ calls' = calls + 1
    /\ LedgerNext
    /\ ~ initialized /\ initialized' => highest_seq' = FirstSeq

MCSpec == MCInit /\ [][MCNext]_mcVars
=============================================================================
