---------------------------- MODULE OrderedHold ----------------------------
(***************************************************************************)
(* What a buffered merger promises of the packets it has taken: each waits *)
(* under a key and goes out once, behind everything sent before it, and    *)
(* none that waits is given up (redundancy/merger.rs, "every accepted      *)
(* packet is held ... then released in seq order").                        *)
(***************************************************************************)
EXTENDS Integers

CONSTANT None

VARIABLES waiting, \* keys of the packets held
          sent,    \* keys of the packets the last step sent
          last     \* the highest key ever sent, or None

holdVars == <<waiting, sent, last>>

Init == waiting = {} /\ sent = {} /\ last = None

Past(k) == last # None /\ k <= last

Next ==
    /\ \A k \in sent' : ~ Past(k)
    /\ \A k \in waiting \ waiting' : k \in sent'
    /\ \A k \in waiting', j \in sent' : j < k
    /\ \A k \in waiting' : ~ Past(k)
    /\ IF sent' = {} THEN last' = last
                     ELSE last' \in sent' /\ \A j \in sent' : j <= last'

Spec == Init /\ [][Next]_holdVars
=============================================================================
