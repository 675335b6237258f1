-------------------------- MODULE FlowRegistryProofs --------------------------
(***************************************************************************)
(* Proofs about FlowRegistry: the types; that the registry never names a   *)
(* run that was told to stop nor hands one run to two commands, whatever   *)
(* the commands do to each other; and, for the flows whose commands came   *)
(* one at a time, that the maps keyed by flow agree, that nothing is left  *)
(* behind, and that a group starts as a whole or not at all.               *)
(***************************************************************************)
EXTENDS FlowRegistry, TLAPS

(* What a command has in its hands is a run that was made and that the     *)
(* registry does not name, and a run being started has its tasks alive.    *)
HandInv ==
  /\ \A f \in Flows : flows[f] \in 0 .. made[f]
  /\ \A f \in Flows : \A r \in live[f] : r \in 1 .. made[f]
  /\ \A c \in Commands, f \in Flows :
       InHand(c, f) => hand[c][f] \in 1 .. made[f] /\ hand[c][f] # flows[f]
  /\ \A c \in Commands, f \in Flows :
       at[c][f] = "starting" => hand[c][f] \in live[f]

LifeInv == TypeOK /\ HandInv /\ RegisteredRunLives

------------------------------------------------------------------------------
(* Types                                                                   *)

(* Every stage To names is a stage, so a step of a command to it keeps at. *)
LEMMA ToType ==
    ASSUME TypeOK, NEW c \in Commands, NEW f \in Flows, NEW stage \in Stages,
           To(c, f, stage)
    PROVE  at' \in [Commands -> [Flows -> Stages]]
BY DEF TypeOK, To

(* The steps of one command with one flow keep the types.                  *)
LEMMA WorkType ==
    ASSUME TypeOK, NEW c \in Commands, NEW f \in Flows, Work(c, f)
    PROVE  TypeOK'
<1>0. /\ flows \in [Flows -> Nat] /\ stats \in [Flows -> Nat]
      /\ publisher \in [Flows -> Nat] /\ made \in [Flows -> Nat]
      /\ live \in [Flows -> SUBSET (Nat \ {None})]
      /\ hand \in [Commands -> [Flows -> Nat]]
  BY DEF TypeOK
<1>1. CASE CheckAbsent(c, f)
  <2>1. at' \in [Commands -> [Flows -> Stages]]
    BY <1>1, ToType DEF CheckAbsent, Stages, Settled
  <2> QED BY <1>1, <2>1 DEF CheckAbsent, TypeOK, maps, runVars, cmdVars
<1>2. CASE StartRun(c, f)
  <2>1. at' \in [Commands -> [Flows -> Stages]]
    BY <1>2, ToType DEF StartRun, Stages
  <2>2. /\ made[f] + 1 \in Nat \ {None}
        /\ live[f] \cup {made[f] + 1} \in SUBSET (Nat \ {None})
    BY <1>0 DEF None
  <2>3. /\ made' \in [Flows -> Nat] /\ stats' \in [Flows -> Nat]
        /\ publisher' \in [Flows -> Nat]
        /\ live' \in [Flows -> SUBSET (Nat \ {None})]
        /\ hand' \in [Commands -> [Flows -> Nat]]
    BY <1>0, <1>2, <2>2 DEF StartRun, RegisteredStats
  <2> QED BY <1>2, <2>1, <2>3 DEF StartRun, TypeOK, cmdVars
<1>3. CASE StartFails(c, f)
  <2>1. at' \in [Commands -> [Flows -> Stages]]
    BY <1>3, ToType DEF StartFails, Stages, Settled
  <2>2. /\ stats' \in [Flows -> Nat] /\ publisher' \in [Flows -> Nat]
        /\ live' \in [Flows -> SUBSET (Nat \ {None})]
    BY <1>0, <1>3 DEF StartFails, Unwind, None
  <2> QED BY <1>3, <2>1, <2>2 DEF StartFails, TypeOK, cmdVars
<1>4. CASE InsertRun(c, f)
  <2>1. at' \in [Commands -> [Flows -> Stages]]
    BY <1>4, ToType DEF InsertRun, Stages, Settled
  <2>2. flows' \in [Flows -> Nat]
    BY <1>0, <1>4 DEF InsertRun
  <2> QED BY <1>4, <2>1, <2>2 DEF InsertRun, TypeOK, runVars, cmdVars
<1>5. CASE RemoveRun(c, f)
  <2>1. at' \in [Commands -> [Flows -> Stages]]
    BY <1>5, ToType DEF RemoveRun, Stages, Settled
  <2>2. CASE flows[f] = None
    BY <1>5, <2>1, <2>2 DEF RemoveRun, TypeOK, runVars, cmdVars
  <2>3. CASE flows[f] # None
    <3>1. /\ hand' = [hand EXCEPT ![c][f] = flows[f]]
          /\ flows' = [flows EXCEPT ![f] = 0]
      BY <1>5, <2>3 DEF RemoveRun, AfterRemove, None
    <3>2. flows' \in [Flows -> Nat] /\ hand' \in [Commands -> [Flows -> Nat]]
      BY <1>0, <3>1
    <3> QED BY <1>5, <2>1, <3>2 DEF RemoveRun, TypeOK, runVars, cmdVars
  <2> QED BY <2>2, <2>3
<1>6. CASE StopRun(c, f)
  <2>1. at' \in [Commands -> [Flows -> Stages]]
    BY <1>6, ToType DEF StopRun, Stages
  <2>2. /\ publisher' \in [Flows -> Nat]
        /\ live' \in [Flows -> SUBSET (Nat \ {None})]
    BY <1>0, <1>6 DEF StopRun, None
  <2> QED BY <1>6, <2>1, <2>2 DEF StopRun, TypeOK, cmdVars
<1>7. CASE StopDone(c, f)
  <2>1. at' \in [Commands -> [Flows -> Stages]]
    BY <1>7, ToType DEF StopDone, Stages, Settled
  <2>2. stats' \in [Flows -> Nat]
    BY <1>0, <1>7 DEF StopDone, None
  <2> QED BY <1>7, <2>1, <2>2 DEF StopDone, TypeOK, runVars, cmdVars
<1>8. CASE StopInterrupted(c, f)
  <2>1. at' \in [Commands -> [Flows -> Stages]]
    BY <1>8, ToType DEF StopInterrupted, Stages, Settled
  <2>2. op' \in [Commands -> Ops]
    BY <1>8 DEF StopInterrupted, TypeOK, Ops
  <2> QED BY <1>8, <2>1, <2>2 DEF StopInterrupted, MarkAfterUnwind, TypeOK, runVars
<1>9. CASE SweepRun(c, f)
  <2>1. at' \in [Commands -> [Flows -> Stages]]
    BY <1>9, ToType DEF SweepRun, Stages, Settled
  <2>2. flows' \in [Flows -> Nat] /\ hand' \in [Commands -> [Flows -> Nat]]
    BY <1>0, <1>9 DEF SweepRun, None
  <2> QED BY <1>9, <2>1, <2>2 DEF SweepRun, TypeOK, runVars, cmdVars
<1>10. CASE DrainRun(c, f)
  <2>1. at' \in [Commands -> [Flows -> Stages]]
    BY <1>10, ToType DEF DrainRun, Stages
  <2>2. /\ publisher' \in [Flows -> Nat]
        /\ live' \in [Flows -> SUBSET (Nat \ {None})]
    BY <1>0, <1>10 DEF DrainRun, None
  <2> QED BY <1>10, <2>1, <2>2 DEF DrainRun, TypeOK, cmdVars
<1>11. CASE DrainDone(c, f)
  <2>1. at' \in [Commands -> [Flows -> Stages]]
    BY <1>11, ToType DEF DrainDone, Stages, Settled
  <2> QED BY <1>11, <2>1 DEF DrainDone, TypeOK, maps, runVars, cmdVars
<1>12. CASE RestartStarts(c, f)
  <2>1. at' \in [Commands -> [Flows -> Stages]]
    BY <1>12, ToType DEF RestartStarts, Stages
  <2>2. op' \in [Commands -> Ops]
    BY <1>12 DEF RestartStarts, TypeOK, Ops
  <2> QED BY <1>12, <2>1, <2>2 DEF RestartStarts, TypeOK, maps, runVars
<1>13. CASE RollbackNext(c, f)
  <2>1. at' \in [Commands -> [Flows -> Stages]]
    BY <1>13, ToType DEF RollbackNext, Stages
  <2> QED BY <1>13, <2>1 DEF RollbackNext, TypeOK, maps, runVars, cmdVars
<1> QED
  BY <1>1, <1>2, <1>3, <1>4, <1>5, <1>6, <1>7, <1>8, <1>9, <1>10, <1>11, <1>12, <1>13
     DEF Work

(* A command begins with stages of its own, names flows, and is counted.   *)
LEMMA BeginType ==
    ASSUME TypeOK, NEW c \in Commands, NEW o \in Ops, NEW ms \in SUBSET Flows,
           NEW stages \in [Flows -> Stages], Begin(c, o, ms, stages)
    PROVE  TypeOK'
<1>1. issued' \in 0 .. MaxCommands
  BY RegistryBounds DEF Begin, TypeOK
<1>2. /\ op' \in [Commands -> Ops] /\ members' \in [Commands -> SUBSET Flows]
      /\ at' \in [Commands -> [Flows -> Stages]]
  BY DEF Begin, TypeOK
<1>3. overlapped' \subseteq Flows
  BY DEF Begin, TypeOK, Touches
<1> QED BY <1>1, <1>2, <1>3 DEF Begin, TypeOK, maps, runVars

LEMMA StageType ==
    ASSUME NEW ms, NEW stage \in Stages
    PROVE  Stage(ms, stage) \in [Flows -> Stages]
BY DEF Stage, Stages, Settled

LEMMA CommenceType ==
    ASSUME TypeOK, NEW c \in Commands, Commence(c)
    PROVE  TypeOK'
<1>0. /\ {"check", "remove", "sweep"} \subseteq Stages
      /\ {"create", "destroy", "restart", "group_start", "group_stop", "replace"}
           \subseteq Ops
  BY DEF Stages, Ops
<1>1. CASE BeginCreate(c)
  BY <1>0, <1>1, BeginType, StageType DEF BeginCreate
<1>2. CASE BeginDestroy(c)
  BY <1>0, <1>2, BeginType, StageType DEF BeginDestroy
<1>3. CASE BeginRestart(c)
  BY <1>0, <1>3, BeginType, StageType DEF BeginRestart
<1>4. CASE BeginGroupStart(c)
  BY <1>0, <1>4, BeginType, StageType DEF BeginGroupStart
<1>5. CASE BeginGroupStop(c)
  BY <1>0, <1>5, BeginType, StageType DEF BeginGroupStop
<1>6. CASE BeginReplace(c)
  BY <1>0, <1>6, BeginType, StageType DEF BeginReplace
<1> QED BY <1>1, <1>2, <1>3, <1>4, <1>5, <1>6 DEF Commence

LEMMA EndType ==
    ASSUME TypeOK, NEW c \in Commands, RecreateNext(c) \/ End(c)
    PROVE  TypeOK'
<1>1. CASE RecreateNext(c)
  <2>1. PICK f \in members[c] : members' = [members EXCEPT ![c] = @ \ {f}] /\ To(c, f, "check")
    BY <1>1 DEF RecreateNext
  <2>2. f \in Flows
    BY DEF TypeOK
  <2>3. at' \in [Commands -> [Flows -> Stages]]
    BY <2>1, <2>2, ToType DEF Stages
  <2>4. op' \in [Commands -> Ops] /\ members' \in [Commands -> SUBSET Flows]
    BY <1>1, <2>1 DEF RecreateNext, TypeOK, Ops
  <2> QED BY <1>1, <2>3, <2>4 DEF RecreateNext, TypeOK, maps, runVars
<1>2. CASE End(c)
  <2>1. at' \in [Commands -> [Flows -> Stages]]
    BY <1>2, StageType DEF End, TypeOK, Stages, Settled
  <2>2. /\ op' \in [Commands -> Ops] /\ members' \in [Commands -> SUBSET Flows]
        /\ hand' \in [Commands -> [Flows -> Nat]]
    BY <1>2 DEF End, TypeOK, Ops, None
  <2> QED BY <1>2, <2>1, <2>2 DEF End, TypeOK, maps, runVars
<1> QED BY <1>1, <1>2

LEMMA InitType == Init => TypeOK
<1> SUFFICES ASSUME Init PROVE TypeOK
  OBVIOUS
<1>1. flows \in [Flows -> Nat]
  BY DEF Init, None
<1>2. live \in [Flows -> SUBSET (Nat \ {None})]
  BY <1>1 DEF Init, None
<1>3. /\ op \in [Commands -> Ops] /\ at \in [Commands -> [Flows -> Stages]]
      /\ members \in [Commands -> SUBSET Flows] /\ hand \in [Commands -> [Flows -> Nat]]
  BY DEF Init, Ops, Stages, Settled, None
<1> QED BY <1>1, <1>2, <1>3, RegistryBounds DEF Init, TypeOK

(* Every variable has its type, for any flows and any number of commands.  *)
THEOREM RegistryTypeCorrect == Spec => []TypeOK
<1>1. TypeOK /\ [Next]_vars => TypeOK'
  <2> SUFFICES ASSUME TypeOK, [Next]_vars PROVE TypeOK'
    OBVIOUS
  <2>1. CASE Next
    BY <2>1, WorkType, CommenceType, EndType DEF Next
  <2>2. CASE UNCHANGED vars
    BY <2>2 DEF TypeOK, vars, maps, runVars, cmdVars
  <2> QED BY <2>1, <2>2
<1> QED BY <1>1, InitType, PTL DEF Spec

------------------------------------------------------------------------------
(* Runs in hand                                                            *)

(* A step that changes no run, hand or registry entry, and takes no        *)
(* command to a stage where it has a run in hand, keeps the invariant.     *)
LEMMA NoRunMoves ==
    ASSUME HandInv, RegisteredRunLives,
           UNCHANGED <<flows, live, made>>,
           \A c \in Commands, f \in Flows :
               InHand(c, f)' => at'[c][f] = at[c][f] /\ hand'[c][f] = hand[c][f]
    PROVE  HandInv' /\ RegisteredRunLives'
BY DEF HandInv, RegisteredRunLives, InHand

(* What To leaves alone.                                                   *)
LEMMA ToValue ==
    ASSUME TypeOK, NEW c \in Commands, NEW f \in Flows, NEW stage, To(c, f, stage)
    PROVE  \A d \in Commands, g \in Flows :
               at'[d][g] = IF d = c /\ g = f THEN stage ELSE at[d][g]
BY DEF TypeOK, To

LEMMA StartRunKeeps ==
    ASSUME LifeInv, NEW c \in Commands, NEW f \in Flows, StartRun(c, f)
    PROVE  HandInv' /\ RegisteredRunLives'
<1>0. TypeOK /\ HandInv /\ RegisteredRunLives
  BY DEF LifeInv
<1>1. /\ \A d \in Commands, g \in Flows :
           /\ at'[d][g] = IF d = c /\ g = f THEN "starting" ELSE at[d][g]
           /\ d # c \/ g # f => hand'[d][g] = hand[d][g]
      /\ hand'[c][f] = made[f] + 1
  BY <1>0 DEF StartRun, To, TypeOK
<1>2. /\ made'[f] = made[f] + 1
      /\ live'[f] = live[f] \cup {made[f] + 1}
      /\ \A g \in Flows \ {f} : made'[g] = made[g] /\ live'[g] = live[g]
      /\ flows' = flows
  BY <1>0 DEF StartRun, TypeOK
<1>3. \A g \in Flows : made[g] \in Nat /\ made'[g] \in Nat /\ flows[g] \in Nat
  BY <1>0, <1>2 DEF TypeOK
<1>4. HandInv'
  <2>1. \A g \in Flows : flows'[g] \in 0 .. made'[g]
    BY <1>0, <1>2, <1>3 DEF HandInv
  <2>2. \A g \in Flows : \A q \in live'[g] : q \in 1 .. made'[g]
    BY <1>0, <1>2, <1>3 DEF HandInv
  <2>3. \A d \in Commands, g \in Flows :
           InHand(d, g)' => hand'[d][g] \in 1 .. made'[g] /\ hand'[d][g] # flows'[g]
    BY <1>0, <1>1, <1>2, <1>3 DEF HandInv, InHand
  <2>4. \A d \in Commands, g \in Flows :
           at'[d][g] = "starting" => hand'[d][g] \in live'[g]
    BY <1>0, <1>1, <1>2 DEF HandInv
  <2> QED BY <2>1, <2>2, <2>3, <2>4 DEF HandInv
<1>5. \A d \in Commands : InHand(d, f) => hand[d][f] # made[f] + 1
  BY <1>0, <1>3 DEF HandInv
<1>6. RegisteredRunLives'
  BY <1>0, <1>1, <1>2, <1>5 DEF RegisteredRunLives, InHand
<1> QED BY <1>4, <1>6

(* A run leaves the registry for one command's hands: destroy_flow and     *)
(* stop_all.                                                               *)
LEMMA TakenKeeps ==
    ASSUME LifeInv, NEW c \in Commands, NEW f \in Flows, NEW stage \in {"mark", "swept"},
           ~ InHand(c, f), flows[f] # None, To(c, f, stage),
           hand' = [hand EXCEPT ![c][f] = flows[f]],
           flows' = [flows EXCEPT ![f] = None], UNCHANGED <<live, made>>
    PROVE  HandInv' /\ RegisteredRunLives'
<1>0. TypeOK /\ HandInv /\ RegisteredRunLives
  BY DEF LifeInv
<1>1. \A d \in Commands, g \in Flows :
         /\ at'[d][g] = IF d = c /\ g = f THEN stage ELSE at[d][g]
         /\ hand'[d][g] = IF d = c /\ g = f THEN flows[f] ELSE hand[d][g]
  BY <1>0 DEF To, TypeOK
<1>2. \A g \in Flows : /\ flows'[g] = IF g = f THEN None ELSE flows[g]
                       /\ made[g] \in Nat /\ flows[g] \in Nat
  BY <1>0 DEF TypeOK
<1>3. HandInv'
  <2>1. \A g \in Flows : flows'[g] \in 0 .. made'[g]
    BY <1>0, <1>2 DEF HandInv, None
  <2>2. \A d \in Commands, g \in Flows :
           InHand(d, g)' => hand'[d][g] \in 1 .. made'[g] /\ hand'[d][g] # flows'[g]
    BY <1>0, <1>1, <1>2 DEF HandInv, InHand, None
  <2>3. \A d \in Commands, g \in Flows :
           at'[d][g] = "starting" => hand'[d][g] \in live'[g]
    BY <1>0, <1>1 DEF HandInv
  <2> QED BY <1>0, <2>1, <2>2, <2>3 DEF HandInv
<1>4. \A d \in Commands : InHand(d, f) => hand[d][f] # flows[f]
  BY <1>0 DEF HandInv
<1>5. RegisteredRunLives'
  BY <1>0, <1>1, <1>2, <1>4 DEF RegisteredRunLives, InHand
<1> QED BY <1>3, <1>5

(* A run in one command's hands is cancelled: it is nobody else's.         *)
LEMMA CancelledKeeps ==
    ASSUME LifeInv, NEW c \in Commands, NEW f \in Flows,
           NEW stage \in {"failed", "stopping", "draining"},
           InHand(c, f), To(c, f, stage),
           live' = [live EXCEPT ![f] = @ \ {hand[c][f]}],
           UNCHANGED <<flows, made, hand>>
    PROVE  HandInv' /\ RegisteredRunLives'
<1>0. TypeOK /\ HandInv /\ RegisteredRunLives
  BY DEF LifeInv
<1>1. \A d \in Commands, g \in Flows :
         at'[d][g] = IF d = c /\ g = f THEN stage ELSE at[d][g]
  BY <1>0, ToValue
<1>2. \A g \in Flows :
         live'[g] = IF g = f THEN live[g] \ {hand[c][f]} ELSE live[g]
  BY <1>0 DEF TypeOK
<1>3. \A d \in Commands \ {c} : InHand(d, f) => hand[d][f] # hand[c][f]
  BY <1>0 DEF RegisteredRunLives
<1>4. hand[c][f] # flows[f]
  BY <1>0 DEF HandInv
<1>5. \A d \in Commands, g \in Flows : InHand(d, g)' => InHand(d, g)
  BY <1>1 DEF InHand
<1>6. HandInv'
  <2>1. \A g \in Flows : \A q \in live'[g] : q \in 1 .. made'[g]
    BY <1>0, <1>2 DEF HandInv
  <2>2. \A d \in Commands, g \in Flows :
           InHand(d, g)' => hand'[d][g] \in 1 .. made'[g] /\ hand'[d][g] # flows'[g]
    BY <1>0, <1>5 DEF HandInv
  <2>3. \A d \in Commands, g \in Flows :
           at'[d][g] = "starting" => hand'[d][g] \in live'[g]
    BY <1>0, <1>1, <1>2, <1>3 DEF HandInv, InHand
  <2> QED BY <1>0, <2>1, <2>2, <2>3 DEF HandInv
<1>7. RegisteredRunLives'
  BY <1>0, <1>2, <1>4, <1>5 DEF RegisteredRunLives
<1> QED BY <1>6, <1>7

(* A started run enters the registry.                                      *)
LEMMA InsertRunKeeps ==
    ASSUME LifeInv, NEW c \in Commands, NEW f \in Flows, InsertRun(c, f)
    PROVE  HandInv' /\ RegisteredRunLives'
<1>0. TypeOK /\ HandInv /\ RegisteredRunLives
  BY DEF LifeInv
<1>1. \A d \in Commands, g \in Flows :
         at'[d][g] = IF d = c /\ g = f THEN "ok" ELSE at[d][g]
  BY <1>0, ToValue DEF InsertRun
<1>2. \A g \in Flows : flows'[g] = IF g = f THEN hand[c][f] ELSE flows[g]
  BY <1>0 DEF InsertRun, TypeOK
<1>3. /\ InHand(c, f) /\ hand[c][f] \in live[f] /\ hand[c][f] \in 1 .. made[f]
      /\ made[f] \in Nat /\ UNCHANGED <<live, made, hand>>
  BY <1>0 DEF InsertRun, HandInv, InHand, runVars, TypeOK
<1>4. \A d \in Commands \ {c} : InHand(d, f) => hand[d][f] # hand[c][f]
  BY <1>0, <1>3 DEF RegisteredRunLives
<1>5. \A d \in Commands, g \in Flows :
         InHand(d, g)' => InHand(d, g) /\ (d # c \/ g # f)
  BY <1>1 DEF InHand
<1>6. HandInv'
  <2>1. \A g \in Flows : flows'[g] \in 0 .. made'[g]
    BY <1>0, <1>2, <1>3 DEF HandInv
  <2>2. \A d \in Commands, g \in Flows :
           InHand(d, g)' => hand'[d][g] \in 1 .. made'[g] /\ hand'[d][g] # flows'[g]
    BY <1>0, <1>2, <1>3, <1>4, <1>5 DEF HandInv
  <2>3. \A d \in Commands, g \in Flows :
           at'[d][g] = "starting" => hand'[d][g] \in live'[g]
    BY <1>0, <1>1, <1>3 DEF HandInv
  <2> QED BY <1>0, <1>3, <2>1, <2>2, <2>3 DEF HandInv
<1>7. RegisteredRunLives'
  BY <1>0, <1>2, <1>3, <1>5 DEF RegisteredRunLives
<1> QED BY <1>6, <1>7

(* The steps that leave every run where it is.                             *)
LEMMA QuietStepKeeps ==
    ASSUME LifeInv, NEW c \in Commands, NEW f \in Flows,
           \/ CheckAbsent(c, f) \/ StopDone(c, f) \/ StopInterrupted(c, f)
           \/ DrainDone(c, f) \/ RestartStarts(c, f) \/ RollbackNext(c, f)
    PROVE  HandInv' /\ RegisteredRunLives'
<1>0. TypeOK /\ HandInv /\ RegisteredRunLives
  BY DEF LifeInv
<1>1. PICK stage \in {"start", "failed", "stopped", "check", "remove"} : To(c, f, stage)
  BY DEF CheckAbsent, StopDone, StopInterrupted, DrainDone, RestartStarts, RollbackNext
<1>2. UNCHANGED <<flows, live, made, hand>>
  BY DEF CheckAbsent, StopDone, StopInterrupted, DrainDone, RestartStarts, RollbackNext,
         maps, runVars
<1>3. \A d \in Commands, g \in Flows :
         at'[d][g] = IF d = c /\ g = f THEN stage ELSE at[d][g]
  BY <1>0, <1>1, ToValue
<1>4. \A d \in Commands, g \in Flows : InHand(d, g)' => at'[d][g] = at[d][g]
  BY <1>1, <1>3 DEF InHand
<1> QED BY <1>0, <1>2, <1>4, NoRunMoves

LEMMA WorkKeeps ==
    ASSUME LifeInv, NEW c \in Commands, NEW f \in Flows, Work(c, f)
    PROVE  HandInv' /\ RegisteredRunLives'
<1>0. TypeOK /\ HandInv /\ RegisteredRunLives
  BY DEF LifeInv
<1>1. CASE StartRun(c, f)
  BY <1>1, StartRunKeeps
<1>2. CASE InsertRun(c, f)
  BY <1>2, InsertRunKeeps
<1>3. CASE StartFails(c, f)
  BY <1>3, CancelledKeeps DEF StartFails, Unwind, InHand
<1>4. CASE StopRun(c, f)
  BY <1>4, CancelledKeeps DEF StopRun, InHand
<1>5. CASE DrainRun(c, f)
  BY <1>5, CancelledKeeps DEF DrainRun, InHand
<1>6. CASE RemoveRun(c, f)
  <2>1. CASE flows[f] = None
    <3>1. To(c, f, "absent") /\ UNCHANGED <<flows, live, made, hand>>
      BY <1>6, <2>1 DEF RemoveRun, runVars
    <3>2. \A d \in Commands, g \in Flows :
             at'[d][g] = IF d = c /\ g = f THEN "absent" ELSE at[d][g]
      BY <1>0, <3>1, ToValue
    <3>3. \A d \in Commands, g \in Flows : InHand(d, g)' => at'[d][g] = at[d][g]
      BY <3>2 DEF InHand
    <3> QED BY <1>0, <3>1, <3>3, NoRunMoves
  <2>2. CASE flows[f] # None
    <3>1. /\ To(c, f, "mark") /\ hand' = [hand EXCEPT ![c][f] = flows[f]]
          /\ flows' = [flows EXCEPT ![f] = None] /\ UNCHANGED <<live, made>>
          /\ ~ InHand(c, f)
      BY <1>6, <2>2 DEF RemoveRun, AfterRemove, runVars, InHand
    <3> QED BY <2>2, <3>1, TakenKeeps
  <2> QED BY <2>1, <2>2
<1>7. CASE SweepRun(c, f)
  <2>0. /\ hand' = [hand EXCEPT ![c][f] = flows[f]]
        /\ flows' = [flows EXCEPT ![f] = None] /\ UNCHANGED <<live, made>>
        /\ ~ InHand(c, f)
    BY <1>7 DEF SweepRun, runVars, InHand
  <2>1. CASE flows[f] = None
    <3>1. To(c, f, "absent")
      BY <1>7, <2>1 DEF SweepRun
    <3>2. \A d \in Commands, g \in Flows :
             at'[d][g] = IF d = c /\ g = f THEN "absent" ELSE at[d][g]
      BY <1>0, <3>1, ToValue
    <3>3. flows' = flows
      BY <1>0, <2>0, <2>1 DEF TypeOK
    <3>4. \A d \in Commands, g \in Flows : d # c \/ g # f => hand'[d][g] = hand[d][g]
      BY <1>0, <2>0 DEF TypeOK
    <3>5. \A d \in Commands, g \in Flows :
             InHand(d, g)' => at'[d][g] = at[d][g] /\ hand'[d][g] = hand[d][g]
      BY <3>2, <3>4 DEF InHand
    <3> QED BY <1>0, <2>0, <3>3, <3>5, NoRunMoves
  <2>2. CASE flows[f] # None
    <3>1. To(c, f, "swept")
      BY <1>7, <2>2 DEF SweepRun
    <3> QED BY <2>0, <2>2, <3>1, TakenKeeps
  <2> QED BY <2>1, <2>2
<1> QED
  BY <1>1, <1>2, <1>3, <1>4, <1>5, <1>6, <1>7, QuietStepKeeps DEF Work

(* A command that begins, goes on to its next flow or ends has no run in   *)
(* hand for the flows it moves.                                            *)
LEMMA BeginKeeps ==
    ASSUME LifeInv, NEW c \in Commands, NEW o, NEW ms,
           NEW x, NEW stage \in {"check", "remove", "sweep"},
           Begin(c, o, ms, Stage(x, stage))
    PROVE  HandInv' /\ RegisteredRunLives'
<1>0. TypeOK /\ HandInv /\ RegisteredRunLives
  BY DEF LifeInv
<1>1. UNCHANGED <<flows, live, made, hand>> /\ at' = [at EXCEPT ![c] = Stage(x, stage)]
  BY DEF Begin, maps, runVars
<1>2. \A d \in Commands, g \in Flows :
         IF d = c THEN at'[d][g] \in {stage, "none"} ELSE at'[d][g] = at[d][g]
  BY <1>0, <1>1 DEF Stage, TypeOK
<1>3. \A d \in Commands, g \in Flows : InHand(d, g)' => at'[d][g] = at[d][g]
  BY <1>2 DEF InHand
<1> QED BY <1>0, <1>1, <1>3, NoRunMoves

LEMMA CommenceKeeps ==
    ASSUME LifeInv, NEW c \in Commands, Commence(c)
    PROVE  HandInv' /\ RegisteredRunLives'
<1>1. CASE BeginCreate(c)
  BY <1>1, BeginKeeps DEF BeginCreate
<1>2. CASE BeginDestroy(c)
  BY <1>2, BeginKeeps DEF BeginDestroy
<1>3. CASE BeginRestart(c)
  BY <1>3, BeginKeeps DEF BeginRestart
<1>4. CASE BeginGroupStart(c)
  BY <1>4, BeginKeeps DEF BeginGroupStart
<1>5. CASE BeginGroupStop(c)
  BY <1>5, BeginKeeps DEF BeginGroupStop
<1>6. CASE BeginReplace(c)
  BY <1>6, BeginKeeps DEF BeginReplace
<1> QED BY <1>1, <1>2, <1>3, <1>4, <1>5, <1>6 DEF Commence

LEMMA EndKeeps ==
    ASSUME LifeInv, NEW c \in Commands, RecreateNext(c) \/ End(c)
    PROVE  HandInv' /\ RegisteredRunLives'
<1>0. TypeOK /\ HandInv /\ RegisteredRunLives
  BY DEF LifeInv
<1>1. CASE RecreateNext(c)
  <2>1. PICK f \in members[c] : To(c, f, "check")
    BY <1>1 DEF RecreateNext
  <2>2. \A d \in Commands, g \in Flows :
           at'[d][g] = IF d = c /\ g = f THEN "check" ELSE at[d][g]
    BY <1>0, <2>1, ToValue DEF TypeOK
  <2>3. \A d \in Commands, g \in Flows : InHand(d, g)' => at'[d][g] = at[d][g]
    BY <2>2 DEF InHand
  <2> QED BY <1>0, <1>1, <2>3, NoRunMoves DEF RecreateNext, maps, runVars
<1>2. CASE End(c)
  <2>1. \A d \in Commands, g \in Flows :
           IF d = c THEN at'[d][g] = "none"
           ELSE at'[d][g] = at[d][g] /\ hand'[d][g] = hand[d][g]
    BY <1>0, <1>2 DEF End, Stage, TypeOK
  <2>2. \A d \in Commands, g \in Flows :
           InHand(d, g)' => at'[d][g] = at[d][g] /\ hand'[d][g] = hand[d][g]
    BY <2>1 DEF InHand
  <2> QED BY <1>0, <1>2, <2>2, NoRunMoves DEF End, maps, runVars
<1> QED BY <1>1, <1>2

(* The registry never names a run that was told to stop, and no run is in  *)
(* the hands of two commands (manager.rs, destroy_flow's flows.remove and  *)
(* create_flow's insert), however many commands there are.                 *)
THEOREM RegistryNamesLiveRuns == Spec => []RegisteredRunLives
<1>1. Init => LifeInv
  <2> SUFFICES ASSUME Init PROVE LifeInv
    OBVIOUS
  <2>1. TypeOK
    BY InitType
  <2>2. \A f \in Flows : /\ flows[f] \in Nat /\ made[f] = flows[f]
                         /\ live[f] = {flows[f]} \ {None}
    BY <2>1 DEF Init, TypeOK
  <2>3. \A c \in Commands, f \in Flows : at[c][f] = "none"
    BY DEF Init
  <2>4. HandInv /\ RegisteredRunLives
    BY <2>2, <2>3 DEF HandInv, RegisteredRunLives, InHand, None
  <2> QED BY <2>1, <2>4 DEF LifeInv
<1>2. LifeInv /\ [Next]_vars => LifeInv'
  <2> SUFFICES ASSUME LifeInv, [Next]_vars PROVE LifeInv'
    OBVIOUS
  <2>0. TypeOK /\ HandInv /\ RegisteredRunLives
    BY DEF LifeInv
  <2>1. CASE Next
    <3>1. TypeOK'
      BY <2>0, <2>1, WorkType, CommenceType, EndType DEF Next
    <3>2. HandInv' /\ RegisteredRunLives'
      BY <2>1, WorkKeeps, CommenceKeeps, EndKeeps DEF Next
    <3> QED BY <3>1, <3>2 DEF LifeInv
  <2>2. CASE UNCHANGED vars
    BY <2>0, <2>2 DEF LifeInv, TypeOK, HandInv, RegisteredRunLives, InHand,
                      vars, maps, runVars, cmdVars
  <2> QED BY <2>1, <2>2
<1>3. LifeInv => RegisteredRunLives
  BY DEF LifeInv
<1> QED BY <1>1, <1>2, <1>3, PTL DEF Spec

------------------------------------------------------------------------------
(* Flows whose commands came one at a time                                 *)

(* A command has a stage only for flows it concerns, and a flow that has   *)
(* not been overlapped is the concern of one command at most.              *)
TouchInv ==
  /\ \A c \in Commands, f \in Flows :
       at[c][f] # "none" => Busy(c) /\ f \in Touches(op[c], members[c])
  /\ \A c, d \in Commands, f \in Flows :
       /\ Busy(c) /\ f \in Touches(op[c], members[c])
       /\ Busy(d) /\ f \in Touches(op[d], members[d])
       /\ f \notin overlapped
       => c = d

(* A flow no command has in hand runs with all that belongs to its run, or *)
(* has left nothing behind.                                                *)
Resting(f) ==
  /\ f \notin stopping
  /\ IF flows[f] = None
     THEN live[f] = {} /\ publisher[f] = None /\ (f \notin uncounted => stats[f] = None)
     ELSE live[f] = {flows[f]} /\ stats[f] = flows[f] /\ publisher[f] = flows[f]

(* A flow a command has in hand is not in the registry; until the run is   *)
(* told to stop all that belongs to it is there, and then no task is.      *)
Held(c, f) ==
  /\ flows[f] = None
  /\ IF at[c][f] \in {"stopping", "draining"}
     THEN live[f] = {} /\ publisher[f] = None
     ELSE /\ hand[c][f] # None
          /\ live[f] = {hand[c][f]} /\ stats[f] = hand[c][f] /\ publisher[f] = hand[c][f]
  /\ at[c][f] # "stopping" => f \notin stopping
  /\ at[c][f] = "draining" => f \in uncounted

FlowFine(f) ==
  /\ \A c \in Commands : InHand(c, f) => Held(c, f)
  /\ (\A c \in Commands : ~InHand(c, f)) => Resting(f)
  /\ \A c \in Commands : at[c][f] = "start" => flows[f] = None

(* A member of a group that is being started is in the registry only while *)
(* this start has put it there.                                            *)
GroupInv ==
  \A c \in Commands : op[c] = "group_start" => \A f \in members[c] :
    /\ at[c][f] # "none"
    /\ f \notin overlapped /\ at[c][f] \notin {"ok", "remove"} => flows[f] = None

SerialInv ==
  TypeOK /\ TouchInv /\ (\A f \in Flows \ overlapped : FlowFine(f)) /\ GroupInv

(* The step of a command with one flow leaves every other flow, and every  *)
(* other command, where it was.                                            *)
LEMMA WorkLocal ==
  ASSUME TypeOK, NEW c \in Commands, NEW f \in Flows, Work(c, f)
  PROVE  /\ overlapped' = overlapped /\ members' = members
         /\ \A d \in Commands, g \in Flows :
              ~(d = c /\ g = f) => at'[d][g] = at[d][g] /\ hand'[d][g] = hand[d][g]
         /\ at[c][f] # "none" /\ at'[c][f] # "none"
         /\ \A d \in Commands \ {c} : op'[d] = op[d]
         /\ \/ op'[c] = op[c]
            \/ op[c] \in {"destroy", "restart"} /\ op'[c] \in {"destroy", "create"}
         /\ \A g \in Flows \ {f} :
              /\ flows'[g] = flows[g] /\ stats'[g] = stats[g]
              /\ publisher'[g] = publisher[g] /\ live'[g] = live[g]
              /\ g \in stopping' <=> g \in stopping
              /\ g \in uncounted' <=> g \in uncounted
<1> USE DEF TypeOK
<1>1. CASE CheckAbsent(c, f) \/ DrainDone(c, f) \/ RollbackNext(c, f)
  BY <1>1 DEF CheckAbsent, DrainDone, RollbackNext, To, maps, runVars, cmdVars
<1>2. CASE StartRun(c, f)
  BY <1>2 DEF StartRun, To, cmdVars
<1>3. CASE StartFails(c, f)
  BY <1>3 DEF StartFails, Unwind, To, cmdVars
<1>4. CASE InsertRun(c, f)
  BY <1>4 DEF InsertRun, To, runVars, cmdVars
<1>5. CASE RemoveRun(c, f)
  BY <1>5 DEF RemoveRun, AfterRemove, To, runVars, cmdVars
<1>6. CASE StopRun(c, f)
  BY <1>6 DEF StopRun, To, cmdVars
<1>7. CASE StopDone(c, f)
  BY <1>7 DEF StopDone, To, runVars, cmdVars
<1>8. CASE StopInterrupted(c, f)
  BY <1>8 DEF StopInterrupted, MarkAfterUnwind, To, runVars
<1>9. CASE SweepRun(c, f)
  BY <1>9 DEF SweepRun, To, runVars, cmdVars
<1>10. CASE DrainRun(c, f)
  BY <1>10 DEF DrainRun, To, cmdVars
<1>11. CASE RestartStarts(c, f)
  BY <1>11 DEF RestartStarts, To, maps, runVars
<1> QED
  BY <1>1, <1>2, <1>3, <1>4, <1>5, <1>6, <1>7, <1>8, <1>9, <1>10, <1>11 DEF Work

(* A command that alone is concerned with a flow keeps it in order, from   *)
(* stage to stage.                                                         *)
LEMMA WorkFine ==
  ASSUME TypeOK, NEW c \in Commands, NEW f \in Flows, FlowFine(f), Work(c, f),
         \A d \in Commands \ {c} : at[d][f] = "none"
  PROVE  FlowFine(f)'
<1>0. /\ \A d \in Commands \ {c} : at'[d][f] = "none" /\ at[d][f] = "none"
      /\ at \in [Commands -> [Flows -> Stages]] /\ hand \in [Commands -> [Flows -> Nat]]
      /\ flows \in [Flows -> Nat] /\ stats \in [Flows -> Nat] /\ publisher \in [Flows -> Nat]
      /\ live \in [Flows -> SUBSET (Nat \ {None})] /\ made \in [Flows -> Nat]
  BY WorkLocal DEF TypeOK
<1>a. /\ InHand(c, f) => Held(c, f)
      /\ ~InHand(c, f) => Resting(f)
      /\ at[c][f] = "start" => flows[f] = None
  BY <1>0 DEF FlowFine, InHand
<1>b. SUFFICES /\ InHand(c, f)' => Held(c, f)'
               /\ ~InHand(c, f)' => Resting(f)'
               /\ at'[c][f] = "start" => flows'[f] = None
  BY <1>0 DEF FlowFine, InHand
<1> USE DEF InHand, Held, Resting
<1>1. CASE CheckAbsent(c, f) \/ DrainDone(c, f) \/ RollbackNext(c, f)
  <2>1. UNCHANGED <<flows, stopping, stats, publisher, live, hand, uncounted>>
    BY <1>1 DEF CheckAbsent, DrainDone, RollbackNext, maps, runVars
  <2>2. \/ at[c][f] \in {"check", "ok"} /\ at'[c][f] \in {"start", "failed", "remove"}
           /\ (at'[c][f] = "start" => flows[f] = None)
        \/ at[c][f] = "draining" /\ at'[c][f] = "stopped"
    BY <1>0, <1>1 DEF CheckAbsent, DrainDone, RollbackNext, To
  <2> QED BY <1>a, <2>1, <2>2
<1>2. CASE StartRun(c, f)
  <2>1. /\ at[c][f] = "start" /\ at'[c][f] = "starting" /\ hand'[c][f] = made[f] + 1
        /\ live'[f] = live[f] \cup {made[f] + 1} /\ stats'[f] = made[f] + 1
        /\ publisher'[f] = made[f] + 1 /\ flows' = flows /\ stopping' = stopping
    BY <1>0, <1>2 DEF StartRun, RegisteredStats, To
  <2>2. made[f] + 1 # None
    BY <1>0 DEF None
  <2> QED BY <1>a, <2>1, <2>2
<1>3. CASE StartFails(c, f)
  <2>1. /\ at[c][f] = "starting" /\ at'[c][f] = "failed"
        /\ live'[f] = live[f] \ {hand[c][f]} /\ stats'[f] = None /\ publisher'[f] = None
        /\ flows' = flows /\ stopping' = stopping
    BY <1>0, <1>3 DEF StartFails, Unwind, To
  <2> QED BY <1>a, <2>1
<1>4. CASE InsertRun(c, f)
  <2>1. /\ at[c][f] = "starting" /\ at'[c][f] = "ok" /\ flows'[f] = hand[c][f]
        /\ UNCHANGED <<live, stats, publisher, stopping>>
    BY <1>0, <1>4 DEF InsertRun, To, runVars
  <2> QED BY <1>a, <2>1
<1>5. CASE RemoveRun(c, f) \/ SweepRun(c, f)
  <2>1. UNCHANGED <<live, stats, publisher, stopping, uncounted>>
    BY <1>5 DEF RemoveRun, SweepRun, runVars
  <2>2. /\ at[c][f] \in {"remove", "sweep"} /\ flows'[f] = None
        /\ \/ flows[f] = None /\ at'[c][f] = "absent"
           \/ flows[f] # None /\ at'[c][f] \in {"mark", "swept"} /\ hand'[c][f] = flows[f]
    BY <1>0, <1>5 DEF RemoveRun, SweepRun, AfterRemove, To
  <2> QED BY <1>a, <2>1, <2>2
<1>6. CASE StopRun(c, f) \/ DrainRun(c, f)
  <2>1. /\ at[c][f] \in {"mark", "swept"} /\ live'[f] = live[f] \ {hand[c][f]}
        /\ publisher'[f] = None /\ flows' = flows /\ hand' = hand
        /\ \/ at'[c][f] = "stopping"
           \/ at'[c][f] = "draining" /\ f \in uncounted' /\ stopping' = stopping
    BY <1>0, <1>6 DEF StopRun, DrainRun, To
  <2> QED BY <1>a, <2>1
<1>7. CASE StopDone(c, f) \/ StopInterrupted(c, f)
  <2>1. /\ at[c][f] = "stopping" /\ at'[c][f] = "stopped" /\ f \notin stopping'
        /\ UNCHANGED <<flows, publisher, live>>
        /\ f \in uncounted' \/ stats'[f] = None
    BY <1>0, <1>7 DEF StopDone, StopInterrupted, MarkAfterUnwind, To, runVars
  <2> QED BY <1>a, <2>1
<1>8. CASE RestartStarts(c, f)
  <2>1. UNCHANGED <<flows, stopping, stats, publisher, live, hand, uncounted>>
    BY <1>8 DEF RestartStarts, maps, runVars
  <2>2. at[c][f] \in {"absent", "stopped"} /\ at'[c][f] = "check"
    BY <1>0, <1>8 DEF RestartStarts, To
  <2> QED BY <1>a, <2>1, <2>2
<1> QED
  BY <1>1, <1>2, <1>3, <1>4, <1>5, <1>6, <1>7, <1>8 DEF Work

(* What a flow needs to stay in order: it is looked at through its own     *)
(* entries and the stages it is at.                                        *)
LEMMA FineKept ==
  ASSUME NEW g \in Flows, FlowFine(g),
         flows'[g] = flows[g], stats'[g] = stats[g],
         publisher'[g] = publisher[g], live'[g] = live[g],
         g \in stopping' <=> g \in stopping,
         g \in uncounted' <=> g \in uncounted,
         \A d \in Commands : at'[d][g] = at[d][g] /\ hand'[d][g] = hand[d][g]
  PROVE  FlowFine(g)'
<1>1. \A d \in Commands : InHand(d, g)' <=> InHand(d, g)
  BY DEF InHand
<1>2. \A d \in Commands : Held(d, g) => Held(d, g)'
  BY DEF Held
<1>3. Resting(g) => Resting(g)'
  BY DEF Resting
<1> QED BY <1>1, <1>2, <1>3 DEF FlowFine

(* The steps of a command with a flow keep all of it. *)
LEMMA WorkSerial ==
  ASSUME SerialInv, NEW c \in Commands, NEW f \in Flows, Work(c, f)
  PROVE  SerialInv'
<1>0. TypeOK /\ TouchInv /\ (\A g \in Flows \ overlapped : FlowFine(g)) /\ GroupInv
  BY DEF SerialInv
<1>1. /\ overlapped' = overlapped /\ members' = members
      /\ \A d \in Commands, g \in Flows :
           ~(d = c /\ g = f) => at'[d][g] = at[d][g] /\ hand'[d][g] = hand[d][g]
      /\ at[c][f] # "none" /\ at'[c][f] # "none"
      /\ \A d \in Commands \ {c} : op'[d] = op[d]
      /\ \/ op'[c] = op[c]
         \/ op[c] \in {"destroy", "restart"} /\ op'[c] \in {"destroy", "create"}
      /\ \A g \in Flows \ {f} :
           /\ flows'[g] = flows[g] /\ stats'[g] = stats[g]
           /\ publisher'[g] = publisher[g] /\ live'[g] = live[g]
           /\ g \in stopping' <=> g \in stopping
           /\ g \in uncounted' <=> g \in uncounted
  BY <1>0, WorkLocal
<1>2. TypeOK'
  BY <1>0, WorkType
<1>3. \A d \in Commands : /\ Busy(d)' <=> Busy(d)
                          /\ Touches(op'[d], members'[d]) = Touches(op[d], members[d])
  BY <1>1 DEF Busy, Touches
<1>4. TouchInv'
  <2>1. \A d \in Commands, g \in Flows :
          at'[d][g] # "none" => Busy(d)' /\ g \in Touches(op'[d], members'[d])
    BY <1>0, <1>1, <1>3 DEF TouchInv
  <2>2. \A d, e \in Commands, g \in Flows :
          /\ Busy(d)' /\ g \in Touches(op'[d], members'[d])
          /\ Busy(e)' /\ g \in Touches(op'[e], members'[e])
          /\ g \notin overlapped'
          => d = e
    BY <1>0, <1>1, <1>3 DEF TouchInv
  <2> QED BY <2>1, <2>2 DEF TouchInv
<1>5. ASSUME NEW g \in Flows \ overlapped' PROVE FlowFine(g)'
  <2>1. CASE g = f
    <3>1. \A d \in Commands \ {c} : at[d][f] = "none"
      BY <1>0, <1>1, <2>1 DEF TouchInv
    <3> QED BY <1>0, <1>1, <2>1, <3>1, WorkFine
  <2>2. CASE g # f
    BY <1>0, <1>1, <2>2, FineKept
  <2> QED BY <2>1, <2>2
<1>6. GroupInv'
  <2> SUFFICES ASSUME NEW d \in Commands, op'[d] = "group_start", NEW g \in members'[d]
               PROVE  /\ at'[d][g] # "none"
                      /\ g \notin overlapped' /\ at'[d][g] \notin {"ok", "remove"}
                           => flows'[g] = None
    BY DEF GroupInv
  <2>1. op[d] = "group_start" /\ g \in members[d] /\ g \in Flows
    BY <1>0, <1>1 DEF TypeOK
  <2>2. /\ at[d][g] # "none"
        /\ g \notin overlapped /\ at[d][g] \notin {"ok", "remove"} => flows[g] = None
    BY <1>0, <2>1 DEF GroupInv
  <2>3. at'[d][g] # "none"
    BY <1>1, <2>1, <2>2
  <2>4. CASE g # f
    BY <1>1, <2>1, <2>2, <2>3, <2>4
  <2>5. CASE g = f /\ g \notin overlapped
    <3>1. Busy(d) /\ g \in Touches(op[d], members[d])
      BY <2>1 DEF Busy, Touches
    <3>2. Busy(c) /\ g \in Touches(op[c], members[c])
      BY <1>0, <1>1, <2>5 DEF TouchInv
    <3>3. d = c
      BY <1>0, <2>5, <3>1, <3>2, <2>1 DEF TouchInv
    <3>4. at'[c][f] \notin {"ok", "remove"} => flows'[f] = None
      <4> USE DEF TypeOK
      <4>1. op[c] = "group_start"
        BY <2>1, <3>3
      <4>2. at[c][f] \notin {"ok", "remove"} => flows[f] = None
        BY <2>2, <2>5, <3>3
      <4>3. CASE CheckAbsent(c, f) \/ DrainDone(c, f) \/ RollbackNext(c, f)
        BY <1>0, <4>2, <4>3 DEF CheckAbsent, DrainDone, RollbackNext, To, maps
      <4>4. CASE StartRun(c, f) \/ StartFails(c, f)
        BY <1>0, <4>2, <4>4 DEF StartRun, StartFails
      <4>5. CASE InsertRun(c, f)
        BY <1>0, <4>5 DEF InsertRun, To
      <4>6. CASE RemoveRun(c, f)
        BY <1>0, <4>6 DEF RemoveRun, AfterRemove, None
      <4>7. CASE StopRun(c, f) \/ StopDone(c, f) \/ DrainRun(c, f)
        BY <1>0, <4>2, <4>7 DEF StopRun, StopDone, DrainRun
      <4>8. CASE StopInterrupted(c, f) \/ RestartStarts(c, f)
        BY <4>1, <4>8 DEF StopInterrupted, RestartStarts
      <4>9. CASE SweepRun(c, f)
        BY <1>0, <4>9 DEF SweepRun
      <4> QED BY <4>3, <4>4, <4>5, <4>6, <4>7, <4>8, <4>9 DEF Work
    <3> QED BY <2>3, <2>5, <3>3, <3>4
  <2> QED BY <1>1, <2>3, <2>4, <2>5
<1> QED BY <1>2, <1>4, <1>5, <1>6 DEF SerialInv

(* A command that begins marks the flows it meets others on. *)
LEMMA BeginSerial ==
  ASSUME SerialInv, NEW c \in Commands, NEW o \in Ops \ {"idle"}, NEW ms \in SUBSET Flows,
         NEW x \in SUBSET Touches(o, ms), NEW stage \in {"check", "remove", "sweep"},
         o = "group_start" => x = ms /\ \A f \in ms : flows[f] = None,
         Begin(c, o, ms, Stage(x, stage))
  PROVE  SerialInv'
<1>0. TypeOK /\ TouchInv /\ (\A g \in Flows \ overlapped : FlowFine(g)) /\ GroupInv
  BY DEF SerialInv
<1>1. /\ ~Busy(c)
      /\ op' = [op EXCEPT ![c] = o] /\ members' = [members EXCEPT ![c] = ms]
      /\ at' = [at EXCEPT ![c] = Stage(x, stage)]
      /\ overlapped' = overlapped \cup (Touches(o, ms) \cap TouchedByOthers)
      /\ UNCHANGED <<flows, stopping, stats, publisher, live, made, hand, uncounted>>
  BY DEF Begin, maps, runVars
<1>2. /\ op'[c] = o /\ members'[c] = ms
      /\ \A d \in Commands \ {c} : op'[d] = op[d] /\ members'[d] = members[d]
      /\ \A d \in Commands \ {c}, g \in Flows : at'[d][g] = at[d][g]
      /\ \A g \in Flows : at'[c][g] = IF g \in x THEN stage ELSE "none"
  BY <1>0, <1>1 DEF TypeOK, Stage
<1>3. \A g \in Flows : at[c][g] = "none"
  BY <1>0, <1>1 DEF TouchInv
<1>4. TypeOK'
  <2>1. stage \in Stages
    BY DEF Stages
  <2> QED BY <1>0, <2>1, BeginType, StageType
<1>5. TouchInv'
  <2>1. \A d \in Commands, g \in Flows :
          at'[d][g] # "none" => Busy(d)' /\ g \in Touches(op'[d], members'[d])
    BY <1>0, <1>2 DEF TouchInv, Busy
  <2>2. ASSUME NEW d \in Commands, NEW e \in Commands, NEW g \in Flows,
               Busy(d)', g \in Touches(op'[d], members'[d]),
               Busy(e)', g \in Touches(op'[e], members'[e]),
               g \notin overlapped'
        PROVE  d = e
    <3>1. ASSUME NEW a \in Commands \ {c}, Busy(a)', g \in Touches(op'[a], members'[a])
          PROVE  g \in TouchedByOthers /\ Busy(a) /\ g \in Touches(op[a], members[a])
      <4>1. Busy(a) /\ g \in Touches(op[a], members[a])
        BY <1>2, <3>1 DEF Busy
      <4> QED BY <4>1 DEF TouchedByOthers
    <3>2. g \notin overlapped /\ ~(g \in Touches(o, ms) /\ g \in TouchedByOthers)
      BY <1>1, <2>2
    <3>3. CASE d = c /\ e # c
      BY <1>2, <2>2, <3>1, <3>2, <3>3
    <3>4. CASE d # c /\ e = c
      BY <1>2, <2>2, <3>1, <3>2, <3>4
    <3>5. CASE d # c /\ e # c
      BY <1>0, <2>2, <3>1, <3>2, <3>5 DEF TouchInv
    <3> QED BY <3>3, <3>4, <3>5
  <2> QED BY <2>1, <2>2 DEF TouchInv
<1>6. ASSUME NEW g \in Flows \ overlapped' PROVE FlowFine(g)'
  <2>1. FlowFine(g)
    BY <1>0, <1>1
  <2>2. \A d \in Commands : (InHand(d, g)' <=> InHand(d, g)) /\ (at'[d][g] = "start" => at[d][g] = "start")
    BY <1>2, <1>3 DEF InHand
  <2>3. \A d \in Commands : InHand(d, g)' => at'[d][g] = at[d][g]
    BY <1>2, <1>3 DEF InHand
  <2>4. \A d \in Commands : InHand(d, g)' => (Held(d, g) => Held(d, g)')
    BY <1>1, <2>3 DEF Held
  <2>5. Resting(g) => Resting(g)'
    BY <1>1 DEF Resting
  <2> QED BY <1>1, <2>1, <2>2, <2>4, <2>5 DEF FlowFine
<1>7. GroupInv'
  <2> SUFFICES ASSUME NEW d \in Commands, op'[d] = "group_start", NEW g \in members'[d]
               PROVE  /\ at'[d][g] # "none"
                      /\ g \notin overlapped' /\ at'[d][g] \notin {"ok", "remove"}
                           => flows'[g] = None
    BY DEF GroupInv
  <2>1. CASE d = c
    BY <1>1, <1>2, <2>1
  <2>2. CASE d # c
    <3>1. op[d] = "group_start" /\ g \in members[d] /\ g \in Flows
      BY <1>0, <1>2, <2>2 DEF TypeOK
    <3>2. /\ at[d][g] # "none"
          /\ g \notin overlapped /\ at[d][g] \notin {"ok", "remove"} => flows[g] = None
      BY <1>0, <3>1 DEF GroupInv
    <3> QED BY <1>1, <1>2, <2>2, <3>1, <3>2
  <2> QED BY <2>1, <2>2
<1> QED BY <1>4, <1>5, <1>6, <1>7 DEF SerialInv

LEMMA CommenceSerial ==
  ASSUME SerialInv, NEW c \in Commands, Commence(c)
  PROVE  SerialInv'
<1>0. {"create", "destroy", "restart", "group_start", "group_stop", "replace"}
        \subseteq Ops \ {"idle"}
  BY DEF Ops
<1>1. ASSUME NEW f \in Flows, NEW o \in {"create", "destroy", "restart"},
             NEW stage \in {"check", "remove"}, Begin(c, o, {f}, Stage({f}, stage))
      PROVE  SerialInv'
  <2>1. {f} \in SUBSET Touches(o, {f}) /\ {f} \in SUBSET Flows /\ o # "group_start"
    BY DEF Touches
  <2>2. o \in Ops \ {"idle"} /\ stage \in {"check", "remove", "sweep"}
    BY <1>0
  <2> QED BY <1>1, <2>1, <2>2, BeginSerial
<1>2. CASE BeginCreate(c) \/ BeginDestroy(c) \/ BeginRestart(c)
  BY <1>1, <1>2 DEF BeginCreate, BeginDestroy, BeginRestart
<1>3. CASE BeginGroupStart(c)
  <2>1. PICK ms \in SUBSET Flows : /\ \A f \in ms : flows[f] = None
                                  /\ Begin(c, "group_start", ms, Stage(ms, "check"))
    BY <1>3 DEF BeginGroupStart
  <2>2. ms \in SUBSET Touches("group_start", ms)
    BY DEF Touches
  <2> QED BY <1>0, <2>1, <2>2, BeginSerial
<1>4. CASE BeginGroupStop(c)
  <2>1. PICK ms \in SUBSET Flows : Begin(c, "group_stop", ms, Stage(ms, "remove"))
    BY <1>4 DEF BeginGroupStop
  <2>2. ms \in SUBSET Touches("group_stop", ms)
    BY DEF Touches
  <2> QED BY <1>0, <2>1, <2>2, BeginSerial
<1>5. CASE BeginReplace(c)
  <2>1. PICK ms \in SUBSET Flows :
          Begin(c, "replace", ms, Stage({f \in Flows : flows[f] # None}, "sweep"))
    BY <1>5 DEF BeginReplace
  <2>2. {f \in Flows : flows[f] # None} \in SUBSET Touches("replace", ms)
    BY DEF Touches
  <2> QED BY <1>0, <2>1, <2>2, BeginSerial
<1> QED BY <1>2, <1>3, <1>4, <1>5 DEF Commence

(* A command with nothing under way that goes on to its next flow, or that *)
(* ends, has no run in hand.                                               *)
LEMMA EndSerial ==
  ASSUME SerialInv, NEW c \in Commands, RecreateNext(c) \/ End(c)
  PROVE  SerialInv'
<1>0. TypeOK /\ TouchInv /\ (\A g \in Flows \ overlapped : FlowFine(g)) /\ GroupInv
  BY DEF SerialInv
<1>1. /\ overlapped' = overlapped
      /\ UNCHANGED <<flows, stopping, stats, publisher, live, made, uncounted>>
      /\ AllSettled(c)
  BY DEF RecreateNext, End, maps, runVars
<1>2. /\ \A d \in Commands \ {c} : op'[d] = op[d] /\ members'[d] = members[d]
      /\ \A d \in Commands \ {c}, g \in Flows :
           at'[d][g] = at[d][g] /\ hand'[d][g] = hand[d][g]
      /\ \A g \in Flows : at'[c][g] \in Settled \cup {"check"}
      /\ op'[c] \in {"idle", "recreate"}
      /\ op'[c] = "idle" => \A g \in Flows : at'[c][g] = "none"
      /\ op'[c] = "recreate" => op[c] \in {"replace", "recreate"}
  <2>1. CASE RecreateNext(c)
    <3>1. PICK f \in members[c] :
            members' = [members EXCEPT ![c] = @ \ {f}] /\ To(c, f, "check")
      BY <2>1 DEF RecreateNext
    <3>2. f \in Flows
      BY <1>0 DEF TypeOK
    <3>3. \A d \in Commands, g \in Flows :
            at'[d][g] = IF d = c /\ g = f THEN "check" ELSE at[d][g]
      BY <1>0, <3>1, <3>2, ToValue
    <3>4. op' = [op EXCEPT ![c] = "recreate"] /\ hand' = hand
          /\ op[c] \in {"replace", "recreate"}
      BY <2>1 DEF RecreateNext
    <3> QED BY <1>0, <1>1, <3>1, <3>3, <3>4 DEF TypeOK, AllSettled
  <2>2. CASE End(c)
    BY <1>0, <2>2 DEF End, TypeOK, Stage, Settled
  <2> QED BY <2>1, <2>2
<1>3. TypeOK'
  BY <1>0, EndType
<1>4. TouchInv'
  <2>1. \A d \in Commands :
          Busy(d)' => Busy(d) /\ Touches(op'[d], members'[d]) = Touches(op[d], members[d])
    BY <1>2 DEF Busy, Touches
  <2>2. \A d \in Commands, g \in Flows :
          at'[d][g] # "none" => Busy(d)' /\ g \in Touches(op'[d], members'[d])
    BY <1>0, <1>2 DEF TouchInv, Busy, Touches
  <2>3. \A d, e \in Commands, g \in Flows :
          /\ Busy(d)' /\ g \in Touches(op'[d], members'[d])
          /\ Busy(e)' /\ g \in Touches(op'[e], members'[e])
          /\ g \notin overlapped'
          => d = e
    BY <1>0, <1>1, <2>1 DEF TouchInv
  <2> QED BY <2>2, <2>3 DEF TouchInv
<1>5. ASSUME NEW g \in Flows \ overlapped' PROVE FlowFine(g)'
  <2>1. FlowFine(g)
    BY <1>0, <1>1
  <2>2. ~InHand(c, g) /\ ~InHand(c, g)' /\ at'[c][g] # "start"
    BY <1>1, <1>2 DEF InHand, AllSettled, Settled
  <2>3. \A d \in Commands \ {c} : InHand(d, g)' <=> InHand(d, g)
    BY <1>2 DEF InHand
  <2>4. \A d \in Commands \ {c} : Held(d, g) => Held(d, g)'
    BY <1>1, <1>2 DEF Held
  <2>5. Resting(g) => Resting(g)'
    BY <1>1 DEF Resting
  <2>6. \A d \in Commands : InHand(d, g)' => Held(d, g)'
    BY <2>1, <2>2, <2>3, <2>4 DEF FlowFine
  <2>7. (\A d \in Commands : ~InHand(d, g)') => Resting(g)'
    BY <2>1, <2>2, <2>3, <2>5 DEF FlowFine
  <2>8. \A d \in Commands : at'[d][g] = "start" => flows'[g] = None
    BY <1>1, <1>2, <2>1, <2>2 DEF FlowFine
  <2> QED BY <2>6, <2>7, <2>8 DEF FlowFine
<1>6. GroupInv'
  BY <1>0, <1>1, <1>2 DEF GroupInv, TypeOK
<1> QED BY <1>3, <1>4, <1>5, <1>6 DEF SerialInv

LEMMA InitSerial == Init => SerialInv
<1> SUFFICES ASSUME Init PROVE SerialInv
  OBVIOUS
<1>1. /\ \A c \in Commands : op[c] = "idle" /\ \A f \in Flows : at[c][f] = "none"
      /\ \A f \in Flows : /\ live[f] = {flows[f]} \ {None}
                          /\ stats[f] = flows[f] /\ publisher[f] = flows[f]
      /\ stopping = {}
  BY DEF Init
<1>2. TouchInv
  BY <1>1 DEF TouchInv, Busy
<1>3. \A f \in Flows : FlowFine(f)
  BY <1>1 DEF FlowFine, InHand, Resting
<1>4. GroupInv
  BY <1>1 DEF GroupInv
<1> QED BY <1>2, <1>3, <1>4, InitType DEF SerialInv

LEMMA SerialNext == SerialInv /\ [Next]_vars => SerialInv'
<1> SUFFICES ASSUME SerialInv, [Next]_vars PROVE SerialInv'
  OBVIOUS
<1>1. CASE Next
  BY <1>1, WorkSerial, CommenceSerial, EndSerial DEF Next
<1>2. CASE UNCHANGED vars
  <2>1. UNCHANGED <<flows, stopping, stats, publisher, live, made, op, members,
                    issued, overlapped, at, hand, uncounted>>
    BY <1>2 DEF vars, maps, runVars, cmdVars
  <2>2. TypeOK'
    BY <2>1 DEF SerialInv, TypeOK
  <2>3. TouchInv'
    BY <2>1 DEF SerialInv, TouchInv, Busy, Touches
  <2>4. \A g \in Flows \ overlapped' : FlowFine(g)'
    BY <2>1, FineKept DEF SerialInv
  <2>5. GroupInv'
    BY <2>1 DEF SerialInv, GroupInv
  <2> QED BY <2>2, <2>3, <2>4, <2>5 DEF SerialInv
<1> QED BY <1>1, <1>2

LEMMA SerialAlways == Spec => []SerialInv
BY InitSerial, SerialNext, PTL DEF Spec

(* A flow whose commands came one at a time and that is in the registry    *)
(* has one live run, its own, with its own statistics and publishers:      *)
(* create_flow, destroy_flow, the unwinding of a failed start, the         *)
(* roll-back of a group and stop_all keep the maps keyed by flow in step.  *)
THEOREM FlowsMatchTheirRegistrations == Spec => []RegistrationsMatch
<1>1. SerialInv => RegistrationsMatch
  <2> SUFFICES ASSUME SerialInv, NEW f \in Flows \ overlapped, flows[f] # None
               PROVE  /\ live[f] = {flows[f]} /\ stats[f] = flows[f]
                      /\ publisher[f] = flows[f]
    BY DEF RegistrationsMatch
  <2>1. FlowFine(f)
    BY DEF SerialInv
  <2>2. \A c \in Commands : ~InHand(c, f)
    BY <2>1 DEF FlowFine, Held
  <2> QED BY <2>1, <2>2 DEF FlowFine, Resting
<1> QED BY <1>1, SerialAlways, PTL

(* A flow whose commands came one at a time, and that none of them works   *)
(* on now, has left nothing behind when it is not in the registry: no      *)
(* task, no publisher, no stopping mark, and no statistics but where stop  *)
(* was interrupted or was stop_all's.                                      *)
THEOREM NoFlowLeavesATrace == Spec => []NothingLeftBehind
<1>1. SerialInv => NothingLeftBehind
  <2> SUFFICES ASSUME SerialInv, NEW f \in Flows \ overlapped, flows[f] = None,
                      f \notin TouchedByOthers
               PROVE  /\ live[f] = {} /\ publisher[f] = None /\ f \notin stopping
                      /\ f \notin uncounted => stats[f] = None
    BY DEF NothingLeftBehind
  <2>1. FlowFine(f) /\ TouchInv
    BY DEF SerialInv
  <2>2. \A c \in Commands : ~(Busy(c) /\ f \in Touches(op[c], members[c]))
    BY DEF TouchedByOthers
  <2>3. \A c \in Commands : ~InHand(c, f)
    BY <2>1, <2>2 DEF TouchInv, InHand
  <2> QED BY <2>1, <2>3 DEF FlowFine, Resting
<1> QED BY <1>1, SerialAlways, PTL

(* start_flow_group ends with every member running, or with none of those  *)
(* it alone worked on: whatever order the members fail, start and are      *)
(* rolled back in.                                                         *)
THEOREM GroupsStartWholeOrNotAtAll == Spec => GroupAllOrNothing
<1>1. ASSUME SerialInv, [Next]_vars
      PROVE  \A c \in Commands :
               /\ op[c] = "group_start" /\ op'[c] = "idle"
               /\ \E f \in Flows : at[c][f] = "failed"
               => \A f \in members[c] \ overlapped : live[f] = {} /\ flows[f] = None
  <2> SUFFICES ASSUME NEW c \in Commands, op[c] = "group_start", op'[c] = "idle",
                      \E f \in Flows : at[c][f] = "failed",
                      NEW f \in members[c] \ overlapped
               PROVE  live[f] = {} /\ flows[f] = None
    OBVIOUS
  <2>0. TypeOK /\ TouchInv /\ FlowFine(f) /\ GroupInv /\ f \in Flows
    BY <1>1 DEF SerialInv, TypeOK
  <2>1. End(c)
    <3>1. Next
      BY <1>1 DEF vars, cmdVars
    <3>2. PICK d \in Commands : \/ Commence(d) \/ RecreateNext(d) \/ End(d)
                               \/ \E g \in Flows : Work(d, g)
      BY <3>1 DEF Next
    <3>3. ~\E g \in Flows : Work(d, g)
      BY <2>0, WorkLocal
    <3>4. ~RecreateNext(d)
      BY <2>0 DEF RecreateNext, TypeOK
    <3>5. ASSUME NEW o, NEW ms, NEW stages, Begin(d, o, ms, stages)
          PROVE  FALSE
      BY <2>0, <3>5 DEF Begin, Busy, TypeOK
    <3>6. ~Commence(d)
      BY <3>5 DEF Commence, BeginCreate, BeginDestroy, BeginRestart, BeginGroupStart,
                  BeginGroupStop, BeginReplace
    <3>7. End(d)
      BY <3>2, <3>3, <3>4, <3>6
    <3> QED BY <2>0, <3>7 DEF End, TypeOK
  <2>2. at[c][f] \in Settled \ {"ok", "none"}
    BY <2>0, <2>1 DEF End, RollsBack, AllSettled, GroupInv
  <2>3. flows[f] = None
    BY <2>0, <2>2 DEF GroupInv, Settled
  <2>4. Busy(c) /\ f \in Touches(op[c], members[c])
    BY DEF Busy, Touches
  <2>5. \A d \in Commands : ~InHand(d, f)
    <3> SUFFICES ASSUME NEW d \in Commands, InHand(d, f) PROVE FALSE
      OBVIOUS
    <3>1. d = c
      BY <2>0, <2>4 DEF InHand, TouchInv
    <3> QED BY <2>2, <3>1 DEF InHand, Settled
  <2> QED BY <2>0, <2>3, <2>5 DEF FlowFine, Resting
<1> QED BY <1>1, SerialAlways, PTL DEF Spec, GroupAllOrNothing
===============================================================================
