--------------------------- MODULE UpgradeProofs ---------------------------
(***************************************************************************)
(* `current` never dangles, every variable keeps its type and no release   *)
(* is replayed: proved for any number of releases, any retention of        *)
(* version directories, and every fault the model knows but those the      *)
(* replay guard cannot survive.  In a run without those misfortunes, but   *)
(* with crashes between any two steps and releases that die, a version     *)
(* that never reached the manager is under the watchdog and the version it *)
(* would be rolled back to is kept, as long as few releases fail.          *)
(***************************************************************************)
EXTENDS Upgrade, FiniteSetTheorems, TLAPS

StageIsRecord == stage = [pc |-> stage.pc, target |-> stage.target, prev |-> stage.prev]

(* The staging task runs only in a live process, its target's directory is  *)
(* there when the symlink is swapped to it, and `current` is its target     *)
(* when gc_versions sweeps.                                                 *)
StageInv ==
    /\ StageIsRecord
    /\ stage.pc # "idle" => phase = "up"
    /\ stage.pc = "installed" => stage.target \in dirs
    /\ stage.pc = "swapped" => current = stage.target

TreeInv == BootTargetExists /\ StageInv

(* The first install, before any upgrade, satisfies the invariant. *)
LEMMA TreeInit == Init => TreeInv
  BY DEF Init, TreeInv, BootTargetExists, StageInv, StageIsRecord, NoStage

(* A step that leaves the tree and the staging task alone keeps the         *)
(* invariant, if the process stays up (beats, promotions, time).            *)
LEMMA TreeUntouched ==
  ASSUME TreeInv, UNCHANGED <<current, dirs, stage>>, phase' = phase \/ stage.pc = "idle"
  PROVE  TreeInv'
  BY DEF TreeInv, BootTargetExists, StageInv, StageIsRecord

(* So does a step that ends the process, whatever the staging had reached.  *)
LEMMA TreeProcessGone ==
  ASSUME TreeInv, ProcessGone, UNCHANGED <<current, dirs>>
  PROVE  TreeInv'
  BY DEF TreeInv, BootTargetExists, StageInv, StageIsRecord, ProcessGone, NoStage

(* Staging: the directory removed before unpacking is not the live one, and *)
(* the sweep keeps the live one.                                            *)
LEMMA TreeStaging ==
  ASSUME TreeInv,
         (\E v \in Versions : StageRequest(v)) \/ StageSteps \/ StageAbort \/ StageWriteFails
  PROVE  TreeInv'
<1> USE DEF TreeInv, BootTargetExists, StageInv, StageIsRecord
<1>1. CASE \E v \in Versions : StageRequest(v)
  BY <1>1 DEF StageRequest, treeVars
<1>2. CASE StageExtract
  BY <1>2 DEF StageExtract
<1>3. CASE StageInstall
  BY <1>3 DEF StageInstall
<1>4. CASE StageSwap
  BY <1>4 DEF StageSwap
<1>5. CASE StageGc
  BY <1>5 DEF StageGc, GcVersions
<1>6. CASE StageSave
  BY <1>6 DEF StageSave, treeVars, NoStage
<1>7. CASE StageAbort
  BY <1>7 DEF StageAbort, treeVars, NoStage
<1>8. CASE StageWriteFails
  BY <1>8 DEF StageWriteFails, treeVars, NoStage
<1> QED
  BY <1>1, <1>2, <1>3, <1>4, <1>5, <1>6, <1>7, <1>8 DEF StageSteps

(* Booting: no staging task runs yet, and a rollback swaps the symlink only *)
(* to a directory it has found.                                             *)
LEMMA TreeBoot ==
  ASSUME TreeInv, BootSteps \/ BootTornBump \/ BootSaveFails \/ RevertFails \/ RollbackSaveFails
  PROVE  TreeInv'
<1>1. CASE BootNormal \/ BootAfterRollback \/ BootPending
  BY <1>1, TreeUntouched
     DEF BootNormal, BootAfterRollback, BootPending, BootInto, treeVars, taskVars,
         TreeInv, StageInv
<1>2. CASE BootExhausted
  BY <1>2, TreeUntouched DEF BootExhausted, treeVars, taskVars, TreeInv, StageInv
<1>3. CASE RevertToPrevious
  BY <1>3 DEF RevertToPrevious, taskVars, TreeInv, StageInv, StageIsRecord, BootTargetExists
<1>4. CASE SaveRolledBack
  BY <1>4, TreeProcessGone DEF SaveRolledBack, treeVars
<1>5. CASE BootTornBump
  BY <1>5, TreeUntouched DEF BootTornBump, treeVars, taskVars, TreeInv, StageInv
<1>6. CASE BootSaveFails
  BY <1>6, TreeUntouched DEF BootSaveFails, treeVars, taskVars, TreeInv, StageInv
<1>7. CASE RollbackSaveFails
  BY <1>7, TreeProcessGone DEF RollbackSaveFails, treeVars
<1>8. CASE RevertFails
  BY <1>8, TreeUntouched DEF RevertFails, treeVars, taskVars, TreeInv, StageInv
<1> QED
  BY <1>1, <1>2, <1>3, <1>4, <1>5, <1>6, <1>7, <1>8 DEF BootSteps

(* Every step of the system keeps the invariant. *)
LEMMA TreeStep ==
  ASSUME TreeInv, [Next]_vars
  PROVE  TreeInv'
<1>1. CASE (\E v \in Versions : StageRequest(v)) \/ StageSteps \/ StageAbort \/ StageWriteFails
  BY <1>1, TreeStaging
<1>2. CASE ExitForRespawn \/ Crash \/ BadDies
  BY <1>2, TreeProcessGone DEF ExitForRespawn, Crash, BadDies, treeVars
<1>3. CASE BootSteps \/ BootTornBump \/ BootSaveFails \/ RevertFails \/ RollbackSaveFails
  BY <1>3, TreeBoot
<1>4. CASE Auth \/ BeatSave
  BY <1>4, TreeUntouched DEF Auth, BeatSave, treeVars
<1>5. CASE FinalizeCheck \/ PromoteLoad \/ PromoteSave \/ UpdateFails
  BY <1>5, TreeUntouched DEF FinalizeCheck, PromoteLoad, PromoteSave, UpdateFails, treeVars
<1>6. CASE Tick
  BY <1>6, TreeUntouched DEF Tick, treeVars, processVars, taskVars
<1>7. CASE UNCHANGED vars
  BY <1>7, TreeUntouched DEF vars, treeVars, processVars, taskVars
<1> QED
  BY <1>1, <1>2, <1>3, <1>4, <1>5, <1>6, <1>7 DEF Next

(* `current` always points at a complete version directory: staging,        *)
(* gc_versions and the rollback never leave it dangling, whenever the       *)
(* process is killed.                                                       *)
THEOREM CurrentNeverDangles == Spec => []BootTargetExists
<1>1. TreeInv => BootTargetExists
  BY DEF TreeInv
<1> QED
  BY <1>1, TreeInit, TreeStep, PTL DEF Spec

----------------------------------------------------------------------------
(* Types *)

(* Tasks run in a process that is up; a staging has its two versions; and   *)
(* the count a rollback takes back was raised before.                       *)
TaskInv ==
    /\ phase # "up" => stage.pc = "idle" /\ beat.pc = "idle" /\ fin.pc = "idle"
    /\ phase = "up" => running \in Versions
    /\ stage.pc # "idle" => stage.target \in Versions /\ stage.prev \in Versions
    /\ phase \in {"exhausted", "reverted", "revert_failed"} => file.attempts >= 1

TypeInv == TypeOK /\ TaskInv

(* The records without a file, a staging or a rewrite.                      *)
LEMMA BlankTypes ==
  /\ NoFile \in InstallState
  /\ NoStage \in [pc : {"idle", "fetching", "partial", "installed", "swapped", "save"},
                  target : Versions \cup {None}, prev : Versions \cup {None}]
  /\ NoRmw \in [pc : {"idle", "loaded"}, snap : InstallState]
  /\ NoRmw \in [pc : {"idle", "due", "loaded"}, snap : InstallState]
<1>1. NoFile \in InstallState
  BY UpgradeAssumption DEF NoFile, InstallState, Versions, Statuses, Never
<1> QED BY <1>1 DEF NoStage, NoRmw

(* What the code writes to state.json is a record of its type.              *)
LEMMA RecordTypes ==
  ASSUME NEW f \in InstallState
  PROVE  /\ [f EXCEPT !.status = "stable"] \in InstallState
         /\ [f EXCEPT !.status = "stable", !.attempts = 0] \in InstallState
         /\ Bumped(f) \in InstallState /\ Bumped(f).attempts >= 1
         /\ Beaten(f) \in InstallState
         /\ Older(f) \in InstallState /\ Older(f).attempts = f.attempts
         /\ \A r \in BOOLEAN : f.attempts >= 1 => RolledBack(f, r) \in InstallState
<1>0. /\ f.current \in Versions /\ f.previous \in Versions
      /\ f.status \in Statuses \cup {"unreadable"}
      /\ f.attempts \in 0 .. MaxBootAttempts + 1 /\ f.sequence \in Versions
      /\ f.staged_age \in 0 .. HealthWindow /\ f.health_age \in Never .. FreshFor + 1
      /\ f = [current |-> f.current, previous |-> f.previous, status |-> f.status,
              attempts |-> f.attempts, sequence |-> f.sequence,
              staged_age |-> f.staged_age, health_age |-> f.health_age]
  BY DEF InstallState
<1>1. [f EXCEPT !.status = "stable"] \in InstallState
  BY <1>0 DEF InstallState, Statuses
<1>2. [f EXCEPT !.status = "stable", !.attempts = 0] \in InstallState
  <2>1. 0 \in 0 .. MaxBootAttempts + 1
    BY UpgradeAssumption
  <2> QED BY <1>0, <2>1 DEF InstallState, Statuses
<1>3. Bumped(f) \in InstallState /\ Bumped(f).attempts >= 1
  BY <1>0, UpgradeAssumption DEF Bumped, Lesser, InstallState
<1>4. Beaten(f) \in InstallState
  BY <1>0, UpgradeAssumption DEF Beaten, Never, InstallState
<1>5. Older(f) \in InstallState /\ Older(f).attempts = f.attempts
  <2>1. Lesser(f.staged_age + 1, HealthWindow) \in 0 .. HealthWindow
    BY <1>0, UpgradeAssumption DEF Lesser
  <2>2. (IF f.health_age = Never THEN Never ELSE Lesser(f.health_age + 1, FreshFor + 1))
           \in Never .. FreshFor + 1
    BY <1>0, UpgradeAssumption DEF Lesser, Never
  <2> QED BY <1>0, <2>1, <2>2 DEF Older, InstallState
<1>6. ASSUME NEW r \in BOOLEAN, f.attempts >= 1
      PROVE  RolledBack(f, r) \in InstallState
  <2>1. f.attempts - 1 \in 0 .. MaxBootAttempts + 1
    BY <1>0, <1>6, UpgradeAssumption
  <2>2. CASE r
    BY <1>0, <2>1, <2>2 DEF RolledBack, InstallState, Statuses
  <2>3. CASE ~ r
    BY <1>0, <2>1, <2>3 DEF RolledBack, InstallState, Statuses
  <2> QED BY <2>2, <2>3
<1> QED BY <1>1, <1>2, <1>3, <1>4, <1>5, <1>6

LEMMA StampType ==
  ASSUME TypeOK, NEW v \in Versions
  PROVE  Stamp(v) \in [Versions -> Nat]
<1>1. IsFiniteSet(Versions)
  BY UpgradeAssumption, FS_Interval DEF Versions
<1>2. \A S \in SUBSET Versions : Cardinality(S) \in Nat
  BY <1>1, FS_Subset, FS_CardinalityType
<1>3. Cardinality(dirs \ {v}) \in Nat
  BY <1>2 DEF TypeOK
<1>4. \A w : Cardinality({x \in dirs \ {v} : mtime[x] <= mtime[w]}) \in Nat
  BY <1>2 DEF TypeOK
<1> QED BY <1>3, <1>4 DEF Stamp

(* A staging that goes on to another step, or ends.                         *)
LEMMA StageTypes ==
  ASSUME TypeInv
  PROVE  /\ \A p \in {"partial", "installed", "swapped", "save"} :
              /\ [stage EXCEPT !.pc = p] \in
                    [pc : {"idle", "fetching", "partial", "installed", "swapped", "save"},
                     target : Versions \cup {None}, prev : Versions \cup {None}]
              /\ [stage EXCEPT !.pc = p].target = stage.target
              /\ [stage EXCEPT !.pc = p].prev = stage.prev
              /\ [stage EXCEPT !.pc = p].pc = p
         /\ NoStage.pc = "idle" /\ NoRmw.pc = "idle"
BY DEF TypeInv, TypeOK, NoStage, NoRmw

LEMMA TypeStaging ==
  ASSUME TypeInv,
         (\E v \in Versions : StageRequest(v)) \/ StageSteps \/ StageAbort \/ StageWriteFails
  PROVE  TypeInv'
<1>0. TypeOK /\ TaskInv
  BY DEF TypeInv
<1>1. CASE \E v \in Versions : StageRequest(v)
  <2>1. PICK v \in Versions : StageRequest(v)
    BY <1>1
  <2>2. (IF Readable(file) THEN file.current ELSE running) \in Versions
    BY <1>0, <2>1 DEF StageRequest, TypeOK, TaskInv, InstallState
  <2>3. /\ stage' \in [pc : {"idle", "fetching", "partial", "installed", "swapped", "save"},
                       target : Versions \cup {None}, prev : Versions \cup {None}]
        /\ stage'.target \in Versions /\ stage'.prev \in Versions
    BY <2>1, <2>2 DEF StageRequest
  <2> QED BY <1>0, <2>1, <2>3 DEF StageRequest, TypeInv, TypeOK, TaskInv, treeVars, envVars
<1>2. CASE StageExtract
  <2>1. stage.target \in Versions /\ stage.prev \in Versions /\ phase = "up"
    BY <1>0, <1>2 DEF StageExtract, TaskInv
  <2> QED BY <1>0, <1>2, <2>1, StageTypes DEF StageExtract, TypeInv, TypeOK, TaskInv, envVars
<1>3. CASE StageInstall
  <2>1. stage.target \in Versions /\ stage.prev \in Versions /\ phase = "up"
    BY <1>0, <1>3 DEF StageInstall, TaskInv
  <2>2. mtime' \in [Versions -> Nat]
    BY <1>0, <1>3, <2>1, StampType DEF StageInstall
  <2> QED BY <1>0, <1>3, <2>1, <2>2, StageTypes DEF StageInstall, TypeInv, TypeOK, TaskInv, envVars
<1>4. CASE StageSwap
  <2>1. stage.target \in Versions /\ stage.prev \in Versions /\ phase = "up"
    BY <1>0, <1>4 DEF StageSwap, TaskInv
  <2> QED BY <1>0, <1>4, <2>1, StageTypes DEF StageSwap, TypeInv, TypeOK, TaskInv, envVars
<1>5. CASE StageGc
  <2>1. stage.target \in Versions /\ stage.prev \in Versions /\ phase = "up"
    BY <1>0, <1>5 DEF StageGc, TaskInv
  <2>2. dirs' \subseteq Versions /\ partials' \subseteq Versions
    BY <1>0, <1>5 DEF StageGc, GcVersions, Newest, TypeOK
  <2> QED BY <1>0, <1>5, <2>1, <2>2, StageTypes DEF StageGc, TypeInv, TypeOK, TaskInv, envVars
<1>6. CASE StageSave
  <2>1. stage.target \in Versions /\ stage.prev \in Versions /\ phase = "up"
    BY <1>0, <1>6 DEF StageSave, TaskInv
  <2>2. file' \in InstallState
    BY <1>6, <2>1, UpgradeAssumption
       DEF StageSave, Staged, Sequence, InstallState, Statuses, Never
  <2>3. high' \in Versions \cup {None}
    BY <1>0, <1>6, <2>1 DEF StageSave, Sequence, TypeOK
  <2> QED BY <1>0, <1>6, <2>1, <2>2, <2>3, StageTypes, BlankTypes
          DEF StageSave, TypeInv, TypeOK, TaskInv, treeVars
<1>7. CASE StageAbort
  BY <1>0, <1>7, StageTypes, BlankTypes
     DEF StageAbort, TypeInv, TypeOK, TaskInv, treeVars, envVars
<1>8. CASE StageWriteFails
  <2>1. mishaps' \in 0 .. MaxMishaps
    BY <1>0, <1>8, UpgradeAssumption DEF StageWriteFails, WriteFails, Mishap, TypeOK
  <2> QED BY <1>0, <1>8, <2>1, StageTypes, BlankTypes
          DEF StageWriteFails, WriteFails, TypeInv, TypeOK, TaskInv, treeVars
<1> QED
  BY <1>1, <1>2, <1>3, <1>4, <1>5, <1>6, <1>7, <1>8 DEF StageSteps

LEMMA MishapType ==
  ASSUME TypeOK, Mishap
  PROVE  mishaps' \in 0 .. MaxMishaps
BY UpgradeAssumption DEF Mishap, TypeOK

(* The process is gone, and whatever it leaves on disk has its type.        *)
LEMMA TypeProcessGone ==
  ASSUME TypeInv, ProcessGone, UNCHANGED treeVars, file' \in InstallState,
         UNCHANGED <<faults, proven, high>>, mishaps' \in 0 .. MaxMishaps
  PROVE  TypeInv'
BY StageTypes, BlankTypes DEF ProcessGone, TypeInv, TypeOK, TaskInv, treeVars

LEMMA TypeBoot ==
  ASSUME TypeInv, BootSteps \/ BootTornBump \/ BootSaveFails \/ RevertFails \/ RollbackSaveFails
  PROVE  TypeInv'
<1>0. TypeOK /\ TaskInv /\ file \in InstallState /\ current \in Versions
  BY DEF TypeInv, TypeOK
<1>1. CASE BootNormal \/ BootAfterRollback \/ BootPending
  <2>1. /\ phase' = "up" /\ running' = current /\ UNCHANGED <<treeVars, taskVars, envVars>>
        /\ phase = "down"
    BY <1>1 DEF BootNormal, BootAfterRollback, BootPending, BootInto
  <2>2. file' \in InstallState
    BY <1>0, <1>1, RecordTypes DEF BootNormal, BootAfterRollback, BootPending, BootInto
  <2> QED BY <1>0, <2>1, <2>2 DEF TypeInv, TypeOK, TaskInv, treeVars, taskVars, envVars
<1>2. CASE BootExhausted
  <2>1. file' \in InstallState /\ file'.attempts >= 1
    BY <1>0, <1>2, RecordTypes DEF BootExhausted
  <2> QED BY <1>0, <1>2, <2>1
          DEF BootExhausted, TypeInv, TypeOK, TaskInv, treeVars, taskVars, envVars
<1>3. CASE RevertToPrevious
  <2>1. file.previous \in Versions
    BY <1>0 DEF InstallState
  <2> QED BY <1>0, <1>3, <2>1
          DEF RevertToPrevious, TypeInv, TypeOK, TaskInv, taskVars, envVars
<1>4. CASE SaveRolledBack
  <2>1. file.attempts >= 1 /\ (phase = "reverted") \in BOOLEAN
    BY <1>0, <1>4 DEF SaveRolledBack, TaskInv
  <2>2. file' \in InstallState
    BY <1>0, <1>4, <2>1, RecordTypes DEF SaveRolledBack
  <2> QED BY <1>0, <1>4, <2>2, TypeProcessGone DEF SaveRolledBack, envVars, TypeOK
<1>5. CASE BootTornBump
  BY <1>0, <1>5, BlankTypes, MishapType
     DEF BootTornBump, TypeInv, TypeOK, TaskInv, treeVars, taskVars
<1>6. CASE BootSaveFails
  <2>1. mishaps' \in 0 .. MaxMishaps
    BY <1>0, <1>6, MishapType DEF BootSaveFails, WriteFails
  <2> QED BY <1>0, <1>6, <2>1
          DEF BootSaveFails, WriteFails, TypeInv, TypeOK, TaskInv, treeVars, taskVars
<1>7. CASE RollbackSaveFails
  BY <1>0, <1>7, MishapType, TypeProcessGone DEF RollbackSaveFails, WriteFails
<1>8. CASE RevertFails
  <2>1. mishaps' \in 0 .. MaxMishaps
    BY <1>0, <1>8, MishapType DEF RevertFails, WriteFails
  <2> QED BY <1>0, <1>8, <2>1
          DEF RevertFails, WriteFails, TypeInv, TypeOK, TaskInv, treeVars, taskVars
<1> QED
  BY <1>1, <1>2, <1>3, <1>4, <1>5, <1>6, <1>7, <1>8 DEF BootSteps

LEMMA TypeHealth ==
  ASSUME TypeInv,
         Auth \/ BeatSave \/ FinalizeCheck \/ PromoteLoad \/ PromoteSave \/ UpdateFails \/ Tick
  PROVE  TypeInv'
<1>0. /\ TypeOK /\ TaskInv /\ file \in InstallState
      /\ beat.snap \in InstallState /\ fin.snap \in InstallState
  BY DEF TypeInv, TypeOK
<1>1. CASE Auth
  <2>1. beat' \in [pc : {"idle", "loaded"}, snap : InstallState]
    BY <1>0, <1>1, BlankTypes DEF Auth
  <2> QED BY <1>0, <1>1, <2>1 DEF Auth, TypeInv, TypeOK, TaskInv, treeVars
<1>2. CASE BeatSave
  <2>1. file' \in InstallState /\ phase = "up"
    BY <1>0, <1>2, RecordTypes DEF BeatSave, TaskInv
  <2> QED BY <1>0, <1>2, <2>1, BlankTypes, StageTypes
          DEF BeatSave, TypeInv, TypeOK, TaskInv, treeVars, envVars
<1>3. CASE FinalizeCheck
  <2>1. fin' \in [pc : {"idle", "due", "loaded"}, snap : InstallState]
    BY <1>0, <1>3, BlankTypes DEF FinalizeCheck, NoRmw
  <2> QED BY <1>0, <1>3, <2>1 DEF FinalizeCheck, TypeInv, TypeOK, TaskInv, treeVars, envVars
<1>4. CASE PromoteLoad
  <2>1. fin' \in [pc : {"idle", "due", "loaded"}, snap : InstallState] /\ phase = "up"
    BY <1>0, <1>4 DEF PromoteLoad, TaskInv
  <2> QED BY <1>0, <1>4, <2>1 DEF PromoteLoad, TypeInv, TypeOK, TaskInv, treeVars, envVars
<1>5. CASE PromoteSave
  <2>1. file' \in InstallState /\ phase = "up"
    BY <1>0, <1>5, RecordTypes DEF PromoteSave, TaskInv
  <2> QED BY <1>0, <1>5, <2>1, BlankTypes, StageTypes
          DEF PromoteSave, TypeInv, TypeOK, TaskInv, treeVars, envVars
<1>6. CASE UpdateFails
  <2>1. mishaps' \in 0 .. MaxMishaps
    BY <1>0, <1>6, MishapType DEF UpdateFails, WriteFails
  <2> QED BY <1>0, <1>6, <2>1, BlankTypes, StageTypes
          DEF UpdateFails, WriteFails, TypeInv, TypeOK, TaskInv, treeVars
<1>7. CASE Tick
  <2>1. file' \in InstallState /\ file'.attempts = file.attempts
    BY <1>0, <1>7, RecordTypes DEF Tick
  <2> QED BY <1>0, <1>7, <2>1
          DEF Tick, TypeInv, TypeOK, TaskInv, treeVars, processVars, taskVars, envVars
<1> QED
  BY <1>1, <1>2, <1>3, <1>4, <1>5, <1>6, <1>7

(* The first install, before any upgrade, satisfies the invariant. *)
LEMMA TypeInit == Init => TypeInv
<1> SUFFICES ASSUME Init PROVE TypeInv
  OBVIOUS
<1>1. 1 \in Versions /\ 0 \in 0 .. MaxMishaps
  BY UpgradeAssumption DEF Versions
<1>2. mtime \in [Versions -> Nat]
  BY DEF Init
<1>3. faults \subseteq AllFaults
  BY UpgradeAssumption DEF Init
<1> QED BY <1>1, <1>2, <1>3, BlankTypes
        DEF Init, TypeInv, TypeOK, TaskInv, NoStage, NoRmw

LEMMA TypeStep ==
  ASSUME TypeInv, [Next]_vars
  PROVE  TypeInv'
<1>0. TypeOK /\ TaskInv
  BY DEF TypeInv
<1>1. CASE ExitForRespawn \/ BadDies
  BY <1>0, <1>1, TypeProcessGone DEF ExitForRespawn, BadDies, envVars, TypeOK
<1>2. CASE Crash
  BY <1>0, <1>2, TypeProcessGone, MishapType DEF Crash, TypeOK
<1>3. CASE UNCHANGED vars
  BY <1>0, <1>3 DEF TypeInv, TypeOK, TaskInv, vars, treeVars, processVars, taskVars, envVars
<1> QED BY <1>1, <1>2, <1>3, TypeStaging, TypeBoot, TypeHealth DEF Next

(* Every variable has its type, state.json among them: a rollback takes     *)
(* back only a boot attempt that was counted, and a staging in progress has *)
(* the version it replaces.                                                 *)
THEOREM UpgradeTypeCorrect == Spec => []TypeOK
<1>1. TypeInv => TypeOK
  BY DEF TypeInv
<1> QED BY <1>1, TypeInit, TypeStep, PTL DEF Spec

----------------------------------------------------------------------------
(* The replay guard *)

(* A copy of state.json that carries the highest sequence recorded.         *)
Carries(f) == Readable(f) /\ f.sequence = high

(* As long as no fault tears state.json or lets a task save a stale copy of *)
(* it: the file carries the highest sequence from the first staging on, so  *)
(* do the copies a beat or a promotion is about to write back, a rollback   *)
(* finds such a file, and what is being staged is above it.                 *)
GuardInv ==
    faults \cap {"torn_bump", "race"} = {} =>
        /\ high = None \/ Carries(file)
        /\ Readable(file) => Carries(file)
        /\ beat.pc = "loaded" => Carries(file) /\ Carries(beat.snap)
        /\ fin.pc # "idle" => Carries(file)
        /\ fin.pc = "loaded" => Carries(fin.snap)
        /\ phase \in {"exhausted", "reverted", "revert_failed"} => Carries(file)
        /\ stage.pc # "idle" => Sequence(stage.target) > high

(* What is rewritten of state.json, other than by a staging, keeps its      *)
(* sequence, and leaves a readable file readable.                           *)
LEMMA RewritesCarry ==
  ASSUME NEW f \in InstallState, NEW r \in BOOLEAN
  PROVE  /\ Bumped(f).sequence = f.sequence /\ Bumped(f).status = f.status
         /\ Beaten(f).sequence = f.sequence /\ Beaten(f).status = f.status
         /\ Older(f).sequence = f.sequence /\ Older(f).status = f.status
         /\ RolledBack(f, r).sequence = f.sequence /\ RolledBack(f, r).status = "rolled_back"
         /\ [f EXCEPT !.status = "stable"].sequence = f.sequence
         /\ [f EXCEPT !.status = "stable"].status = "stable"
         /\ [f EXCEPT !.status = "stable", !.attempts = 0].sequence = f.sequence
         /\ [f EXCEPT !.status = "stable", !.attempts = 0].status = "stable"
BY DEF InstallState, Bumped, Beaten, Older, RolledBack

(* A step that ends the process or starts it, and leaves the record's       *)
(* sequence alone: nothing is staged, nothing is about to be saved.         *)
LEMMA GuardTasksIdle ==
  ASSUME GuardInv, UNCHANGED <<faults, high>>,
         stage'.pc = "idle", beat'.pc = "idle", fin'.pc = "idle",
         file'.sequence = file.sequence, Readable(file) <=> Readable(file)',
         phase' \in {"exhausted", "reverted", "revert_failed"} => Readable(file)
  PROVE  GuardInv'
BY DEF GuardInv, Carries, Readable

LEMMA GuardStaging ==
  ASSUME TypeInv, GuardInv,
         (\E v \in Versions : StageRequest(v)) \/ StageSteps \/ StageAbort \/ StageWriteFails
  PROVE  GuardInv'
<1>0. TypeOK /\ TaskInv /\ high \in Nat
  BY UpgradeAssumption DEF TypeInv, TypeOK, Versions, None
<1>1. CASE \E v \in Versions : StageRequest(v)
  <2>1. PICK v \in Versions : StageRequest(v)
    BY <1>1
  <2>2. /\ UNCHANGED <<file, phase, beat, fin, faults, high>> /\ stage'.target = v
        /\ Readable(file) => Sequence(v) > file.sequence
    BY <2>1 DEF StageRequest, envVars
  <2>3. faults \cap {"torn_bump", "race"} = {} => Sequence(v) > high
    BY <1>0, <2>2 DEF GuardInv, Carries, Versions, None, Sequence
  <2> QED BY <2>2, <2>3 DEF GuardInv, Carries, Readable
<1>2. CASE StageExtract \/ StageInstall \/ StageSwap \/ StageGc
  <2>1. /\ UNCHANGED <<file, phase, beat, fin, faults, high>>
        /\ stage.pc # "idle" /\ stage'.target = stage.target
    BY <1>0, <1>2, StageTypes DEF StageExtract, StageInstall, StageSwap, StageGc, envVars
  <2> QED BY <2>1 DEF GuardInv, Carries, Readable
<1>3. CASE StageSave
  <2> SUFFICES ASSUME faults \cap {"torn_bump", "race"} = {}
               PROVE  GuardInv'
    BY <1>3 DEF StageSave, GuardInv
  <2>1. /\ beat'.pc = "idle" /\ fin'.pc = "idle" /\ stage'.pc = "idle" /\ phase' = "up"
        /\ faults' = faults
    BY <1>0, <1>3, StageTypes DEF StageSave, NobodySaving, TaskInv
  <2>2. Sequence(stage.target) > high
    BY <1>3 DEF StageSave, GuardInv
  <2>3. high' = Sequence(stage.target) /\ file'.sequence = Sequence(stage.target) /\ Readable(file)'
    BY <1>3, <2>2 DEF StageSave, Staged, Readable, Statuses
  <2> QED BY <2>1, <2>3 DEF GuardInv, Carries
<1>4. CASE StageAbort \/ StageWriteFails
  <2>1. UNCHANGED <<file, phase, beat, fin, faults, high>> /\ stage'.pc = "idle"
    BY <1>4, StageTypes DEF StageAbort, StageWriteFails, WriteFails, envVars
  <2> QED BY <2>1 DEF GuardInv, Carries, Readable
<1> QED BY <1>1, <1>2, <1>3, <1>4 DEF StageSteps

LEMMA GuardBoot ==
  ASSUME TypeInv, GuardInv,
         BootSteps \/ BootTornBump \/ BootSaveFails \/ RevertFails \/ RollbackSaveFails
  PROVE  GuardInv'
<1>0. TypeOK /\ TaskInv /\ file \in InstallState
  BY DEF TypeInv, TypeOK
<1>1. CASE BootNormal \/ BootAfterRollback \/ BootPending \/ BootExhausted
  <2>1. /\ UNCHANGED <<taskVars, faults, high>> /\ phase = "down"
        /\ phase' = "exhausted" => Readable(file)
        /\ phase' \in {"up", "exhausted"}
    BY <1>1 DEF BootNormal, BootAfterRollback, BootPending, BootExhausted, BootInto, envVars,
                Readable, Pending, Statuses
  <2>2. file'.sequence = file.sequence /\ (Readable(file) <=> Readable(file)')
    <3>1. /\ Bumped(file).sequence = file.sequence /\ Bumped(file).status = file.status
          /\ [file EXCEPT !.status = "stable", !.attempts = 0].sequence = file.sequence
          /\ [file EXCEPT !.status = "stable", !.attempts = 0].status = "stable"
      BY <1>0, TRUE \in BOOLEAN, RewritesCarry
    <3> QED BY <1>1, <3>1 DEF BootNormal, BootAfterRollback, BootPending, BootExhausted,
                              BootInto, Readable, Statuses
  <2>3. stage'.pc = "idle" /\ beat'.pc = "idle" /\ fin'.pc = "idle"
    BY <1>0, <2>1 DEF TaskInv, taskVars
  <2> QED BY <2>1, <2>2, <2>3, GuardTasksIdle
<1>2. CASE RevertToPrevious
  <2>1. /\ UNCHANGED <<file, taskVars, faults, high>> /\ phase = "exhausted"
    BY <1>2 DEF RevertToPrevious, envVars
  <2> QED BY <2>1 DEF GuardInv, Carries, Readable, taskVars
<1>3. CASE SaveRolledBack
  <2>1. /\ UNCHANGED <<faults, high>> /\ phase \in {"reverted", "revert_failed"}
        /\ phase' = "down" /\ stage'.pc = "idle" /\ beat'.pc = "idle" /\ fin'.pc = "idle"
    BY <1>3, StageTypes DEF SaveRolledBack, ProcessGone, envVars
  <2>2. file'.sequence = file.sequence /\ Readable(file)'
    BY <1>0, <1>3, RewritesCarry DEF SaveRolledBack, Readable, Statuses
  <2> QED BY <2>1, <2>2 DEF GuardInv, Carries
<1>4. CASE BootTornBump
  BY <1>4 DEF BootTornBump, GuardInv
<1>5. CASE BootSaveFails
  <2>1. UNCHANGED <<file, taskVars, faults, high>> /\ phase' = "up"
    BY <1>5 DEF BootSaveFails, WriteFails
  <2> QED BY <2>1 DEF GuardInv, Carries, Readable, taskVars
<1>6. CASE RollbackSaveFails
  <2>1. /\ UNCHANGED <<file, faults, high>> /\ phase' = "down"
        /\ stage'.pc = "idle" /\ beat'.pc = "idle" /\ fin'.pc = "idle"
    BY <1>6, StageTypes DEF RollbackSaveFails, WriteFails, ProcessGone
  <2> QED BY <2>1 DEF GuardInv, Carries, Readable
<1>7. CASE RevertFails
  <2>1. UNCHANGED <<file, taskVars, faults, high>> /\ phase = "exhausted"
    BY <1>7 DEF RevertFails, WriteFails
  <2> QED BY <2>1 DEF GuardInv, Carries, Readable, taskVars
<1> QED BY <1>1, <1>2, <1>3, <1>4, <1>5, <1>6, <1>7 DEF BootSteps

(* Beats and promotions write back the copy they loaded: it carries the     *)
(* highest sequence, since no staging has saved in between.                 *)
LEMMA GuardHealth ==
  ASSUME TypeInv, GuardInv,
         Auth \/ BeatSave \/ FinalizeCheck \/ PromoteLoad \/ PromoteSave \/ UpdateFails \/ Tick
  PROVE  GuardInv'
<1>0. /\ TypeOK /\ TaskInv /\ file \in InstallState
      /\ beat.snap \in InstallState /\ fin.snap \in InstallState
      /\ NoRmw.pc = "idle"
  BY StageTypes DEF TypeInv, TypeOK
<1>1. CASE Auth
  <2>1. /\ UNCHANGED <<file, phase, stage, fin, faults, high>>
        /\ beat'.pc = "loaded" => Readable(file) /\ beat'.snap = file
    BY <1>0, <1>1 DEF Auth
  <2> QED BY <2>1 DEF GuardInv, Carries, Readable
<1>2. CASE BeatSave
  <2>1. /\ UNCHANGED <<phase, stage, fin, faults, high>> /\ beat.pc = "loaded" /\ beat'.pc = "idle"
        /\ file'.sequence = beat.snap.sequence /\ file'.status = beat.snap.status
    BY <1>0, <1>2, RewritesCarry DEF BeatSave, envVars
  <2> QED BY <2>1 DEF GuardInv, Carries, Readable
<1>3. CASE FinalizeCheck
  <2>1. /\ UNCHANGED <<file, phase, stage, beat, faults, high>> /\ fin'.pc = "due"
        /\ Readable(file)
    BY <1>0, <1>3 DEF FinalizeCheck, PromotionDue, Pending, Readable, Statuses, NoRmw, envVars
  <2> QED BY <2>1 DEF GuardInv, Carries, Readable
<1>4. CASE PromoteLoad
  <2>1. /\ UNCHANGED <<file, phase, stage, beat, faults, high>> /\ fin.pc = "due"
        /\ fin'.snap = file
    BY <1>4 DEF PromoteLoad, envVars
  <2> QED BY <2>1 DEF GuardInv, Carries, Readable
<1>5. CASE PromoteSave
  <2>1. /\ UNCHANGED <<phase, stage, beat, faults, high>> /\ fin.pc = "loaded" /\ fin'.pc = "idle"
        /\ file'.sequence = fin.snap.sequence /\ Readable(file)'
    BY <1>0, <1>5, RewritesCarry DEF PromoteSave, envVars, Readable, Statuses
  <2> QED BY <2>1 DEF GuardInv, Carries, Readable
<1>6. CASE UpdateFails
  <2>1. /\ UNCHANGED <<file, phase, stage, faults, high>>
        /\ beat' = beat \/ beat'.pc = "idle"
        /\ fin' = fin \/ fin'.pc = "idle"
    BY <1>0, <1>6 DEF UpdateFails, WriteFails
  <2> QED BY <2>1 DEF GuardInv, Carries, Readable
<1>7. CASE Tick
  <2>1. /\ UNCHANGED <<phase, stage, beat, fin, faults, high>>
        /\ file'.sequence = file.sequence /\ file'.status = file.status
    BY <1>0, <1>7, RewritesCarry DEF Tick, processVars, taskVars, envVars
  <2> QED BY <2>1 DEF GuardInv, Carries, Readable
<1> QED BY <1>1, <1>2, <1>3, <1>4, <1>5, <1>6, <1>7

(* Only a staging moves `current` in a process that is up: to its target.   *)
LEMMA OnlyStagingMoves ==
  ASSUME TypeInv, [Next]_vars, phase = "up", current' # current
  PROVE  stage.pc = "installed" /\ current' = stage.target
<1>1. CASE StageSteps
  BY <1>1 DEF StageSteps, StageExtract, StageInstall, StageSwap, StageGc, StageSave, treeVars
<1>2. CASE (\E v \in Versions : StageRequest(v)) \/ StageAbort \/ StageWriteFails
  BY <1>2 DEF StageRequest, StageAbort, StageWriteFails, treeVars
<1>3. CASE ExitForRespawn \/ Crash \/ BadDies
  BY <1>3 DEF ExitForRespawn, Crash, BadDies, treeVars
<1>4. CASE BootSteps \/ BootTornBump \/ BootSaveFails \/ RevertFails \/ RollbackSaveFails
  BY <1>4 DEF BootSteps, BootNormal, BootAfterRollback, BootPending, BootExhausted,
              RevertToPrevious, SaveRolledBack, BootTornBump, BootSaveFails, RevertFails, RollbackSaveFails
<1>5. CASE \/ Auth \/ BeatSave \/ FinalizeCheck \/ PromoteLoad \/ PromoteSave
           \/ UpdateFails \/ Tick \/ UNCHANGED vars
  BY <1>5 DEF Auth, BeatSave, FinalizeCheck, PromoteLoad, PromoteSave, UpdateFails, Tick,
              vars, treeVars
<1> QED BY <1>1, <1>2, <1>3, <1>4, <1>5 DEF Next

(* The replay guard holds for any number of releases, whatever the version  *)
(* window allows, and under every fault but a torn state.json and a save of *)
(* a stale copy: `stage` never makes a release current unless its manifest  *)
(* sequence is above the last_manifest_sequence of every staging before it, *)
(* rolled back, crashed or promoted since.                                  *)
THEOREM NoReleaseIsReplayed == Spec => SequencesGrow
<1>1. Init => TypeInv /\ GuardInv
  <2>1. Init => GuardInv
    BY DEF Init, GuardInv, Carries, Readable, NoFile, NoStage, NoRmw, Statuses
  <2> QED BY <2>1, TypeInit
<1>2. TypeInv /\ GuardInv /\ [Next]_vars => TypeInv' /\ GuardInv'
  <2> SUFFICES ASSUME TypeInv, GuardInv, [Next]_vars PROVE GuardInv'
    BY TypeStep
  <2>1. CASE ExitForRespawn \/ Crash \/ BadDies
    <3>1. /\ UNCHANGED <<file, faults, high>> /\ phase' = "down"
          /\ stage'.pc = "idle" /\ beat'.pc = "idle" /\ fin'.pc = "idle"
      BY <2>1, StageTypes DEF ExitForRespawn, Crash, BadDies, ProcessGone, envVars
    <3> QED BY <3>1 DEF GuardInv, Carries, Readable
  <2>2. CASE UNCHANGED vars
    BY <2>2 DEF GuardInv, Carries, Readable, vars, processVars, taskVars, envVars
  <2> QED BY <2>1, <2>2, GuardStaging, GuardBoot, GuardHealth DEF Next
<1>3. TypeInv /\ GuardInv /\ [Next]_vars
        => [faults \cap {"torn_bump", "race"} = {} /\ phase = "up" /\ current' # current
              => Sequence(current') > high]_vars
  BY OnlyStagingMoves DEF GuardInv
<1> QED BY <1>1, <1>2, <1>3, PTL DEF Spec, SequencesGrow

----------------------------------------------------------------------------
(* The version that never reached the manager, and the one it replaced *)

(* How many releases may fail: the ones that die, and per mishap the        *)
(* directory a crashed staging leaves and a MaxBootAttempts-th part of a    *)
(* rollback of a version that was good.                                     *)
FewFailures ==
    MaxBootAttempts * (Cardinality(Bad) + MaxMishaps) + MaxMishaps < MaxBootAttempts * Keep

(* The version a rollback leads to, or that runs for good.                  *)
Base == IF Pending(file) THEN file.previous ELSE file.current

(* The target's directory is in place, and state.json not yet written.      *)
Landed == stage.pc \in {"installed", "swapped", "save"}

(* Good releases with a directory newer than Base's that came to nothing.   *)
Unfit == {w \in dirs \ Bad : /\ mtime[w] > mtime[Base]
                             /\ w # file.current
                             /\ Landed => w # stage.target}

(* The crashes a good version that waits for its health has had.            *)
Spent ==
    IF Pending(file) /\ file.current \notin Bad /\ file.attempts > 0
    THEN IF phase = "down" THEN file.attempts ELSE file.attempts - 1
    ELSE 0

(* An up process runs the version state.json calls current, until a staging *)
(* has saved and it is about to exit; what works in it has authenticated.   *)
WhatRuns ==
    /\ phase = "up" /\ ~ draining => running = file.current
    /\ draining => /\ phase = "up" /\ running \in proven /\ Pending(file)
                   /\ file.attempts = 0 /\ file.health_age = Never
                   /\ stage.pc = "idle" /\ beat.pc = "idle" /\ fin.pc = "idle"
    /\ authed => phase = "up" /\ running \in proven
    /\ stage.pc # "idle" => authed
    /\ beat.pc # "idle" => authed

(* What state.json says is healthy, or would be rolled back to, has reached *)
(* the manager.                                                             *)
WhatIsProven ==
    /\ proven \cap Bad = {}
    /\ Pending(file) => file.previous \in proven
    /\ ~ Pending(file) => file.current \in proven
    /\ Pending(file) /\ file.health_age # Never => file.current \in proven

(* The symlink and state.json agree, but in the middle of a staging or of a *)
(* rollback, which a crash may interrupt.                                   *)
WhatIsCurrent ==
    /\ phase \in {"up", "down", "exhausted", "reverted"}
    /\ stage.pc \in {"swapped", "save"} => current = stage.target
    /\ phase = "up" /\ stage.pc \notin {"swapped", "save"} => current = file.current
    /\ phase = "up" /\ Pending(file) => file.attempts <= MaxBootAttempts
    /\ phase = "down" => \/ current = file.current
                         \/ /\ Pending(file) /\ file.attempts > MaxBootAttempts
                            /\ current = file.previous
    /\ phase \in {"exhausted", "reverted"} =>
         Pending(file) /\ file.attempts > MaxBootAttempts
    /\ phase = "exhausted" => current \in {file.current, file.previous}
    /\ phase = "reverted" => current = file.previous

(* A beat and a promotion write back what state.json still says.            *)
WhatIsSaved ==
    /\ beat.pc = "idle" \/ fin.pc = "idle"
    /\ beat.pc = "loaded" => beat.snap = file
    /\ fin.pc # "idle" => PromotionDue(file)
    /\ fin.pc = "loaded" => fin.snap = file

(* A staging replaces what runs, by a release newer than all in state.json. *)
WhatIsStaged ==
    /\ ~ Readable(file) => file = NoFile
    /\ file.current <= file.sequence /\ file.previous <= file.sequence
    /\ stage.pc # "idle" => stage.prev = file.current /\ stage.target > file.sequence
    /\ Landed => stage.target \in dirs /\ mtime[stage.target] >= mtime[file.current]

(* The directories state.json names are there, and those newer than Base's  *)
(* are few: each cost a release that dies, or crashes.                      *)
WhatIsKept ==
    /\ file.current \in dirs
    /\ Pending(file) /\ stage.pc # "save" => file.previous \in dirs
    /\ Pending(file) => mtime[file.current] >= mtime[file.previous]
    /\ MaxBootAttempts * Cardinality(Unfit) + Spent <= (MaxBootAttempts + 1) * mishaps

Calm ==
    /\ WhatRuns /\ WhatIsProven /\ WhatIsCurrent
    /\ WhatIsSaved /\ WhatIsStaged /\ WhatIsKept

CalmInv == faults = {} => Calm

LEMMA SetsOfVersions ==
  ASSUME NEW S \in SUBSET Versions
  PROVE  /\ IsFiniteSet(S) /\ Cardinality(S) \in Nat
         /\ \A T \in SUBSET S : Cardinality(T) <= Cardinality(S)
         /\ \A v : Cardinality(S \cup {v}) <= Cardinality(S) + 1
<1>1. IsFiniteSet(Versions)
  BY UpgradeAssumption, FS_Interval DEF Versions
<1>2. IsFiniteSet(S)
  BY <1>1, FS_Subset
<1>3. Cardinality(S) \in Nat
  BY <1>2, FS_CardinalityType
<1>4. \A T \in SUBSET S : Cardinality(T) <= Cardinality(S)
  BY <1>2, FS_Subset
<1>5. ASSUME NEW v PROVE Cardinality(S \cup {v}) <= Cardinality(S) + 1
  <2>1. Cardinality(S \cup {v}) = IF v \in S THEN Cardinality(S) ELSE Cardinality(S) + 1
    BY <1>2, FS_AddElement
  <2> QED BY <1>3, <2>1
<1> QED BY <1>2, <1>3, <1>4, <1>5

(* A directory that was not newer than another is not after a third one is  *)
(* stamped, which is newer than both.                                       *)
LEMMA StampKeepsOrder ==
  ASSUME TypeOK, NEW v \in Versions, NEW a \in dirs \ {v}, NEW b \in dirs \ {v}
  PROVE  /\ mtime[a] <= mtime[b] => Stamp(v)[a] <= Stamp(v)[b]
         /\ Stamp(v)[v] > Stamp(v)[a]
<1>1. dirs \ {v} \in SUBSET Versions /\ a \in Versions /\ b \in Versions /\ mtime \in [Versions -> Nat]
  BY DEF TypeOK
<1> DEFINE upTo(w) == {x \in dirs \ {v} : mtime[x] <= mtime[w]}
<1>2. /\ Stamp(v)[a] = Cardinality(upTo(a)) /\ Stamp(v)[b] = Cardinality(upTo(b))
      /\ Stamp(v)[v] = 1 + Cardinality(dirs \ {v})
  BY <1>1 DEF Stamp
<1>3. /\ Cardinality(upTo(a)) \in Nat /\ Cardinality(upTo(b)) \in Nat
      /\ Cardinality(dirs \ {v}) \in Nat
      /\ Cardinality(upTo(a)) <= Cardinality(dirs \ {v})
  BY <1>1, SetsOfVersions
<1>4. ASSUME mtime[a] <= mtime[b] PROVE Cardinality(upTo(a)) <= Cardinality(upTo(b))
  <2>1. upTo(a) \in SUBSET upTo(b) /\ upTo(b) \in SUBSET Versions
    BY <1>1, <1>4
  <2> QED BY <2>1, SetsOfVersions
<1> QED BY <1>2, <1>3, <1>4

(* What the rewrites of state.json leave alone, and what they set.          *)
LEMMA Rewrites ==
  ASSUME NEW f \in InstallState
  PROVE  /\ Bumped(f) = [f EXCEPT !.attempts = Bumped(f).attempts]
         /\ Bumped(f).attempts = Lesser(f.attempts + 1, MaxBootAttempts + 1)
         /\ Pending(f) => Beaten(f) = [f EXCEPT !.health_age = 0]
         /\ ~ Pending(f) => Beaten(f) = f
         /\ Older(f).current = f.current /\ Older(f).previous = f.previous
         /\ Older(f).status = f.status /\ Older(f).attempts = f.attempts
         /\ Older(f).sequence = f.sequence
         /\ f.health_age = Never => Older(f).health_age = Never
BY DEF InstallState, Bumped, Beaten, Older, Pending

(* The counts in the budget are natural numbers.                            *)
Countable ==
    /\ Unfit \in SUBSET Versions /\ Cardinality(Unfit) \in Nat
    /\ Spent \in Nat /\ mishaps \in Nat
    /\ file.attempts \in Nat /\ file.current \in Versions /\ file.previous \in Versions

LEMMA TypesCount == TypeOK => Countable
<1> SUFFICES ASSUME TypeOK PROVE Countable
  OBVIOUS
<1>1. Unfit \in SUBSET Versions
  BY DEF TypeOK, Unfit
<1>2. file.attempts \in Nat /\ file.current \in Versions /\ file.previous \in Versions
  BY UpgradeAssumption DEF TypeOK, InstallState
<1>3. Spent \in Nat
  BY <1>2 DEF Spent
<1>4. mishaps \in Nat
  BY UpgradeAssumption DEF TypeOK
<1> QED BY <1>1, <1>2, <1>3, <1>4, SetsOfVersions DEF Countable

LEMMA TypesStillCount == TypeOK' => Countable'
  BY TypesCount, PTL

(* The arithmetic of the budget: k boot attempts, n directories, s crashes  *)
(* spent, x mishaps.                                                        *)
LEMMA Budget ==
  ASSUME NEW k \in Nat, NEW n \in Nat, NEW m \in Nat, NEW s \in Nat, NEW t \in Nat,
         NEW x \in Nat, NEW y \in Nat, k * n + s <= (k + 1) * x
  PROVE  /\ m <= n /\ t - s <= y - x /\ x <= y => k * m + t <= (k + 1) * y
         /\ m <= n + 1 /\ t <= s + 1 /\ y = x + 1 => k * m + t <= (k + 1) * y
         /\ m <= n + 1 /\ s >= k /\ t = 0 /\ y = x => k * m + t <= (k + 1) * y
<1>1. PICK a \in Nat, b \in Nat, c \in Nat, d \in Nat :
         a = k * n /\ b = k * m /\ c = k * x /\ d = k * y
  OBVIOUS
<1>2. (k + 1) * x = c + x /\ (k + 1) * y = d + y
  BY <1>1
<1>3. m <= n => b <= a
  BY <1>1
<1>4. m <= n + 1 => b <= a + k
  <2>1. k * (n + 1) = a + k
    BY <1>1
  <2>2. PICK p \in Nat : p = n + 1
    OBVIOUS
  <2>3. m <= p => k * m <= k * p
    OBVIOUS
  <2> QED BY <1>1, <2>1, <2>2, <2>3
<1>5. x <= y => c <= d
  BY <1>1
<1>6. y = x + 1 => d = c + k
  BY <1>1
<1>7. y = x => d = c
  BY <1>1
<1> QED BY <1>1, <1>2, <1>3, <1>4, <1>5, <1>6, <1>7

(* The count of what came to nothing, when no directory joins it.           *)
LEMMA BudgetKept ==
  ASSUME TypeOK, TypeOK', Calm, Unfit' \subseteq Unfit, Spent' - Spent <= mishaps' - mishaps,
         mishaps' >= mishaps
  PROVE  MaxBootAttempts * Cardinality(Unfit') + Spent' <= (MaxBootAttempts + 1) * mishaps'
<1>1. Countable /\ Countable' /\ MaxBootAttempts \in Nat
  BY TypesCount, TypesStillCount, UpgradeAssumption
<1>2. Cardinality(Unfit') <= Cardinality(Unfit)
  BY <1>1, SetsOfVersions DEF Countable
<1>3. MaxBootAttempts * Cardinality(Unfit) + Spent <= (MaxBootAttempts + 1) * mishaps
  BY DEF Calm, WhatIsKept
<1> QED BY <1>1, <1>2, <1>3, Budget DEF Countable

(* A step that touches neither the directories nor what state.json says but *)
(* for the times, and ends no process.                                      *)
LEMMA KeptUntouched ==
  ASSUME TypeOK, TypeOK', Calm, UNCHANGED <<dirs, mtime, mishaps>>,
         file'.current = file.current, file'.previous = file.previous,
         Pending(file') <=> Pending(file), Landed' <=> Landed,
         Landed => stage'.target = stage.target, stage'.pc = "save" <=> stage.pc = "save",
         Spent' = Spent
  PROVE  WhatIsKept'
<1>1. Countable /\ Countable'
  BY TypesCount, TypesStillCount
<1>2. Unfit' = Unfit
  BY DEF Unfit, Base, Pending
<1>3. MaxBootAttempts * Cardinality(Unfit') + Spent' <= (MaxBootAttempts + 1) * mishaps'
  BY <1>2 DEF Calm, WhatIsKept
<1> QED BY <1>3 DEF Calm, WhatIsKept, Pending

LEMMA CalmRequest ==
  ASSUME TypeInv, TypeOK', Calm, faults = {}, NEW v \in Versions, StageRequest(v)
  PROVE  Calm'
<1>0. /\ TypeOK /\ TaskInv /\ WhatRuns /\ WhatIsProven /\ WhatIsCurrent /\ WhatIsSaved
      /\ WhatIsStaged
  BY DEF TypeInv, Calm
<1>1. /\ UNCHANGED <<treeVars, file, phase, running, authed, draining, beat, fin, envVars>>
      /\ phase = "up" /\ authed /\ ~ draining /\ stage.pc = "idle"
      /\ stage'.pc = "fetching" /\ stage'.target = v
      /\ stage'.prev = (IF Readable(file) THEN file.current ELSE running)
      /\ v # running
      /\ Readable(file) => v > file.sequence
  BY DEF StageRequest, CheckVersionWindow, Sequence
<1>2. running = file.current /\ stage'.prev = file.current
  BY <1>0, <1>1 DEF WhatRuns
<1>3. v > file.sequence
  <2>1. CASE Readable(file)
    BY <1>1, <2>1
  <2>2. CASE ~ Readable(file)
    <3>1. file.current = 1 /\ file.sequence = 1
      BY <1>0, <2>2 DEF WhatIsStaged, NoFile
    <3>2. v \in Nat /\ v >= 1 /\ v # 1
      BY <1>1, <1>2, <3>1, UpgradeAssumption DEF Versions
    <3> QED BY <3>1, <3>2
  <2> QED BY <2>1, <2>2
<1>4. WhatIsKept'
  <2>1. /\ UNCHANGED <<dirs, mtime, mishaps, file>> /\ ~ Landed /\ ~ Landed' /\ Spent' = Spent
        /\ stage.pc # "save" /\ stage'.pc # "save"
    BY <1>1 DEF treeVars, envVars, Landed, Spent, Pending
  <2> QED BY <1>0, <2>1, KeptUntouched
<1>5. WhatRuns' /\ WhatIsProven' /\ WhatIsCurrent' /\ WhatIsSaved'
  BY <1>0, <1>1
     DEF WhatRuns, WhatIsProven, WhatIsCurrent, WhatIsSaved, Pending, PromotionDue, treeVars, envVars
<1>6. WhatIsStaged'
  BY <1>0, <1>1, <1>2, <1>3 DEF WhatIsStaged, Landed, Readable
<1> QED BY <1>4, <1>5, <1>6 DEF Calm

LEMMA CalmAbort ==
  ASSUME TypeInv, TypeOK', Calm, StageAbort
  PROVE  Calm'
<1>0. /\ TypeOK /\ TaskInv /\ WhatRuns /\ WhatIsProven /\ WhatIsCurrent /\ WhatIsSaved
      /\ WhatIsStaged
  BY DEF TypeInv, Calm
<1>1. /\ UNCHANGED <<treeVars, file, phase, running, authed, draining, beat, fin, envVars>>
      /\ stage.pc \in {"fetching", "partial"} /\ stage'.pc = "idle"
  BY DEF StageAbort, NoStage
<1>4. WhatIsKept'
  <2>1. /\ UNCHANGED <<dirs, mtime, mishaps, file>> /\ ~ Landed /\ ~ Landed' /\ Spent' = Spent
        /\ stage.pc # "save" /\ stage'.pc # "save"
    BY <1>1 DEF treeVars, envVars, Landed, Spent, Pending
  <2> QED BY <1>0, <2>1, KeptUntouched
<1>5. WhatRuns' /\ WhatIsProven' /\ WhatIsCurrent' /\ WhatIsSaved'
  BY <1>0, <1>1
     DEF WhatRuns, WhatIsProven, WhatIsCurrent, WhatIsSaved, Pending, PromotionDue, treeVars, envVars
<1>6. WhatIsStaged'
  BY <1>0, <1>1 DEF WhatIsStaged, Landed, Readable
<1> QED BY <1>4, <1>5, <1>6 DEF Calm

LEMMA CalmExtract ==
  ASSUME TypeInv, TypeOK', Calm, StageExtract
  PROVE  Calm'
<1>0. /\ TypeOK /\ TaskInv /\ WhatRuns /\ WhatIsProven /\ WhatIsCurrent /\ WhatIsSaved
      /\ WhatIsStaged /\ WhatIsKept
  BY DEF TypeInv, Calm
<1>1. /\ UNCHANGED <<current, mtime, file, phase, running, authed, draining, beat, fin, envVars>>
      /\ stage.pc = "fetching" /\ phase = "up"
  BY <1>0 DEF StageExtract, TaskInv
<1>2. /\ stage.target > file.sequence /\ stage.prev = file.current
      /\ stage.target # file.current /\ stage.target # file.previous
      /\ current = file.current
  <2>1. /\ stage.target > file.sequence /\ stage.prev = file.current
        /\ file.current <= file.sequence /\ file.previous <= file.sequence
    BY <1>0, <1>1 DEF WhatIsStaged
  <2>2. file.sequence \in Int /\ stage.target \in Int
    BY <1>0, <1>1, UpgradeAssumption DEF TypeOK, InstallState, TaskInv, Versions
  <2> QED BY <1>0, <1>1, <2>1, <2>2 DEF WhatIsCurrent
<1>3. /\ stage'.pc = "partial" /\ stage'.target = stage.target /\ stage'.prev = stage.prev
      /\ dirs' = dirs \ {stage.target}
  BY <1>2, StageTypes DEF StageExtract
<1>4. Unfit' \subseteq Unfit /\ Spent' = Spent /\ mishaps' = mishaps
  BY <1>1, <1>3 DEF Unfit, Base, Pending, Landed, Spent, envVars
<1>5. Countable /\ Countable'
  BY <1>0, TypesCount, TypesStillCount
<1>6. MaxBootAttempts * Cardinality(Unfit') + Spent' <= (MaxBootAttempts + 1) * mishaps'
  BY <1>0, <1>4, <1>5, BudgetKept DEF Countable
<1>7. WhatIsKept'
  BY <1>0, <1>1, <1>2, <1>3, <1>6 DEF WhatIsKept, Pending
<1>8. WhatRuns' /\ WhatIsProven' /\ WhatIsCurrent' /\ WhatIsSaved'
  BY <1>0, <1>1, <1>3
     DEF WhatRuns, WhatIsProven, WhatIsCurrent, WhatIsSaved, Pending, PromotionDue, envVars
<1>9. WhatIsStaged'
  BY <1>0, <1>1, <1>3 DEF WhatIsStaged, Landed, Readable
<1> QED BY <1>7, <1>8, <1>9 DEF Calm

(* The rename: the target's directory is the newest.                        *)
LEMMA CalmInstall ==
  ASSUME TypeInv, TypeOK', Calm, StageInstall
  PROVE  Calm'
<1>0. /\ TypeOK /\ TaskInv /\ WhatRuns /\ WhatIsProven /\ WhatIsCurrent /\ WhatIsSaved
      /\ WhatIsStaged /\ WhatIsKept
  BY DEF TypeInv, Calm
<1>1. /\ UNCHANGED <<current, file, phase, running, authed, draining, beat, fin, envVars>>
      /\ stage.pc = "partial" /\ stage.target \in Versions
      /\ dirs' = dirs \cup {stage.target} /\ mtime' = Stamp(stage.target)
      /\ stage'.pc = "installed" /\ stage'.target = stage.target /\ stage'.prev = stage.prev
  BY <1>0, StageTypes DEF StageInstall, TaskInv
<1>2. /\ stage.target > file.sequence /\ stage.prev = file.current
      /\ stage.target # file.current /\ stage.target # file.previous
  <2>1. /\ stage.target > file.sequence /\ stage.prev = file.current
        /\ file.current <= file.sequence /\ file.previous <= file.sequence
    BY <1>0, <1>1 DEF WhatIsStaged
  <2>2. file.sequence \in Int /\ stage.target \in Int
    BY <1>0, <1>1, UpgradeAssumption DEF TypeOK, InstallState, Versions
  <2> QED BY <2>1, <2>2
<1>3. /\ file.current \in dirs \ {stage.target}
      /\ Pending(file) => file.previous \in dirs \ {stage.target}
  BY <1>0, <1>1, <1>2 DEF WhatIsKept
<1>4. Base \in dirs \ {stage.target} /\ Base' = Base
  BY <1>1, <1>3 DEF Base, Pending
<1>5. Unfit' \subseteq Unfit
  <2> SUFFICES ASSUME NEW w \in Unfit' PROVE w \in Unfit
    OBVIOUS
  <2>1. /\ w \in dirs' \ Bad /\ mtime'[w] > mtime'[Base] /\ w # file.current
        /\ w # stage.target
    BY <1>1, <1>4 DEF Unfit, Landed
  <2>2. w \in dirs \ {stage.target}
    BY <1>1, <2>1
  <2>3. ~ (mtime[w] <= mtime[Base])
    <3>1. mtime[w] <= mtime[Base] => Stamp(stage.target)[w] <= Stamp(stage.target)[Base]
      BY <1>0, <1>1, <1>4, <2>2, StampKeepsOrder
    <3>2. Stamp(stage.target) \in [Versions -> Nat] /\ w \in Versions /\ Base \in Versions
      BY <1>0, <1>1, <1>4, <2>2, StampType DEF TypeOK
    <3>3. Stamp(stage.target)[w] \in Nat /\ Stamp(stage.target)[Base] \in Nat
      BY <3>2
    <3> QED BY <1>1, <2>1, <3>1, <3>3
  <2>4. mtime[w] \in Nat /\ mtime[Base] \in Nat
    BY <1>0, <1>4, <2>2 DEF TypeOK
  <2> QED BY <1>1, <2>1, <2>2, <2>3, <2>4 DEF Unfit, Landed
<1>6. Countable /\ Countable' /\ Spent' = Spent /\ mishaps' = mishaps
  BY <1>0, <1>1, TypesCount, TypesStillCount DEF Spent, Pending, envVars
<1>7. MaxBootAttempts * Cardinality(Unfit') + Spent' <= (MaxBootAttempts + 1) * mishaps'
  BY <1>0, <1>5, <1>6, BudgetKept DEF Countable
<1>8. WhatIsKept'
  <2>1. Pending(file) => mtime'[file.current] >= mtime'[file.previous]
    <3> SUFFICES ASSUME Pending(file) PROVE mtime'[file.current] >= mtime'[file.previous]
      OBVIOUS
    <3>1. mtime[file.previous] <= mtime[file.current]
      BY <1>0, <1>3 DEF WhatIsKept, TypeOK
    <3>2. Stamp(stage.target)[file.previous] <= Stamp(stage.target)[file.current]
      BY <1>0, <1>1, <1>3, <3>1, StampKeepsOrder
    <3>3. mtime' \in [Versions -> Nat] /\ file.current \in Versions /\ file.previous \in Versions
      BY <1>0, <1>3 DEF TypeOK
    <3> QED BY <1>1, <3>2, <3>3
  <2> QED BY <1>1, <1>3, <1>7, <2>1 DEF WhatIsKept, Pending
<1>9. WhatRuns' /\ WhatIsProven' /\ WhatIsCurrent' /\ WhatIsSaved'
  BY <1>0, <1>1
     DEF WhatRuns, WhatIsProven, WhatIsCurrent, WhatIsSaved, Pending, PromotionDue, envVars
<1>10. WhatIsStaged'
  <2>1. Stamp(stage.target)[stage.target] > Stamp(stage.target)[file.current]
    BY <1>0, <1>1, <1>3, StampKeepsOrder
  <2>2. mtime'[stage.target] >= mtime'[file.current]
    <3>1. mtime' \in [Versions -> Nat] /\ file.current \in Versions
      BY <1>0, <1>3 DEF TypeOK
    <3> QED BY <1>1, <2>1, <3>1
  <2> QED BY <1>0, <1>1, <2>2 DEF WhatIsStaged, Landed, Readable
<1> QED BY <1>8, <1>9, <1>10 DEF Calm

LEMMA CalmSwap ==
  ASSUME TypeInv, TypeOK', Calm, StageSwap
  PROVE  Calm'
<1>0. /\ TypeOK /\ TaskInv /\ WhatRuns /\ WhatIsProven /\ WhatIsCurrent /\ WhatIsSaved
      /\ WhatIsStaged /\ WhatIsKept
  BY DEF TypeInv, Calm
<1>1. /\ UNCHANGED <<dirs, mtime, file, phase, running, authed, draining, beat, fin, envVars>>
      /\ stage.pc = "installed" /\ current' = stage.target /\ phase = "up"
      /\ stage'.pc = "swapped" /\ stage'.target = stage.target /\ stage'.prev = stage.prev
  BY <1>0, StageTypes DEF StageSwap, TaskInv
<1>2. WhatIsKept'
  <2>1. /\ UNCHANGED <<dirs, mtime, mishaps, file>> /\ Landed /\ Landed' /\ Spent' = Spent
        /\ stage.pc # "save" /\ stage'.pc # "save"
    BY <1>1 DEF envVars, Landed, Spent, Pending
  <2> QED BY <1>0, <1>1, <2>1, KeptUntouched
<1>3. WhatRuns' /\ WhatIsProven' /\ WhatIsCurrent' /\ WhatIsSaved'
  BY <1>0, <1>1
     DEF WhatRuns, WhatIsProven, WhatIsCurrent, WhatIsSaved, Pending, PromotionDue, envVars
<1>4. WhatIsStaged'
  BY <1>0, <1>1 DEF WhatIsStaged, Landed, Readable
<1> QED BY <1>2, <1>3, <1>4 DEF Calm

(* The sweep of gc_versions leaves the version that runs: those newer than  *)
(* it are releases that die, or came to nothing, fewer than Keep.           *)
LEMMA FewNewer ==
  ASSUME NEW k \in Nat \ {0}, NEW u \in Nat, NEW b \in Nat, NEW x \in Nat, NEW m \in Nat,
         NEW n \in Nat, x <= m, k * u <= (k + 1) * x, k * (b + m) + m < k * n
  PROVE  u + b < n
<1>1. PICK p \in Nat, q \in Nat, r \in Nat, y \in Nat :
         p = k * u /\ q = k * b /\ r = k * m /\ y = k * x
  OBVIOUS
<1>2. y <= r
  BY <1>1
<1>3. (k + 1) * x = y + x /\ k * (b + m) = q + r /\ k * (u + b) = p + q
  BY <1>1
<1>4. k * (u + b) < k * n
  <2>1. PICK z \in Nat : z = k * n
    OBVIOUS
  <2>2. p <= y + x /\ q + r + m < z
    BY <1>1, <1>3, <2>1
  <2>3. p + q < z
    BY <1>2, <2>2
  <2> QED BY <1>3, <2>1, <2>3
<1>5. u + b >= n => k * (u + b) >= k * n
  <2>1. PICK z \in Nat : z = u + b
    OBVIOUS
  <2>2. z >= n => k * z >= k * n
    OBVIOUS
  <2> QED BY <2>1, <2>2
<1> QED BY <1>4, <1>5

LEMMA CalmGc ==
  ASSUME TypeInv, TypeOK', Calm, FewFailures, StageGc
  PROVE  Calm'
<1>0. /\ TypeOK /\ TaskInv /\ WhatRuns /\ WhatIsProven /\ WhatIsCurrent /\ WhatIsSaved
      /\ WhatIsStaged /\ WhatIsKept
  BY DEF TypeInv, Calm
<1>1. /\ UNCHANGED <<current, mtime, file, phase, running, authed, draining, beat, fin, envVars>>
      /\ stage.pc = "swapped" /\ phase = "up" /\ Landed
      /\ dirs' = (dirs \cap {stage.target}) \cup Newest(stage.target)
      /\ stage'.pc = "save" /\ stage'.target = stage.target /\ stage'.prev = stage.prev
  BY <1>0, StageTypes DEF StageGc, GcVersions, TaskInv, Landed
<1>2. /\ stage.target > file.sequence /\ stage.target # file.current
      /\ stage.target \in dirs
  <2>1. /\ stage.target > file.sequence /\ file.current <= file.sequence /\ stage.target \in dirs
    BY <1>0, <1>1 DEF WhatIsStaged
  <2>2. file.sequence \in Int /\ stage.target \in Int
    BY <1>0, <1>1, <2>1, UpgradeAssumption DEF TypeOK, InstallState, Versions
  <2> QED BY <2>1, <2>2
<1> DEFINE others == dirs \ {stage.target}
           newer  == {w \in others : mtime[w] > mtime[file.current]}
<1>3. newer \subseteq Unfit \cup Bad
  <2> SUFFICES ASSUME NEW w \in newer, w \notin Bad PROVE w \in Unfit
    OBVIOUS
  <2>1. /\ mtime[w] \in Nat /\ mtime[file.current] \in Nat /\ mtime[file.previous] \in Nat
    BY <1>0 DEF TypeOK, InstallState
  <2>2. mtime[w] > mtime[Base]
    BY <1>0, <2>1 DEF WhatIsKept, Base
  <2>3. w # file.current
    BY <2>1
  <2> QED BY <2>2, <2>3 DEF Unfit
<1>4. Cardinality(newer) < Keep
  <2>1. Countable /\ Bad \in SUBSET Versions
    BY <1>0, TypesCount, UpgradeAssumption
  <2>2. /\ IsFiniteSet(Unfit) /\ Cardinality(Unfit) \in Nat
        /\ IsFiniteSet(Bad) /\ Cardinality(Bad) \in Nat
    BY <2>1, SetsOfVersions DEF Countable
  <2>3. /\ Cardinality(Unfit \cup Bad) = Cardinality(Unfit) + Cardinality(Bad) - Cardinality(Unfit \cap Bad)
        /\ Cardinality(Unfit \cap Bad) \in Nat
    BY <2>2, FS_Union, FS_Intersection, FS_CardinalityType
  <2>4. Cardinality(newer) <= Cardinality(Unfit \cup Bad) /\ Cardinality(newer) \in Nat
    <3>1. Unfit \cup Bad \in SUBSET Versions /\ newer \in SUBSET (Unfit \cup Bad)
      BY <1>3, <2>1 DEF Countable
    <3>2. newer \in SUBSET Versions
      BY <3>1
    <3> QED BY <3>1, <3>2, SetsOfVersions
  <2>5. MaxBootAttempts * Cardinality(Unfit) <= (MaxBootAttempts + 1) * mishaps
    <3>1. /\ MaxBootAttempts * Cardinality(Unfit) + Spent <= (MaxBootAttempts + 1) * mishaps
          /\ Spent \in Nat /\ mishaps \in Nat /\ MaxBootAttempts \in Nat
      BY <1>0, <2>1, UpgradeAssumption DEF WhatIsKept, Countable
    <3>2. PICK p \in Nat, q \in Nat : /\ p = MaxBootAttempts * Cardinality(Unfit)
                                      /\ q = (MaxBootAttempts + 1) * mishaps
      BY <2>2, <3>1
    <3> QED BY <3>1, <3>2
  <2>6. Cardinality(Unfit) + Cardinality(Bad) < Keep
    <3>1. mishaps \in Nat /\ mishaps <= MaxMishaps
      BY <1>0, UpgradeAssumption DEF TypeOK
    <3> QED BY <2>2, <2>5, <3>1, FewNewer, UpgradeAssumption DEF FewFailures
  <2> QED BY <2>2, <2>3, <2>4, <2>6, UpgradeAssumption
<1>5. file.current \in dirs'
  BY <1>0, <1>1, <1>2, <1>4 DEF Newest, WhatIsKept
<1>6. dirs' \subseteq dirs /\ stage.target \in dirs'
  BY <1>1, <1>2 DEF Newest
<1>7. Unfit' \subseteq Unfit /\ Spent' = Spent /\ mishaps' = mishaps
  <2>1. Base' = Base /\ Landed'
    BY <1>1 DEF Base, Pending, Landed
  <2> QED BY <1>1, <1>6, <2>1 DEF Unfit, Pending, Spent, envVars
<1>8. MaxBootAttempts * Cardinality(Unfit') + Spent' <= (MaxBootAttempts + 1) * mishaps'
  BY <1>0, <1>7, TypesCount, TypesStillCount, BudgetKept DEF Countable
<1>9. WhatIsKept'
  BY <1>0, <1>1, <1>5, <1>8 DEF WhatIsKept, Pending
<1>10. WhatRuns' /\ WhatIsProven' /\ WhatIsCurrent' /\ WhatIsSaved'
  BY <1>0, <1>1
     DEF WhatRuns, WhatIsProven, WhatIsCurrent, WhatIsSaved, Pending, PromotionDue, envVars
<1>11. WhatIsStaged'
  BY <1>0, <1>1, <1>6 DEF WhatIsStaged, Landed, Readable
<1> QED BY <1>9, <1>10, <1>11 DEF Calm

(* The save: the version that runs becomes the one a rollback leads to.     *)
LEMMA CalmSave ==
  ASSUME TypeInv, TypeOK', Calm, faults = {}, StageSave
  PROVE  Calm'
<1>0. /\ TypeOK /\ TaskInv /\ WhatRuns /\ WhatIsProven /\ WhatIsCurrent /\ WhatIsSaved
      /\ WhatIsStaged /\ WhatIsKept
  BY DEF TypeInv, Calm
<1>1. /\ UNCHANGED <<treeVars, phase, running, authed, beat, fin, faults, mishaps, proven>>
      /\ stage.pc = "save" /\ phase = "up" /\ Landed
      /\ draining' /\ stage'.pc = "idle"
      /\ beat.pc = "idle" /\ fin.pc = "idle"
  BY <1>0, StageTypes DEF StageSave, NobodySaving, TaskInv, Landed
<1>2. /\ file'.current = stage.target /\ file'.previous = stage.prev
      /\ file'.status = "pending_health" /\ file'.attempts = 0
      /\ file'.sequence = stage.target /\ file'.health_age = Never
  BY DEF StageSave, Staged, Sequence
<1>3. authed /\ running \in proven /\ ~ draining /\ running = file.current
  BY <1>0, <1>1 DEF WhatRuns
<1>4. /\ stage.prev = file.current /\ stage.target > file.sequence
      /\ file.current <= file.sequence
      /\ stage.target \in dirs /\ mtime[stage.target] >= mtime[file.current]
  BY <1>0, <1>1 DEF WhatIsStaged
<1>5. file.sequence \in Int /\ stage.target \in Int /\ file.current \in Int
  <2>1. file.sequence \in Versions /\ stage.target \in Versions /\ file.current \in Versions
    BY <1>0, <1>4 DEF TypeOK, InstallState
  <2> QED BY <2>1, UpgradeAssumption DEF Versions
<1>6. Spent' = 0 /\ Unfit' \subseteq Unfit
  <2>1. Spent' = 0
    BY <1>2 DEF Spent
  <2> SUFFICES ASSUME NEW w \in Unfit' PROVE w \in Unfit
    BY <2>1
  <2>2. Base' = file.current
    BY <1>2, <1>4 DEF Base, Pending
  <2>3. w \in dirs \ Bad /\ mtime[w] > mtime[file.current] /\ w # stage.target
    BY <1>1, <1>2, <2>2 DEF Unfit, treeVars
  <2>4. mtime[w] \in Nat /\ mtime[file.current] \in Nat /\ mtime[file.previous] \in Nat
    BY <1>0, <2>3 DEF TypeOK, InstallState
  <2>5. mtime[w] > mtime[Base] /\ w # file.current
    BY <1>0, <2>3, <2>4 DEF WhatIsKept, Base
  <2> QED BY <2>3, <2>5 DEF Unfit
<1>7. MaxBootAttempts * Cardinality(Unfit') + Spent' <= (MaxBootAttempts + 1) * mishaps'
  BY <1>0, <1>1, <1>6, TypesCount, TypesStillCount, BudgetKept DEF Countable
<1>8. WhatIsKept'
  BY <1>0, <1>1, <1>2, <1>4, <1>7 DEF WhatIsKept, Pending, treeVars
<1>9. WhatRuns'
  BY <1>0, <1>1, <1>2, <1>3 DEF WhatRuns, Pending
<1>10. WhatIsProven'
  BY <1>0, <1>1, <1>2, <1>3, <1>4 DEF WhatIsProven, Pending
<1>11. WhatIsCurrent'
  BY <1>0, <1>1, <1>2, UpgradeAssumption DEF WhatIsCurrent, Pending, treeVars
<1>12. WhatIsSaved'
  BY <1>1 DEF WhatIsSaved
<1>13. WhatIsStaged'
  BY <1>1, <1>2, <1>4, <1>5 DEF WhatIsStaged, Landed, Readable, Statuses
<1> QED BY <1>8, <1>9, <1>10, <1>11, <1>12, <1>13 DEF Calm

(* The process ends, outside the steps from the symlink's swap to the save: *)
(* all is as it was, but for the directory a staging has installed.         *)
LEMMA CalmGone ==
  ASSUME TypeInv, TypeOK', Calm, phase # "down", stage.pc \notin {"swapped", "save"},
         ProcessGone, UNCHANGED <<treeVars, file, proven>>,
         draining => running \in proven,
         MaxBootAttempts * Cardinality(Unfit') + Spent' <= (MaxBootAttempts + 1) * mishaps'
  PROVE  Calm'
<1>0. /\ TypeOK /\ TaskInv /\ WhatRuns /\ WhatIsProven /\ WhatIsCurrent /\ WhatIsSaved
      /\ WhatIsStaged /\ WhatIsKept
  BY DEF TypeInv, Calm
<1>1. /\ phase' = "down" /\ ~ authed' /\ ~ draining'
      /\ stage'.pc = "idle" /\ beat'.pc = "idle" /\ fin'.pc = "idle"
  BY StageTypes DEF ProcessGone
<1>2. WhatIsKept'
  BY <1>0, <1>1 DEF WhatIsKept, Pending, treeVars
<1>3. WhatRuns' /\ WhatIsProven' /\ WhatIsSaved'
  BY <1>0, <1>1 DEF WhatRuns, WhatIsProven, WhatIsSaved, Pending
<1>4. WhatIsStaged'
  BY <1>0, <1>1 DEF WhatIsStaged, Landed, Readable
<1>5. WhatIsCurrent'
  <2>1. UNCHANGED <<current, file>>
    BY DEF treeVars
  <2>2. phase = "up" => current = file.current
    BY <1>0 DEF WhatIsCurrent
  <2>3. phase \in {"exhausted", "reverted"} =>
          /\ Pending(file) /\ file.attempts > MaxBootAttempts
          /\ current \in {file.current, file.previous}
    BY <1>0 DEF WhatIsCurrent
  <2>4. phase \in {"up", "exhausted", "reverted"}
    BY <1>0 DEF WhatIsCurrent
  <2> QED BY <1>1, <2>1, <2>2, <2>3, <2>4 DEF WhatIsCurrent, Pending
<1> QED BY <1>2, <1>3, <1>4, <1>5 DEF Calm

LEMMA CalmExit ==
  ASSUME TypeInv, TypeOK', Calm, ExitForRespawn
  PROVE  Calm'
<1>0. TypeOK /\ WhatRuns
  BY DEF TypeInv, Calm
<1>1. /\ UNCHANGED <<treeVars, file, envVars>> /\ draining /\ ProcessGone /\ phase' = "down"
      /\ stage'.pc = "idle"
  BY StageTypes DEF ExitForRespawn, ProcessGone
<1>2. phase = "up" /\ running \in proven /\ file.attempts = 0 /\ stage.pc = "idle"
  BY <1>0, <1>1 DEF WhatRuns
<1>3. Spent' = Spent /\ mishaps' = mishaps
  BY <1>1, <1>2 DEF Spent, envVars
<1>4. Unfit' \subseteq Unfit
  BY <1>1, <1>2 DEF Unfit, Base, Pending, Landed, treeVars
<1>5. MaxBootAttempts * Cardinality(Unfit') + Spent' <= (MaxBootAttempts + 1) * mishaps'
  BY <1>0, <1>3, <1>4, TypesCount, TypesStillCount, BudgetKept DEF Countable
<1> QED BY <1>1, <1>2, <1>5, CalmGone DEF envVars

(* A version that dies before it reaches the manager spends no mishap.      *)
LEMMA CalmBadDies ==
  ASSUME TypeInv, TypeOK', Calm, BadDies
  PROVE  Calm'
<1>0. TypeOK /\ WhatRuns /\ WhatIsProven
  BY DEF TypeInv, Calm
<1>1. /\ UNCHANGED <<treeVars, file, envVars>> /\ phase = "up" /\ running \in Bad /\ ProcessGone
      /\ phase' = "down" /\ stage'.pc = "idle"
  BY StageTypes DEF BadDies, ProcessGone
<1>2. running \notin proven
  BY <1>0, <1>1 DEF WhatIsProven
<1>3. ~ draining /\ stage.pc = "idle" /\ file.current \in Bad
  BY <1>0, <1>1, <1>2 DEF WhatRuns
<1>4. Spent' = Spent /\ mishaps' = mishaps
  BY <1>1, <1>3 DEF Spent, envVars
<1>5. Unfit' \subseteq Unfit
  BY <1>1, <1>3 DEF Unfit, Base, Pending, Landed, treeVars
<1>6. MaxBootAttempts * Cardinality(Unfit') + Spent' <= (MaxBootAttempts + 1) * mishaps'
  BY <1>0, <1>4, <1>5, TypesCount, TypesStillCount, BudgetKept DEF Countable
<1> QED BY <1>1, <1>3, <1>6, CalmGone DEF envVars

(* A crash costs a mishap: it leaves at most one directory, that of the     *)
(* staging it ends, and one boot attempt of the version that waited.        *)
LEMMA CalmCrash ==
  ASSUME TypeInv, TypeOK', Calm, faults = {}, Crash
  PROVE  Calm'
<1>0. TypeOK /\ TaskInv /\ WhatRuns /\ WhatIsKept
  BY DEF TypeInv, Calm
<1>1. /\ UNCHANGED <<treeVars, file, proven>> /\ phase # "down" /\ ProcessGone
      /\ stage.pc \notin {"swapped", "save"} /\ mishaps' = mishaps + 1
      /\ phase' = "down" /\ stage'.pc = "idle"
  BY StageTypes DEF Crash, Mishap, ProcessGone
<1>2. Countable /\ Countable' /\ MaxBootAttempts \in Nat
  BY <1>0, TypesCount, TypesStillCount, UpgradeAssumption
<1>3. Spent' <= Spent + 1
  BY <1>1, <1>2 DEF Spent, Pending, Countable
<1>4. Cardinality(Unfit') <= Cardinality(Unfit) + 1
  <2>1. Unfit' \subseteq Unfit \cup {stage.target}
    BY <1>1 DEF Unfit, Base, Pending, Landed, treeVars
  <2>2. Unfit' \subseteq Versions /\ Unfit \in SUBSET Versions
    BY <1>2 DEF Countable
  <2>3. CASE stage.target \in Unfit'
    <3>1. Unfit \cup {stage.target} \in SUBSET Versions
      BY <2>2, <2>3
    <3>2. Unfit' \in SUBSET (Unfit \cup {stage.target})
      BY <2>1
    <3>3. /\ Cardinality(Unfit') <= Cardinality(Unfit \cup {stage.target})
          /\ Cardinality(Unfit \cup {stage.target}) \in Nat
      BY <3>1, <3>2, SetsOfVersions
    <3>4. Cardinality(Unfit \cup {stage.target}) <= Cardinality(Unfit) + 1
      BY <2>2, SetsOfVersions
    <3> QED BY <1>2, <3>3, <3>4 DEF Countable
  <2>4. CASE stage.target \notin Unfit'
    <3>1. Unfit' \in SUBSET Unfit
      BY <2>1, <2>4
    <3>2. Cardinality(Unfit') <= Cardinality(Unfit)
      BY <2>2, <3>1, SetsOfVersions
    <3> QED BY <1>2, <3>2 DEF Countable
  <2> QED BY <2>3, <2>4
<1>5. MaxBootAttempts * Cardinality(Unfit') + Spent' <= (MaxBootAttempts + 1) * mishaps'
  <2>1. MaxBootAttempts * Cardinality(Unfit) + Spent <= (MaxBootAttempts + 1) * mishaps
    BY <1>0 DEF WhatIsKept
  <2> QED BY <1>1, <1>2, <1>3, <1>4, <2>1, Budget DEF Countable
<1> QED BY <1>0, <1>1, <1>5, CalmGone DEF WhatRuns

(* A start that goes on, with nothing pending.                              *)
LEMMA CalmBootSettled ==
  ASSUME TypeInv, TypeOK', Calm, BootNormal \/ BootAfterRollback
  PROVE  Calm'
<1>0. /\ TypeOK /\ TaskInv /\ WhatRuns /\ WhatIsProven /\ WhatIsCurrent /\ WhatIsSaved
      /\ WhatIsStaged /\ WhatIsKept /\ file \in InstallState
  BY DEF TypeInv, TypeOK, Calm
<1>1. /\ UNCHANGED <<treeVars, taskVars, envVars>> /\ phase = "down" /\ phase' = "up"
      /\ running' = current
      /\ ~ Pending(file)
      /\ stage.pc = "idle" /\ beat.pc = "idle" /\ fin.pc = "idle"
  BY <1>0 DEF BootNormal, BootAfterRollback, BootInto, TaskInv, Readable, Pending, Statuses
<1>2. ~ authed /\ ~ draining
  BY <1>0, <1>1 DEF WhatRuns
<1>3. /\ file'.current = file.current /\ file'.previous = file.previous
      /\ file'.sequence = file.sequence /\ ~ Pending(file')
      /\ ~ Readable(file') => file' = file
  <2>1. /\ [file EXCEPT !.status = "stable", !.attempts = 0].current = file.current
        /\ [file EXCEPT !.status = "stable", !.attempts = 0].previous = file.previous
        /\ [file EXCEPT !.status = "stable", !.attempts = 0].sequence = file.sequence
        /\ [file EXCEPT !.status = "stable", !.attempts = 0].status = "stable"
    BY <1>0 DEF InstallState
  <2>2. CASE BootNormal
    BY <1>1, <2>2 DEF BootNormal, BootInto, Pending
  <2>3. CASE BootAfterRollback
    BY <2>1, <2>3 DEF BootAfterRollback, BootInto, Pending, Readable, Statuses
  <2> QED BY <2>2, <2>3
<1>4. WhatIsKept'
  <2>1. /\ UNCHANGED <<dirs, mtime, mishaps>> /\ ~ Landed /\ ~ Landed'
        /\ stage.pc # "save" /\ stage'.pc # "save"
    BY <1>1 DEF treeVars, taskVars, envVars, Landed
  <2>2. Spent' = Spent
    BY <1>1, <1>3 DEF Spent, Pending
  <2>3. Pending(file') <=> Pending(file)
    BY <1>1, <1>3
  <2> QED BY <1>0, <1>3, <2>1, <2>2, <2>3, KeptUntouched
<1>5. current = file.current
  BY <1>0, <1>1 DEF WhatIsCurrent
<1>6. WhatRuns' /\ WhatIsProven' /\ WhatIsSaved'
  BY <1>0, <1>1, <1>2, <1>3, <1>5
     DEF WhatRuns, WhatIsProven, WhatIsSaved, Pending, taskVars, envVars
<1>7. WhatIsCurrent'
  BY <1>1, <1>3, <1>5 DEF WhatIsCurrent, Pending, treeVars, taskVars
<1>8. WhatIsStaged'
  BY <1>0, <1>1, <1>3 DEF WhatIsStaged, Landed, Readable, taskVars
<1> QED BY <1>4, <1>6, <1>7, <1>8 DEF Calm

(* A start of a version that waits for its health is counted: the count is  *)
(* what it has spent until the next crash.                                  *)
LEMMA CalmBootPending ==
  ASSUME TypeInv, TypeOK', Calm, BootPending \/ BootExhausted
  PROVE  Calm'
<1>0. /\ TypeOK /\ TaskInv /\ WhatRuns /\ WhatIsProven /\ WhatIsCurrent /\ WhatIsSaved
      /\ WhatIsStaged /\ WhatIsKept /\ file \in InstallState
  BY DEF TypeInv, TypeOK, Calm
<1>1. /\ UNCHANGED <<treeVars, taskVars, envVars>> /\ phase = "down"
      /\ running' = current /\ file' = Bumped(file)
      /\ Pending(file)
      /\ stage.pc = "idle" /\ beat.pc = "idle" /\ fin.pc = "idle"
      /\ phase' \in {"up", "exhausted"}
      /\ phase' = "up" <=> Bumped(file).attempts <= MaxBootAttempts
  <2>1. phase = "down" /\ stage.pc = "idle" /\ beat.pc = "idle" /\ fin.pc = "idle"
    <3>1. phase = "down"
      BY DEF BootPending, BootExhausted
    <3> QED BY <1>0, <3>1 DEF TaskInv
  <2>2. CASE BootPending
    BY <2>1, <2>2 DEF BootPending, BootInto
  <2>3. CASE BootExhausted
    <3>1. Bumped(file).attempts > MaxBootAttempts /\ Bumped(file).attempts \in Nat
      BY <1>0, <2>3, Rewrites, UpgradeAssumption DEF BootExhausted, Lesser, InstallState
    <3> QED BY <2>1, <2>3, <3>1, UpgradeAssumption DEF BootExhausted
  <2> QED BY <2>2, <2>3
<1>2. ~ authed /\ ~ draining
  BY <1>0, <1>1 DEF WhatRuns
<1>3. /\ file'.current = file.current /\ file'.previous = file.previous
      /\ file'.sequence = file.sequence /\ file'.status = file.status
      /\ file'.health_age = file.health_age
      /\ file'.attempts = Lesser(file.attempts + 1, MaxBootAttempts + 1)
      /\ Pending(file') /\ Readable(file')
  <2>1. Bumped(file) = [file EXCEPT !.attempts = Bumped(file).attempts]
    BY <1>0, Rewrites
  <2>2. Bumped(file).attempts = Lesser(file.attempts + 1, MaxBootAttempts + 1)
    BY <1>0, Rewrites
  <2>3. /\ Bumped(file).current = file.current /\ Bumped(file).previous = file.previous
        /\ Bumped(file).sequence = file.sequence /\ Bumped(file).status = file.status
        /\ Bumped(file).health_age = file.health_age
    BY <1>0, <2>1 DEF InstallState
  <2> QED BY <1>1, <2>2, <2>3 DEF Pending, Readable, Statuses
<1>4. Countable /\ Countable' /\ MaxBootAttempts \in Nat \ {0} /\ file.attempts <= MaxBootAttempts + 1
  BY <1>0, TypesCount, TypesStillCount, UpgradeAssumption DEF InstallState
<1>5. Spent' <= Spent
  <2>1. file.attempts \in Nat
    BY <1>4 DEF Countable
  <2>2. CASE file.current \in Bad
    BY <1>3, <1>4, <2>2 DEF Spent, Countable
  <2>3. CASE file.current \notin Bad
    <3>1. Spent = file.attempts
      BY <1>1, <2>1, <2>3 DEF Spent
    <3>2. Spent' = file'.attempts - 1
      BY <1>1, <1>3, <1>4, <2>1, <2>3 DEF Spent, Lesser
    <3> QED BY <1>3, <1>4, <2>1, <3>1, <3>2 DEF Lesser
  <2> QED BY <2>2, <2>3
<1>6. MaxBootAttempts * Cardinality(Unfit') + Spent' <= (MaxBootAttempts + 1) * mishaps'
  <2>1. mishaps' = mishaps
    BY <1>1 DEF envVars
  <2>2. Unfit' \subseteq Unfit
    BY <1>1, <1>3 DEF Unfit, Base, Pending, Landed, treeVars, taskVars
  <2>3. Spent' - Spent <= mishaps' - mishaps /\ mishaps' >= mishaps
    <3>1. Spent \in Nat /\ Spent' \in Nat /\ mishaps \in Nat
      BY <1>4 DEF Countable
    <3>2. mishaps' - mishaps = 0 /\ mishaps' >= mishaps
      BY <2>1, <3>1
    <3>3. \A a, b \in Nat : a <= b => a - b <= 0
      OBVIOUS
    <3>4. Spent' - Spent <= 0
      BY <1>5, <3>1, <3>3
    <3> QED BY <3>2, <3>4
  <2> QED BY <1>0, <2>2, <2>3, BudgetKept
<1>7. WhatIsKept'
  BY <1>0, <1>1, <1>3, <1>6 DEF WhatIsKept, Pending, treeVars, taskVars
<1>8. phase' = "up" => current = file.current
  <2>1. phase' = "up" => ~ (file.attempts > MaxBootAttempts)
    BY <1>1, <1>3, <1>4 DEF Lesser, Countable
  <2> QED BY <1>0, <1>1, <2>1 DEF WhatIsCurrent
<1>9. WhatRuns' /\ WhatIsProven' /\ WhatIsSaved'
  BY <1>0, <1>1, <1>2, <1>3, <1>8
     DEF WhatRuns, WhatIsProven, WhatIsSaved, Pending, taskVars, envVars
<1>10. WhatIsCurrent'
  <2>1. phase' = "up" => file'.attempts <= MaxBootAttempts
    BY <1>1
  <2>2. phase' = "exhausted" => file'.attempts > MaxBootAttempts
    BY <1>1, <1>3, <1>4 DEF Countable, Lesser
  <2>3. current \in {file.current, file.previous}
    BY <1>0, <1>1 DEF WhatIsCurrent
  <2> QED BY <1>1, <1>3, <1>8, <2>1, <2>2, <2>3 DEF WhatIsCurrent, treeVars, taskVars
<1>11. WhatIsStaged'
  BY <1>0, <1>1, <1>3 DEF WhatIsStaged, Landed, taskVars
<1> QED BY <1>7, <1>9, <1>10, <1>11 DEF Calm

(* The rollback finds the directory it goes back to.                        *)
LEMMA CalmRevert ==
  ASSUME TypeInv, TypeOK', Calm, RevertToPrevious
  PROVE  Calm'
<1>0. /\ TypeOK /\ TaskInv /\ WhatRuns /\ WhatIsProven /\ WhatIsCurrent /\ WhatIsSaved
      /\ WhatIsStaged /\ WhatIsKept
  BY DEF TypeInv, Calm
<1>1. /\ UNCHANGED <<dirs, mtime, partials, file, running, taskVars, envVars>>
      /\ phase = "exhausted" /\ Pending(file) /\ file.attempts > MaxBootAttempts
      /\ stage.pc = "idle" /\ beat.pc = "idle" /\ fin.pc = "idle"
  BY <1>0 DEF RevertToPrevious, WhatIsCurrent, TaskInv
<1>2. current' = file.previous /\ phase' = "reverted"
  BY <1>0, <1>1 DEF RevertToPrevious, WhatIsKept
<1>3. WhatIsKept'
  <2>1. /\ UNCHANGED <<dirs, mtime, mishaps, file>> /\ ~ Landed /\ ~ Landed'
        /\ stage.pc # "save" /\ stage'.pc # "save"
    BY <1>1 DEF taskVars, envVars, Landed
  <2>2. Spent' = Spent
    BY <1>1, <1>2 DEF Spent, Pending
  <2> QED BY <1>0, <2>1, <2>2, KeptUntouched
<1>4. WhatRuns' /\ WhatIsProven' /\ WhatIsSaved'
  <2>1. ~ authed /\ ~ draining
    BY <1>0, <1>1 DEF WhatRuns
  <2>2. WhatRuns'
    BY <1>1, <1>2, <2>1 DEF WhatRuns, taskVars
  <2>3. WhatIsProven' /\ WhatIsSaved'
    BY <1>0, <1>1 DEF WhatIsProven, WhatIsSaved, Pending, PromotionDue, taskVars, envVars
  <2> QED BY <2>2, <2>3
<1>5. WhatIsCurrent'
  BY <1>1, <1>2 DEF WhatIsCurrent, Pending, taskVars
<1>6. WhatIsStaged'
  BY <1>0, <1>1 DEF WhatIsStaged, Landed, Readable, taskVars
<1> QED BY <1>3, <1>4, <1>5, <1>6 DEF Calm

(* The end of a rollback: what was rolled back is one directory more that   *)
(* came to nothing, paid for by MaxBootAttempts crashes unless it is bad.   *)
LEMMA CalmRolledBack ==
  ASSUME TypeInv, TypeOK', Calm, SaveRolledBack
  PROVE  Calm'
<1>0. /\ TypeOK /\ TaskInv /\ WhatRuns /\ WhatIsProven /\ WhatIsCurrent /\ WhatIsSaved
      /\ WhatIsStaged /\ WhatIsKept /\ file \in InstallState
  BY DEF TypeInv, TypeOK, Calm
<1>1. /\ UNCHANGED <<treeVars, envVars>> /\ phase = "reverted"
      /\ Pending(file) /\ file.attempts > MaxBootAttempts /\ current = file.previous
      /\ stage.pc = "idle"
      /\ phase' = "down" /\ ~ authed' /\ ~ draining'
      /\ stage'.pc = "idle" /\ beat'.pc = "idle" /\ fin'.pc = "idle"
      /\ file' = RolledBack(file, TRUE)
  BY <1>0, StageTypes DEF SaveRolledBack, ProcessGone, WhatIsCurrent, TaskInv
<1>2. /\ file'.current = file.previous /\ file'.previous = file.current
      /\ file'.sequence = file.sequence /\ ~ Pending(file') /\ Readable(file')
  BY <1>0, <1>1 DEF RolledBack, InstallState, Pending, Readable, Statuses
<1>3. Countable /\ Countable' /\ MaxBootAttempts \in Nat \ {0}
  BY <1>0, TypesCount, TypesStillCount, UpgradeAssumption
<1>4. Spent' = 0 /\ Base = file.previous /\ Base' = file.previous
  BY <1>1, <1>2 DEF Spent, Base
<1>5. Unfit' \subseteq (Unfit \cup {file.current}) \ Bad
  BY <1>1, <1>2, <1>4 DEF Unfit, Landed, treeVars
<1>6. MaxBootAttempts * Cardinality(Unfit') + Spent' <= (MaxBootAttempts + 1) * mishaps'
  <2>1. mishaps' = mishaps
    BY <1>1 DEF envVars
  <2>2. CASE file.current \in Bad
    <3>1. Unfit' \subseteq Unfit
      BY <1>5, <2>2
    <3> QED BY <1>0, <1>3, <1>4, <2>1, <3>1, BudgetKept DEF Countable
  <2>3. CASE file.current \notin Bad
    <3>1. Spent >= MaxBootAttempts
      BY <1>1, <1>3, <2>3 DEF Spent, Countable
    <3>2. Unfit \cup {file.current} \in SUBSET Versions /\ Unfit \in SUBSET Versions
      BY <1>3 DEF Countable
    <3>3. Unfit' \in SUBSET (Unfit \cup {file.current})
      BY <1>5
    <3>4. /\ Cardinality(Unfit') <= Cardinality(Unfit \cup {file.current})
          /\ Cardinality(Unfit \cup {file.current}) \in Nat
      BY <3>2, <3>3, SetsOfVersions
    <3>5. Cardinality(Unfit \cup {file.current}) <= Cardinality(Unfit) + 1
      BY <3>2, SetsOfVersions
    <3>6. Cardinality(Unfit') <= Cardinality(Unfit) + 1
      BY <1>3, <3>4, <3>5 DEF Countable
    <3>7. MaxBootAttempts * Cardinality(Unfit) + Spent <= (MaxBootAttempts + 1) * mishaps
      BY <1>0 DEF WhatIsKept
    <3> QED BY <1>3, <1>4, <2>1, <3>1, <3>6, <3>7, Budget DEF Countable
  <2> QED BY <2>2, <2>3
<1>7. WhatIsKept'
  <2>1. file.previous \in dirs
    BY <1>0, <1>1 DEF WhatIsKept
  <2> QED BY <1>1, <1>2, <1>6, <2>1 DEF WhatIsKept, treeVars
<1>8. WhatRuns' /\ WhatIsProven' /\ WhatIsSaved' /\ WhatIsCurrent'
  BY <1>0, <1>1, <1>2
     DEF WhatRuns, WhatIsProven, WhatIsSaved, WhatIsCurrent, treeVars, envVars
<1>9. WhatIsStaged'
  BY <1>0, <1>1, <1>2 DEF WhatIsStaged, Landed
<1> QED BY <1>7, <1>8, <1>9 DEF Calm

(* The version that runs reaches the manager: it is the one in state.json.  *)
LEMMA CalmAuth ==
  ASSUME TypeInv, TypeOK', Calm, faults = {}, Auth
  PROVE  Calm'
<1>0. /\ TypeOK /\ TaskInv /\ WhatRuns /\ WhatIsProven /\ WhatIsCurrent /\ WhatIsSaved
      /\ WhatIsStaged /\ WhatIsKept
  BY DEF TypeInv, Calm
<1>1. /\ UNCHANGED <<treeVars, file, phase, running, stage, draining, fin, faults, mishaps, high>>
      /\ phase = "up" /\ running \notin Bad /\ ~ draining
      /\ beat.pc = "idle" /\ fin.pc = "idle"
      /\ authed' /\ proven' = proven \cup {running}
      /\ beat'.pc # "idle" => beat'.snap = file
  BY StageTypes DEF Auth, NobodySaving
<1>2. running = file.current
  BY <1>0, <1>1 DEF WhatRuns
<1>3. WhatIsKept'
  <2>1. UNCHANGED <<dirs, mtime, mishaps, file, stage>> /\ Spent' = Spent
    BY <1>1 DEF treeVars, Spent, Pending
  <2>2. (Landed' <=> Landed) /\ (stage'.pc = "save" <=> stage.pc = "save")
    BY <1>1 DEF Landed
  <2> QED BY <1>0, <2>1, <2>2, KeptUntouched
<1>4. WhatRuns' /\ WhatIsProven' /\ WhatIsSaved' /\ WhatIsCurrent'
  <2>1. WhatRuns'
    BY <1>0, <1>1 DEF WhatRuns
  <2>2. WhatIsProven'
    BY <1>0, <1>1, <1>2 DEF WhatIsProven, Pending
  <2>3. WhatIsSaved'
    BY <1>0, <1>1 DEF WhatIsSaved
  <2>4. WhatIsCurrent'
    BY <1>0, <1>1 DEF WhatIsCurrent, Pending, treeVars
  <2> QED BY <2>1, <2>2, <2>3, <2>4
<1>5. WhatIsStaged'
  BY <1>0, <1>1 DEF WhatIsStaged, Landed, Readable, treeVars
<1> QED BY <1>3, <1>4, <1>5 DEF Calm

(* A step that writes only the times in state.json, and has no rewrite      *)
(* under way that it makes stale.                                           *)
LEMMA CalmTimes ==
  ASSUME TypeInv, TypeOK', Calm,
         UNCHANGED <<treeVars, phase, running, authed, stage, draining, faults, mishaps, proven>>,
         file'.current = file.current, file'.previous = file.previous,
         file'.status = file.status, file'.attempts = file.attempts,
         file'.sequence = file.sequence,
         ~ Readable(file) => file' = file,
         file'.health_age # Never /\ file.health_age = Never
            => ~ draining /\ file.current \in proven,
         beat'.pc # "idle" => authed,
         draining => beat'.pc = "idle" /\ fin'.pc = "idle",
         WhatIsSaved'
  PROVE  Calm'
<1>0. /\ TypeOK /\ TaskInv /\ WhatRuns /\ WhatIsProven /\ WhatIsCurrent /\ WhatIsSaved
      /\ WhatIsStaged /\ WhatIsKept
  BY DEF TypeInv, Calm
<1>1. Pending(file') <=> Pending(file)
  BY DEF Pending
<1>2. WhatIsKept'
  <2>1. UNCHANGED <<dirs, mtime, mishaps, stage>> /\ Spent' = Spent
    BY DEF treeVars, Spent, Pending
  <2>2. (Landed' <=> Landed) /\ (stage'.pc = "save" <=> stage.pc = "save")
    BY DEF Landed
  <2> QED BY <1>0, <1>1, <2>1, <2>2, KeptUntouched
<1>3. WhatRuns'
  BY <1>0, <1>1 DEF WhatRuns
<1>4. WhatIsProven'
  BY <1>0, <1>1 DEF WhatIsProven
<1>5. WhatIsCurrent'
  BY <1>0, <1>1 DEF WhatIsCurrent, treeVars
<1>6. WhatIsStaged'
  BY <1>0 DEF WhatIsStaged, Landed, Readable, treeVars
<1> QED BY <1>2, <1>3, <1>4, <1>5, <1>6 DEF Calm

LEMMA CalmBeat ==
  ASSUME TypeInv, TypeOK', Calm, BeatSave
  PROVE  Calm'
<1>0. /\ TypeOK /\ WhatRuns /\ WhatIsSaved /\ WhatIsProven /\ file \in InstallState
  BY DEF TypeInv, TypeOK, Calm
<1>1. /\ UNCHANGED <<treeVars, phase, running, authed, stage, draining, fin, envVars>>
      /\ beat.pc = "loaded" /\ beat.snap = file /\ file' = Beaten(file)
      /\ beat'.pc = "idle" /\ fin.pc = "idle"
  BY <1>0, StageTypes DEF BeatSave, WhatIsSaved
<1>2. authed /\ ~ draining /\ file.current \in proven
  BY <1>0, <1>1 DEF WhatRuns
<1>3. /\ file'.current = file.current /\ file'.previous = file.previous
      /\ file'.status = file.status /\ file'.attempts = file.attempts
      /\ file'.sequence = file.sequence
      /\ ~ Readable(file) => file' = file
  <2>1. CASE Pending(file)
    BY <1>0, <1>1, <2>1 DEF Beaten, InstallState, Pending, Readable, Statuses
  <2>2. CASE ~ Pending(file)
    BY <1>1, <2>2 DEF Beaten
  <2> QED BY <2>1, <2>2
<1>4. WhatIsSaved'
  BY <1>1 DEF WhatIsSaved
<1>5. UNCHANGED <<faults, mishaps, proven>>
  BY <1>1 DEF envVars
<1> QED BY <1>1, <1>2, <1>3, <1>4, <1>5, CalmTimes

LEMMA CalmTick ==
  ASSUME TypeInv, TypeOK', Calm, Tick
  PROVE  Calm'
<1>0. /\ TypeOK /\ file \in InstallState
  BY DEF TypeInv, TypeOK
<1>1. /\ UNCHANGED <<treeVars, phase, running, authed, stage, draining, beat, fin, envVars>>
      /\ beat.pc = "idle" /\ fin.pc = "idle" /\ file' = Older(file) /\ Readable(file)
  BY DEF Tick, processVars, taskVars, Pending, Readable, Statuses
<1>2. /\ file'.current = file.current /\ file'.previous = file.previous
      /\ file'.status = file.status /\ file'.attempts = file.attempts
      /\ file'.sequence = file.sequence
      /\ file.health_age = Never => file'.health_age = Never
  BY <1>0, <1>1, Rewrites
<1>3. WhatIsSaved'
  BY <1>1 DEF WhatIsSaved
<1>4. UNCHANGED <<faults, mishaps, proven>>
  BY <1>1 DEF envVars
<1> QED BY <1>1, <1>2, <1>3, <1>4, CalmTimes

(* The finalizer looks at, and loads, a record that is due: a process about *)
(* to exit has none.                                                        *)
LEMMA CalmFinalize ==
  ASSUME TypeInv, TypeOK', Calm, faults = {}, FinalizeCheck \/ PromoteLoad
  PROVE  Calm'
<1>0. /\ TypeOK /\ WhatRuns /\ WhatIsSaved
  BY DEF TypeInv, Calm
<1>1. /\ UNCHANGED <<treeVars, file, phase, running, authed, stage, draining, beat, envVars>>
      /\ PromotionDue(file)
      /\ beat.pc = "idle"
      /\ fin'.pc = "loaded" => fin'.snap = file
  <2>1. CASE FinalizeCheck
    BY <2>1 DEF FinalizeCheck, NobodySaving, NoRmw
  <2>2. CASE PromoteLoad
    BY <1>0, <2>2 DEF PromoteLoad, WhatIsSaved
  <2> QED BY <2>1, <2>2
<1>2. ~ draining
  BY <1>0, <1>1 DEF WhatRuns, PromotionDue
<1>3. WhatIsSaved'
  BY <1>0, <1>1 DEF WhatIsSaved, PromotionDue, Pending
<1>4. UNCHANGED <<faults, mishaps, proven>>
  BY <1>1 DEF envVars
<1> QED BY <1>1, <1>2, <1>3, <1>4, CalmTimes

(* The promotion: the version that waited is the one that runs for good.    *)
LEMMA CalmPromote ==
  ASSUME TypeInv, TypeOK', Calm, PromoteSave
  PROVE  Calm'
<1>0. /\ TypeOK /\ TaskInv /\ WhatRuns /\ WhatIsProven /\ WhatIsCurrent /\ WhatIsSaved
      /\ WhatIsStaged /\ WhatIsKept /\ file \in InstallState
  BY DEF TypeInv, TypeOK, Calm
<1>1. /\ UNCHANGED <<treeVars, phase, running, authed, stage, draining, beat, envVars>>
      /\ fin.pc = "loaded" /\ fin.snap = file /\ file' = [file EXCEPT !.status = "stable"]
      /\ fin'.pc = "idle" /\ beat.pc = "idle" /\ PromotionDue(file)
  BY <1>0, StageTypes DEF PromoteSave, WhatIsSaved
<1>2. /\ file'.current = file.current /\ file'.previous = file.previous
      /\ file'.sequence = file.sequence /\ ~ Pending(file') /\ Readable(file')
  BY <1>0, <1>1 DEF InstallState, Pending, Readable, Statuses
<1>3. Pending(file) /\ ~ draining /\ file.current \in proven /\ phase = "up"
  BY <1>0, <1>1 DEF WhatRuns, WhatIsProven, PromotionDue, TaskInv
<1>4. Countable /\ Countable' /\ Spent' = 0 /\ mishaps' = mishaps
  BY <1>0, <1>1, <1>2, TypesCount, TypesStillCount DEF Spent, envVars
<1>5. Unfit' \subseteq Unfit
  <2> SUFFICES ASSUME NEW w \in Unfit' PROVE w \in Unfit
    OBVIOUS
  <2>1. Base' = file.current /\ Base = file.previous
    BY <1>2, <1>3 DEF Base
  <2>2. /\ w \in dirs \ Bad /\ mtime[w] > mtime[file.current] /\ w # file.current
        /\ Landed => w # stage.target
    BY <1>1, <1>2, <2>1 DEF Unfit, Landed, treeVars
  <2>3. mtime[w] \in Nat /\ mtime[file.current] \in Nat /\ mtime[file.previous] \in Nat
    BY <1>0, <2>2 DEF TypeOK, InstallState
  <2>4. mtime[w] > mtime[Base]
    BY <1>0, <1>3, <2>1, <2>2, <2>3 DEF WhatIsKept
  <2> QED BY <2>2, <2>4 DEF Unfit
<1>6. MaxBootAttempts * Cardinality(Unfit') + Spent' <= (MaxBootAttempts + 1) * mishaps'
  BY <1>0, <1>4, <1>5, BudgetKept DEF Countable
<1>7. WhatIsKept'
  BY <1>0, <1>1, <1>2, <1>6 DEF WhatIsKept, treeVars
<1>8. WhatRuns'
  <2>1. ~ draining'
    BY <1>1, <1>3
  <2>2. running' = file'.current
    BY <1>0, <1>1, <1>2, <1>3 DEF WhatRuns
  <2>3. authed' => phase' = "up" /\ running' \in proven'
    BY <1>0, <1>1 DEF WhatRuns, envVars
  <2>4. (stage'.pc # "idle" => authed') /\ (beat'.pc # "idle" => authed')
    BY <1>0, <1>1 DEF WhatRuns
  <2> QED BY <2>1, <2>2, <2>3, <2>4 DEF WhatRuns
<1>9. WhatIsProven' /\ WhatIsSaved'
  BY <1>0, <1>1, <1>2, <1>3 DEF WhatIsProven, WhatIsSaved, envVars
<1>10. WhatIsCurrent'
  BY <1>0, <1>1, <1>2, <1>3 DEF WhatIsCurrent, treeVars
<1>11. WhatIsStaged'
  BY <1>0, <1>1, <1>2 DEF WhatIsStaged, Landed, treeVars
<1> QED BY <1>7, <1>8, <1>9, <1>10, <1>11 DEF Calm

LEMMA CalmInit == Init /\ faults = {} => Calm
<1> SUFFICES ASSUME Init, faults = {} PROVE Calm
  OBVIOUS
<1>1. /\ file.current = 1 /\ file.previous = 1 /\ file.sequence = 1 /\ ~ Pending(file)
      /\ ~ Readable(file) /\ file = NoFile
      /\ stage.pc = "idle" /\ beat.pc = "idle" /\ fin.pc = "idle"
  BY DEF Init, NoFile, NoStage, NoRmw, Pending, Readable, Statuses
<1>2. Unfit = {} /\ Spent = 0 /\ mishaps = 0
  <2>1. dirs = {1} /\ mishaps = 0
    BY DEF Init
  <2>2. Spent = 0
    BY <1>1 DEF Spent
  <2> QED BY <1>1, <2>1, <2>2 DEF Unfit
<1>3. MaxBootAttempts * Cardinality(Unfit) + Spent <= (MaxBootAttempts + 1) * mishaps
  BY <1>2, FS_EmptySet, UpgradeAssumption
<1>4. WhatIsKept
  BY <1>1, <1>3 DEF WhatIsKept, Init
<1>5. WhatRuns
  BY <1>1 DEF WhatRuns, Init
<1>6. WhatIsProven
  BY <1>1, UpgradeAssumption DEF WhatIsProven, Init
<1>7. WhatIsCurrent
  BY <1>1 DEF WhatIsCurrent, Init
<1>8. WhatIsSaved /\ WhatIsStaged
  BY <1>1 DEF WhatIsSaved, WhatIsStaged, Landed
<1> QED BY <1>4, <1>5, <1>6, <1>7, <1>8 DEF Calm

LEMMA CalmStep ==
  ASSUME FewFailures, TypeInv, TypeOK', CalmInv, [Next]_vars
  PROVE  CalmInv'
<1> SUFFICES ASSUME faults' = {} PROVE Calm'
  BY DEF CalmInv
<1>0. faults = {} /\ Calm
  <2>1. faults' = faults
    BY DEF Next, StageRequest, StageSteps, StageExtract, StageInstall, StageSwap, StageGc,
           StageSave, StageAbort, StageWriteFails, ExitForRespawn, Crash, BadDies, BootSteps,
           BootNormal, BootAfterRollback, BootPending, BootExhausted, BootInto,
           RevertToPrevious, SaveRolledBack, BootTornBump, BootSaveFails, RevertFails, RollbackSaveFails,
           WriteFails, Auth, BeatSave, FinalizeCheck, PromoteLoad, PromoteSave, UpdateFails,
           Tick, vars, envVars
  <2> QED BY <2>1 DEF CalmInv
<1>1. CASE \E v \in Versions : StageRequest(v)
  BY <1>0, <1>1, CalmRequest
<1>2. CASE StageSteps
  BY <1>0, <1>2, CalmExtract, CalmInstall, CalmSwap, CalmGc, CalmSave DEF StageSteps
<1>3. CASE BootSteps
  BY <1>0, <1>3, CalmBootSettled, CalmBootPending, CalmRevert, CalmRolledBack DEF BootSteps
<1>4. CASE \/ StageWriteFails \/ BootTornBump \/ BootSaveFails \/ RevertFails \/ RollbackSaveFails
           \/ UpdateFails
  BY <1>0, <1>4
     DEF StageWriteFails, BootTornBump, BootSaveFails, RevertFails, RollbackSaveFails, UpdateFails, WriteFails
<1>5. CASE UNCHANGED vars
  <2>1. /\ UNCHANGED <<treeVars, phase, running, authed, stage, draining, faults, mishaps, proven>>
        /\ UNCHANGED <<file, beat, fin>>
    BY <1>5 DEF vars, processVars, taskVars, envVars
  <2>2. WhatIsSaved' /\ WhatRuns
    BY <1>0, <2>1 DEF Calm, WhatIsSaved, PromotionDue, Pending
  <2>3. /\ beat'.pc # "idle" => authed
        /\ draining => beat'.pc = "idle" /\ fin'.pc = "idle"
    BY <2>1, <2>2 DEF WhatRuns
  <2> QED BY <1>0, <2>1, <2>2, <2>3, CalmTimes
<1> QED BY <1>0, <1>1, <1>2, <1>3, <1>4, <1>5, CalmAbort, CalmExit, CalmCrash, CalmBadDies,
           CalmAuth, CalmBeat, CalmFinalize, CalmPromote, CalmTick DEF Next

LEMMA CalmHolds ==
  ASSUME FewFailures
  PROVE  Spec => [](TypeInv /\ CalmInv)
<1>1. Init => TypeInv /\ CalmInv
  BY TypeInit, CalmInit DEF CalmInv
<1>2. TypeInv /\ CalmInv /\ [Next]_vars => TypeInv' /\ CalmInv'
  <2> SUFFICES ASSUME TypeInv, CalmInv, [Next]_vars PROVE TypeInv' /\ CalmInv'
    OBVIOUS
  <2>1. TypeInv' /\ TypeOK'
    BY TypeStep DEF TypeInv
  <2> QED BY <2>1, CalmStep
<1> QED BY <1>1, <1>2, PTL DEF Spec

(* As long as few releases fail, a version that waits for its health has    *)
(* the directory of the one it would be rolled back to: whatever is staged, *)
(* crashes, is rolled back or promoted in whatever order, gc_versions keeps *)
(* it, since fewer than Keep directories are newer.                         *)
THEOREM RollbackTargetStays ==
  ASSUME FewFailures
  PROVE  Spec => []RollbackTargetKept
<1>1. TypeInv /\ CalmInv => RollbackTargetKept
  BY DEF CalmInv, Calm, WhatIsKept, RollbackTargetKept
<1> QED BY <1>1, CalmHolds, PTL

(* A version that never reached the manager runs under the watchdog: the    *)
(* record that counts its boots says pending_health, and names it.  What a  *)
(* rollback starts has been at the manager before.                          *)
THEOREM NewVersionsAreGuarded ==
  ASSUME FewFailures
  PROVE  Spec => []GuardedWithoutFaults
<1>1. TypeInv /\ CalmInv => GuardedWithoutFaults
  <2> SUFFICES ASSUME CalmInv, faults = {}, phase = "up", running \notin proven
               PROVE  Pending(file) /\ file.current = running
    BY DEF GuardedWithoutFaults, NewVersionGuarded
  <2>1. WhatRuns /\ WhatIsProven
    BY DEF CalmInv, Calm
  <2> QED BY <2>1 DEF WhatRuns, WhatIsProven
<1> QED BY <1>1, CalmHolds, PTL
=============================================================================
