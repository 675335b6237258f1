------------------------------ MODULE Upgrade ------------------------------
(***************************************************************************)
(* Remote upgrade of the edge binary (upgrade/): the staging pipeline, the *)
(* install tree on disk, state.json, the boot watchdog that rolls a bad    *)
(* version back, and the periodic task that promotes a healthy one.        *)
(*                                                                         *)
(* Disk state survives a crash; process state does not.  Each action that  *)
(* touches the disk is one durable step of the code, so a crash can fall   *)
(* between any two of them.  Tasks of one process interleave: the staging  *)
(* task, the manager client's health beat and the periodic finalizer each  *)
(* read state.json, and write it back in a later step.                     *)
(*                                                                         *)
(* A crash is the process's: what it has written survives.  After a loss   *)
(* of power it need not, since stage_new_version syncs the directory it    *)
(* unpacks into but not the binary's contents.                             *)
(*                                                                         *)
(* upgrades.enabled is set and manual_only is not: no code writes the      *)
(* staged_manual status.  systemd is external: it starts `current` again   *)
(* whenever the process is gone.                                           *)
(***************************************************************************)
EXTENDS Integers, FiniteSets

CONSTANTS MaxVersion,      \* minor releases 1..MaxVersion of one major version
          Bad,             \* releases that die before they reach the manager
          Keep,            \* version directories gc_versions keeps: 3 in the code
          MaxBootAttempts, \* cfg.max_boot_attempts
          RollbackGrace,   \* cfg.rollback_grace
          MinVersion,      \* cfg.min_version
          HealthWindow,    \* cfg.boot_health_window_secs, in ticks
          FreshFor,        \* how old the last beat may be at promotion: 60 s, in ticks
          Faults,          \* the misfortunes a behaviour may suffer, one of them each
          MaxMishaps       \* crashes of a healthy process and failed writes, over a behaviour

Versions == 1 .. MaxVersion

\* crash_in_swap  a crash after the symlink swap and before state.json is saved
\* save_fails     writes of state.json or of the symlink return errors
\* torn_bump      bump_boot_attempts crashes or fails after its set_len(0)
\* race           a task saves state.json between another's load and its save
\* double_stage   another upgrade is requested in the 5 s before the exit
\* late_auth      the old process authenticates again in those 5 s
AllFaults == {"crash_in_swap", "save_fails", "torn_bump", "race", "double_stage", "late_auth"}

ASSUME UpgradeAssumption ==
    /\ MaxVersion \in Nat \ {0}
    /\ Bad \subseteq Versions \ {1}
    /\ Keep \in Nat /\ MaxBootAttempts \in Nat \ {0}
    /\ RollbackGrace \in Nat /\ MinVersion \in Nat
    /\ HealthWindow \in Nat /\ FreshFor \in Nat
    /\ Faults \subseteq AllFaults
    /\ MaxMishaps \in Nat

None  == 0   \* no version
Never == -1  \* no health beat yet

Statuses == {"stable", "pending_health", "rolled_back"}

\* state.json.  Times are ages in ticks, kept up to where they stop mattering.
InstallState ==
    [current : Versions, previous : Versions, status : Statuses \cup {"unreadable"},
     attempts : 0 .. MaxBootAttempts + 1, sequence : Versions,
     staged_age : 0 .. HealthWindow, health_age : Never .. FreshFor + 1]

\* No file before the first upgrade; an empty one after a torn write.
NoFile == [current |-> 1, previous |-> 1, status |-> "unreadable", attempts |-> 0,
           sequence |-> 1, staged_age |-> 0, health_age |-> Never]

VARIABLES
    \* on disk
    current,  \* the version the `current` symlink points at
    dirs,     \* versions with a directory
    mtime,    \* per version, the order in which the directories were written
    partials, \* versions with a .partial directory
    file,     \* state.json
    \* of the running process
    phase,    \* "down", "up", or how far the boot watchdog's rollback got
    running,  \* the version that runs
    authed,   \* the process has authenticated to the manager
    stage,    \* the staging task
    draining, \* staging succeeded; the process is about to exit
    beat,     \* record_healthy_beat, between its load and its save
    fin,      \* finalize_if_stable, between its loads and its save
    \* of the environment, and for the properties
    faults, mishaps,
    proven,   \* the first install, and versions that reached the manager
    high      \* the highest manifest sequence a staging has recorded in state.json

treeVars    == <<current, dirs, mtime, partials>>
taskVars    == <<authed, stage, draining, beat, fin>>
processVars == <<phase, running, taskVars>>
envVars     == <<faults, mishaps, proven, high>>
vars        == <<treeVars, file, processVars, envVars>>

Readable(f) == f.status \in Statuses
Pending(f)  == f.status = "pending_health"

NoStage == [pc |-> "idle", target |-> None, prev |-> None]
NoRmw   == [pc |-> "idle", snap |-> NoFile]

Lesser(a, b) == IF a <= b THEN a ELSE b

\* The manifest's sequence grows with every release.
Sequence(v) == v

Mishap == mishaps < MaxMishaps /\ mishaps' = mishaps + 1

\* state.json, or the symlink, is not written: there is no space, or its tempfile
\* is in the way.
WriteFails == "save_fails" \in faults /\ Mishap /\ UNCHANGED <<file, faults, proven, high>>

\* No task is between a load of state.json and the save that follows it.
NobodySaving == "race" \in faults \/ (beat.pc = "idle" /\ fin.pc = "idle")

----------------------------------------------------------------------------
(* Staging: UpgradeCoordinator::stage and apply::stage_new_version. *)

CheckVersionWindow(target, now_running) ==
    /\ target >= MinVersion
    /\ target # now_running
    /\ target + RollbackGrace >= now_running

\* Mutant: the last accepted sequence is accepted again.
RequestReplayed(v) ==
    /\ phase = "up" /\ authed
    /\ stage.pc = "idle"
    /\ draining => "double_stage" \in faults
    /\ CheckVersionWindow(v, running)
    /\ Readable(file) => Sequence(v) >= file.sequence
    /\ stage' = [pc |-> "fetching", target |-> v,
                 prev |-> IF Readable(file) THEN file.current ELSE running]
    /\ UNCHANGED <<treeVars, file, phase, running, authed, draining, beat, fin, envVars>>

\* The request passes the policy gate and the sequence check against state.json.
StageRequest(v) ==
    /\ phase = "up" /\ authed
    /\ stage.pc = "idle"
    /\ draining => "double_stage" \in faults
    /\ CheckVersionWindow(v, running)
    /\ Readable(file) => Sequence(v) > file.sequence
    /\ stage' = [pc |-> "fetching", target |-> v,
                 prev |-> IF Readable(file) THEN file.current ELSE running]
    /\ UNCHANGED <<treeVars, file, phase, running, authed, draining, beat, fin, envVars>>

\* The manifest, the signature or the tarball is refused; or the tarball does
\* not unpack, and its partial directory stays.
StageAbort ==
    /\ stage.pc \in {"fetching", "partial"}
    /\ stage' = NoStage
    /\ UNCHANGED <<treeVars, file, phase, running, authed, draining, beat, fin, envVars>>

\* Mutant: the target's directory is removed also if it is the live one.
ExtractOverLive ==
    /\ stage.pc = "fetching"
    /\ stage'    = [stage EXCEPT !.pc = "partial"]
    /\ partials' = partials \cup {stage.target}
    /\ dirs'     = dirs \ {stage.target}
    /\ UNCHANGED <<current, mtime, file, phase, running, authed, draining, beat, fin, envVars>>

\* Unpack into versions/<v>.partial, unless <v> is the live version already.
StageExtract ==
    /\ stage.pc = "fetching"
    /\ IF stage.target \in dirs /\ current = stage.target
       THEN /\ stage' = [stage EXCEPT !.pc = "save"]
            /\ partials' = partials \ {stage.target}
            /\ UNCHANGED dirs
       ELSE /\ stage' = [stage EXCEPT !.pc = "partial"]
            /\ partials' = partials \cup {stage.target}
            /\ dirs' = dirs \ {stage.target}
    /\ UNCHANGED <<current, mtime, file, phase, running, authed, draining, beat, fin, envVars>>

\* The order of the directories, with v the newest.
Stamp(v) ==
    LET others == dirs \ {v}
    IN  [w \in Versions |->
            IF w = v THEN 1 + Cardinality(others)
            ELSE IF w \in others THEN Cardinality({x \in others : mtime[x] <= mtime[w]})
            ELSE 0]

\* Rename versions/<v>.partial to versions/<v>.
StageInstall ==
    /\ stage.pc = "partial"
    /\ partials' = partials \ {stage.target}
    /\ dirs'     = dirs \cup {stage.target}
    /\ mtime'    = Stamp(stage.target)
    /\ stage'    = [stage EXCEPT !.pc = "installed"]
    /\ UNCHANGED <<current, file, phase, running, authed, draining, beat, fin, envVars>>

\* swap_current_symlink.  The `previous` symlink it also writes is read by no code.
StageSwap ==
    /\ stage.pc = "installed"
    /\ current' = stage.target
    /\ stage'   = [stage EXCEPT !.pc = "swapped"]
    /\ UNCHANGED <<dirs, mtime, partials, file, phase, running, authed, draining, beat, fin,
                   envVars>>

\* Mutant: one directory fewer is kept.
NewestButOne(live) ==
    LET others == dirs \ {live}
    IN  {v \in others : Cardinality({w \in others : mtime[w] > mtime[v]}) < Keep - 1}

\* gc_versions: the live version and the Keep newest others stay; no partial does.
Newest(live) ==
    LET others == dirs \ {live}
    IN  {v \in others : Cardinality({w \in others : mtime[w] > mtime[v]}) < Keep}

GcVersions(live) ==
    /\ dirs'     = (dirs \cap {live}) \cup Newest(live)
    /\ partials' = {}

StageGc ==
    /\ stage.pc = "swapped"
    /\ GcVersions(stage.target)
    /\ stage' = [stage EXCEPT !.pc = "save"]
    /\ UNCHANGED <<current, mtime, file, phase, running, authed, draining, beat, fin, envVars>>

\* The record of a version just staged.
Staged(target, prev) ==
    [current |-> target, previous |-> prev, status |-> "pending_health", attempts |-> 0,
     sequence |-> Sequence(target), staged_age |-> 0, health_age |-> Never]

StageSave ==
    /\ stage.pc = "save"
    /\ NobodySaving
    /\ file'     = Staged(stage.target, stage.prev)
    /\ draining' = TRUE
    /\ stage'    = NoStage
    /\ high'     = IF Sequence(stage.target) > high THEN Sequence(stage.target) ELSE high
    /\ UNCHANGED <<treeVars, phase, running, authed, beat, fin, faults, mishaps, proven>>

\* The swap of the symlink, whose target stays installed, or the save returns an
\* error: so does the staging, and the process goes on.
StageWriteFails ==
    /\ stage.pc \in {"installed", "save"}
    /\ WriteFails
    /\ stage' = NoStage
    /\ UNCHANGED <<treeVars, phase, running, authed, draining, beat, fin>>

----------------------------------------------------------------------------
(* The process ends. *)

ProcessGone ==
    /\ phase' = "down" /\ running' = None
    /\ authed' = FALSE /\ draining' = FALSE
    /\ stage' = NoStage /\ beat' = NoRmw /\ fin' = NoRmw

\* The manager client's exit(0), 5 s after the staging.
ExitForRespawn ==
    /\ draining
    /\ ProcessGone
    /\ UNCHANGED <<treeVars, file, envVars>>

Crash ==
    /\ phase # "down"
    /\ stage.pc \in {"swapped", "save"} => "crash_in_swap" \in faults
    /\ Mishap
    /\ ProcessGone
    /\ UNCHANGED <<treeVars, file, faults, proven, high>>

BadDies ==
    /\ phase = "up" /\ running \in Bad
    /\ ProcessGone
    /\ UNCHANGED <<treeVars, file, envVars>>

----------------------------------------------------------------------------
(* run_boot_watchdog, in the process systemd starts from `current`. *)

\* The watchdog lets the process go on, with f in state.json.
BootInto(f) ==
    /\ phase' = "up" /\ running' = current
    /\ file'  = f
    /\ UNCHANGED <<treeVars, taskVars, envVars>>

\* Nothing pending: no readable state.json, or a stable one.
BootNormal ==
    /\ phase = "down"
    /\ Readable(file) => file.status = "stable"
    /\ BootInto(file)

BootAfterRollback ==
    /\ phase = "down"
    /\ file.status = "rolled_back"
    /\ BootInto([file EXCEPT !.status = "stable", !.attempts = 0])

\* Mutant: the count of boot attempts is not written back.
NotBumped(f) == f

\* bump_boot_attempts
Bumped(f) == [f EXCEPT !.attempts = Lesser(f.attempts + 1, MaxBootAttempts + 1)]

BootPending ==
    /\ phase = "down"
    /\ Pending(file)
    /\ Bumped(file).attempts <= MaxBootAttempts
    /\ BootInto(Bumped(file))

BootExhausted ==
    /\ phase = "down"
    /\ Pending(file)
    /\ Bumped(file).attempts > MaxBootAttempts
    /\ phase' = "exhausted" /\ running' = current
    /\ file'  = Bumped(file)
    /\ UNCHANGED <<treeVars, taskVars, envVars>>

\* state.json is left empty: the process dies there, or the write fails and, as
\* its error is only logged, the boot goes on.
BootTornBump ==
    /\ phase = "down"
    /\ Pending(file)
    /\ "torn_bump" \in faults
    /\ Mishap
    /\ file' = NoFile
    /\ \/ UNCHANGED <<phase, running>>
       \/ phase' = "up" /\ running' = current
    /\ UNCHANGED <<treeVars, taskVars, faults, proven, high>>

\* revert_to_previous swaps the symlink, if the directory is still there.
RevertToPrevious ==
    /\ phase = "exhausted"
    /\ IF file.previous \in dirs
       THEN current' = file.previous /\ phase' = "reverted"
       ELSE UNCHANGED current        /\ phase' = "revert_failed"
    /\ UNCHANGED <<dirs, mtime, partials, file, running, taskVars, envVars>>

\* The symlink cannot be written.
RevertFails ==
    /\ phase = "exhausted"
    /\ WriteFails
    /\ phase' = "revert_failed"
    /\ UNCHANGED <<treeVars, running, taskVars>>

\* The watchdog saves what it loaded before the bump, and exits, whether or
\* not the symlink was swapped.
RolledBack(f, reverted) ==
    [f EXCEPT !.status   = "rolled_back",
              !.attempts = f.attempts - 1,
              !.current  = IF reverted THEN f.previous ELSE f.current,
              !.previous = IF reverted THEN f.current ELSE f.previous]

SaveRolledBack ==
    /\ phase \in {"reverted", "revert_failed"}
    /\ file' = RolledBack(file, phase = "reverted")
    /\ ProcessGone
    /\ UNCHANGED <<treeVars, envVars>>

\* The watchdog's own writes may fail: the error of the bump is logged, the one
\* of a save ignored, and the boot or the exit goes on.
BootSaveFails ==
    /\ phase = "down"
    /\ file.status \in {"pending_health", "rolled_back"}
    /\ WriteFails
    /\ phase' = "up" /\ running' = current
    /\ UNCHANGED <<treeVars, taskVars>>

RollbackSaveFails ==
    /\ phase \in {"reverted", "revert_failed"}
    /\ WriteFails
    /\ ProcessGone
    /\ UNCHANGED treeVars

----------------------------------------------------------------------------
(* Health: record_healthy_beat and finalize_if_stable. *)

\* auth_ok on a connection of the manager client, and the load of the beat.
Auth ==
    /\ phase = "up" /\ running \notin Bad
    /\ draining => "late_auth" \in faults
    /\ beat.pc = "idle" /\ NobodySaving
    /\ authed' = TRUE
    /\ proven' = proven \cup {running}
    /\ beat'   = IF Readable(file) THEN [pc |-> "loaded", snap |-> file] ELSE NoRmw
    /\ UNCHANGED <<treeVars, file, phase, running, stage, draining, fin, faults, mishaps, high>>

\* The record a beat leaves: last_health_at is set while the health is pending.
Beaten(f) == IF Pending(f) THEN [f EXCEPT !.health_age = 0] ELSE f

BeatSave ==
    /\ beat.pc = "loaded"
    /\ file' = Beaten(beat.snap)
    /\ beat' = NoRmw
    /\ UNCHANGED <<treeVars, phase, running, authed, stage, draining, fin, envVars>>

\* Mutant: a version is promoted without a beat.
DueWithoutBeat(f) == Pending(f) /\ f.staged_age >= HealthWindow

\* Mutant: a beat exactly as old as allowed is not fresh.
DueBeforeLimit(f) ==
    /\ Pending(f)
    /\ f.health_age # Never
    /\ f.staged_age >= HealthWindow
    /\ f.health_age < FreshFor

\* finalize_if_stable's conditions.
PromotionDue(f) ==
    /\ Pending(f)
    /\ f.health_age # Never
    /\ f.staged_age >= HealthWindow
    /\ f.health_age <= FreshFor

FinalizeCheck ==
    /\ phase = "up"
    /\ fin.pc = "idle" /\ NobodySaving
    /\ PromotionDue(file)
    /\ fin' = [NoRmw EXCEPT !.pc = "due"]
    /\ UNCHANGED <<treeVars, file, phase, running, authed, stage, draining, beat, envVars>>

\* state::update loads the file again, and promotes what it finds.
PromoteLoad ==
    /\ fin.pc = "due"
    /\ fin' = [pc |-> "loaded", snap |-> file]
    /\ UNCHANGED <<treeVars, file, phase, running, authed, stage, draining, beat, envVars>>

PromoteSave ==
    /\ fin.pc = "loaded"
    /\ file' = [fin.snap EXCEPT !.status = "stable"]
    /\ fin'  = NoRmw
    /\ UNCHANGED <<treeVars, phase, running, authed, stage, draining, beat, envVars>>

\* update's error is ignored, by the beat and by the promotion.
UpdateFails ==
    /\ WriteFails
    /\ \/ beat.pc = "loaded" /\ beat' = NoRmw /\ UNCHANGED fin
       \/ fin.pc = "loaded"  /\ fin'  = NoRmw /\ UNCHANGED beat
    /\ UNCHANGED <<treeVars, phase, running, authed, stage, draining>>

\* Time passes: not while a record is being rewritten, and not past a
\* promotion that is due, since the finalizer looks every 5 s.
Older(f) ==
    [f EXCEPT !.staged_age = Lesser(f.staged_age + 1, HealthWindow),
              !.health_age = IF f.health_age = Never THEN Never
                             ELSE Lesser(f.health_age + 1, FreshFor + 1)]

Tick ==
    /\ beat.pc = "idle" /\ fin.pc = "idle"
    /\ phase = "up" => ~ PromotionDue(file)
    /\ Pending(file)
    /\ file' = Older(file)
    /\ UNCHANGED <<treeVars, processVars, envVars>>

----------------------------------------------------------------------------

Init ==
    /\ current = 1 /\ dirs = {1} /\ mtime = [v \in Versions |-> IF v = 1 THEN 1 ELSE 0]
    /\ partials = {} /\ file = NoFile
    /\ phase = "up" /\ running = 1 /\ authed = FALSE
    /\ stage = NoStage /\ draining = FALSE /\ beat = NoRmw /\ fin = NoRmw
    /\ faults \in {{}} \cup {{f} : f \in Faults}
    /\ mishaps = 0 /\ proven = {1} /\ high = None

StageSteps == StageExtract \/ StageInstall \/ StageSwap \/ StageGc \/ StageSave

BootSteps ==
    \/ BootNormal \/ BootAfterRollback \/ BootPending \/ BootExhausted
    \/ RevertToPrevious \/ SaveRolledBack

Next ==
    \/ \E v \in Versions : StageRequest(v)
    \/ StageSteps \/ StageAbort \/ StageWriteFails
    \/ ExitForRespawn \/ Crash \/ BadDies
    \/ BootSteps \/ BootTornBump \/ BootSaveFails \/ RevertFails \/ RollbackSaveFails
    \/ Auth \/ BeatSave
    \/ FinalizeCheck \/ PromoteLoad \/ PromoteSave \/ UpdateFails
    \/ Tick

\* Every task and the boot run on; time passes; systemd restarts the process; a
\* bad version dies.  A process first reaches the manager, later it need not.
\* Strong fairness where a step waits for another task's short rewrite: nothing
\* in the code makes the one starve the other.
Fairness ==
    /\ SF_vars(StageSteps)
    /\ WF_vars(ExitForRespawn) /\ WF_vars(BadDies)
    /\ WF_vars(BootSteps)
    /\ SF_vars(~ authed /\ Auth) /\ WF_vars(BeatSave)
    /\ SF_vars(FinalizeCheck) /\ WF_vars(PromoteLoad) /\ WF_vars(PromoteSave)
    /\ SF_vars(Tick)

Spec == Init /\ [][Next]_vars /\ Fairness

----------------------------------------------------------------------------

(* Every variable has its type. *)
TypeOK ==
    /\ current \in Versions
    /\ dirs \subseteq Versions /\ partials \subseteq Versions
    /\ mtime \in [Versions -> Nat]
    /\ file \in InstallState
    /\ phase \in {"down", "up", "exhausted", "reverted", "revert_failed"}
    /\ running \in Versions \cup {None}
    /\ authed \in BOOLEAN /\ draining \in BOOLEAN
    /\ stage \in [pc : {"idle", "fetching", "partial", "installed", "swapped", "save"},
                  target : Versions \cup {None}, prev : Versions \cup {None}]
    /\ beat \in [pc : {"idle", "loaded"}, snap : InstallState]
    /\ fin \in [pc : {"idle", "due", "loaded"}, snap : InstallState]
    /\ faults \subseteq AllFaults /\ mishaps \in 0 .. MaxMishaps
    /\ proven \subseteq Versions /\ high \in Versions \cup {None}

(* Whatever happens - a crash at any point, lost updates of state.json, two *)
(* stagings before the exit, a rollback - the `current` symlink points at a *)
(* version directory that is complete, so that the next start finds a       *)
(* binary: neither the staging, which removes the directory it is about to  *)
(* unpack into, nor gc_versions, nor a rollback takes it away.              *)
BootTargetExists == current \in dirs

(* A version that never reached the manager runs only under the watchdog:   *)
(* state.json says pending_health for that very version, so a crash loop is *)
(* counted and rolled back.                                                 *)
NewVersionGuarded ==
    phase = "up" /\ running \notin proven => Pending(file) /\ file.current = running

(* NewVersionGuarded in a run of the system without a misfortune. *)
GuardedWithoutFaults == faults = {} => NewVersionGuarded

(* While a version waits for its health, the directory of the version it    *)
(* would be rolled back to exists: gc_versions has not removed it, but for  *)
(* the moment between its sweep and the save that supersedes the record.    *)
RollbackTargetKept ==
    faults = {} /\ Pending(file) /\ stage.pc # "save" => file.previous \in dirs

(* The replay guard: staging never makes a release current whose manifest   *)
(* sequence is not above every one recorded before, rolled back or not, as  *)
(* long as state.json is neither torn nor overwritten by a stale copy.  The *)
(* first install has no manifest: nothing is recorded for it.               *)
SequencesGrow ==
    [][/\ faults \cap {"torn_bump", "race"} = {}
       /\ phase = "up" /\ current' # current
       => Sequence(current') > high]_vars

(* A crash-looping version does not stay: once a bad version is current,    *)
(* some later version is not, by the watchdog's rollback or a new upgrade.  *)
CrashLoopEnds == (faults = {} /\ current \in Bad) ~> (current \notin Bad)

(* A version that authenticated to the manager and stays up is promoted to  *)
(* stable, unless it is replaced.                                           *)
HealthyIsPromoted ==
    (faults = {} /\ phase = "up" /\ authed /\ Pending(file) /\ file.current = running)
        ~> (file.status = "stable" \/ phase # "up")

=============================================================================
