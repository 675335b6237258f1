# A TLA+ model of bilbycast-edge

bilbycast-edge is a media gateway: it receives live streams over many protocols,
switches, assembles and protects them, and sends them on, under the control of a
remote manager. This directory specifies the parts of it whose correctness rests
on *order*: packets of redundant legs, crashes between durable steps, and tasks
and commands that share a registry. TLC checks the specifications on small instances; TLAPS
proves most of the safety properties for every value of the constants.

Paths below are relative to the repository; `PROJECT.json` maps every definition
to the lines it models.

## Inventory

| Component | State | Operations | What is hard | Modelled |
|---|---|---|---|---|
| 2022-7 merger (`src/redundancy/merger.rs`) | highest seq, rotating bitmap, loss counts, per-leg sequence | `try_merge`, `observe`, `restart`, `set_stale_after_us` | u16 wrap, reordering, outages, a source that restarts, a leg that lags | `HitlessMerger`, `HitlessLedger` |
| 2022-7 pair (`src/engine/input_srt.rs`) | merger, legs' negotiated latencies | connect, packet, both legs lost | the stale time against the legs' lag | `HitlessPair` |
| Buffered, run mergers (`merger.rs`) | packets held, release cursor, virtual seqs, memory of what went out | `ingest`, `drain_expired`, `release_all`, `restart`, `set_leg_lag` | release order, late copies, full hold, restart during the hold | `BufferedMerger`, `BufferedPair`; not the run merger |
| Remote upgrade (`src/upgrade/`) | install tree, symlink, `state.json` | `stage`, boot watchdog, health beat, finalizer | crash between durable steps, lost updates, crash loops | `Upgrade` |
| Demuxer registry (`src/engine/manager.rs`, `flow.rs`) | map of slots, refcounts, tokens, publishers | `acquire_demuxer`, handle drop, publisher (un)registration | interleavings of lock-free steps | `DemuxerRegistry` |
| Flow lifecycle (`manager.rs`, `flow.rs`, `api/flows.rs`) | running flows, stopping marks, statistics, publishers | `create_flow`, `destroy_flow`, `restart_from_config`, groups, `stop_all`, a new configuration | check-then-insert across an await, registrations removed by id, unwinding a failed start | `FlowRegistry`; not hot changes of a running flow |
| Display claims (`src/display/claim_registry.rs`, `output_display.rs`) | holder and waiters per connector | claim, wait, cancel, release | promotion against a waiter that gives up | `DisplayClaims` |
| Replay writer (`src/replay/writer.rs`) | segments, `.tmp/`, index, `recording.json`, directory lease | spawn, write, roll, close, Start, Stop, shut down, recover | crash between durable steps, two writers of one directory, gaps | `ReplayWriter` |
| Clips, export, playback (`src/replay/`) | clip list | mark, cut, export | data | no |
| Config persistence (`src/config/persistence.rs`) | `config.json`, `secrets.json` | load, save | two files, one save | candidate |
| Tunnels (`src/tunnel/`) | relay sessions | create, destroy, failover, failback | timers against late answers | candidate |
| FEC (`src/fec/`) | matrix of packets | encode, recover | window limits | candidate |
| TS processing, codecs, protocol I/O, clocks, stats, REST (`src/engine/`, `src/stats/`, `src/api/`) | byte streams, counters | - | data, not order | no |

How they interact: an input task publishes packets on a broadcast channel, which
its flow's forwarder, outputs and the shared demuxer subscribe to. A 2022-7 input
merges two legs before it publishes. `FlowManager` owns flows, publishers and
demuxers; the manager client dispatches commands to it and to the upgrade
coordinator, each in a task of its own. `main` runs the boot watchdog before
anything else.

What makes each correct:

* merger: every packet either leg delivers goes out once; what neither delivers is
  counted once; a moved stream is followed, a lagging leg is not;
* buffered merger: the output is in order; skew within the hold costs nothing; its
  counters are the output's loss;
* upgrade: the node always boots something; a bad version is rolled back, a good
  one promoted, an old one never replayed;
* demuxer registry: one demuxer per input while somebody needs it, none after;
* flow lifecycle: the registry, the statistics and the publishers speak of the same
  living run; a failed start or a group that fails leaves nothing;
* display claims: one task drives a port; whoever waits gets it, in turn;
* replay writer: an index entry never names other media than its own, whatever crashed;
  a stopped recording is complete; a join is marked.

## Modules

`HitlessMerger` is `HitlessMerger` of merger.rs. Each variable is the field of that
name; `emitted` is the set of slots whose bit is set. `TryMerge` has one disjunct per
branch of `try_merge`; `Anchor`, `Reanchor`, `Advance`, `Accept` and `StreamMoved` are
the functions of those names. Sequence numbers are `0..2*Half-1`, and the window is
any number of slots up to a quarter of them, so it need not divide the space.
`StreamMoved` is the truth value `stream_moved` returns; the assignments it makes on
the way are `MovedWith` and `BreakWith`, which both branches that call it apply.

`HitlessLedger` extends it with history variables: the position of every packet on an
unwrapped axis, the positions forwarded, how many positions the stream has covered.
It adds no behaviour; it is what the bitmap is compared with. `MCHitlessLedger` bounds
the number of calls and fixes the first seq.

`HitlessPair` drives the same merger with one source and two in-order legs of
different delay that may lose packets, and lets the source restart once on another
initial sequence number. The source and the network are external.

`BufferedMerger` extends `HitlessMerger` with `BufferedHitlessMerger`: the hold, the
virtual seqs (`Project`, `Slide`), the release cursor, the stretches a restart begins and
the memory of what went out. `Ingest` has one disjunct per way through `ingest_at`, each
with the `drain_ready` it ends in. `BufferedPair` composes it with the source and the legs
of `HitlessPair` and with the input's loop: packets, the timer of `next_deadline`
(`Wake`), both legs lost (`LoseBoth`) and raw TS behind what is held (`FlushForRaw`).
`OrderedHold` is what it promises: an abstract specification in three variables.

`Upgrade` has the disk (symlink, version directories and the order of their mtimes,
partial directories, state.json), the process and its tasks. Each action is one
durable step, so `Crash` may fall between any two: `StageRequest` to `StageSave` are
`UpgradeCoordinator::stage` and `apply::stage_new_version`; the `Boot` actions,
`RevertToPrevious` and `SaveRolledBack` are `run_boot_watchdog`; `Auth` and `BeatSave`
are `record_healthy_beat`; `FinalizeCheck`, `PromoteLoad` and `PromoteSave` are
`finalize_if_stable`, whose `state::update` loads the file a second time. A release is
a minor version, and its manifest sequence grows with it. Times are ages in ticks.
A behaviour suffers at most one kind of misfortune, named by `faults`: a crash inside
the swap, failing writes of state.json or of the symlink (`StageWriteFails`, `RevertFails`
and the other `Fails` actions), a boot counter torn by a crash or a failed write, racing
rewrites of state.json, a second staging or an authentication during the 5 s drain. Properties that survive all of them
are stated without condition; the others say which they exclude.

`DemuxerRegistry` is one entry of `FlowManager::demuxers`. Each access of the map under
its shard lock is a step and each atomic of a slot another: finding or spawning a slot,
raising its count, lowering it, cancelling the token, removing the entry. A demuxer's task
ends on its token or its closed channel and cancels its slot (`TaskExits`); those of
`Fragile` may also panic, which does not (`TaskPanics`).

`FlowRegistry` has the maps of `FlowManager` and the statistics, each entry tagged with
the run (`FlowRuntime`) it belongs to, and the commands of the REST server and the manager
connection as processes: `at[c][f]` says how far command `c` is with flow `f`. A step is
the code between two awaits or two accesses of a map, so any two commands interleave
there. `CheckAbsent`, `StartRun`, `InsertRun` and `StartFails` are `create_flow` with
`FlowRuntime::start` and `StartUnwind`; `RemoveRun`, `StopRun`, `StopDone` and
`StopInterrupted` are `destroy_flow` with `FlowRuntime::stop` and `StoppingGuard`;
`SweepRun`, `DrainRun` and `DrainDone` are `stop_all`. The `Begin` actions and
`RestartStarts`, `RollbackNext` and `RecreateNext` put them together into the commands.

`DisplayClaims` has the registry's holder and waiters and the display tasks. The shard
lock covers a whole registry call, so each call is a step. The registry records outputs,
not tasks, and the model does the same. `DisplayPort` is what a port promises: a line
whose head drives it. `Queues` is `VecDeque::retain`, which a waiter that gives up calls.
`MCDisplayClaims` fixes five tasks.

`ReplayWriter` is one recording directory and the writers that work in it in turn. The
disk is the segments in place, those in `.tmp/`, the index with how much of it is synced
and `recording.json`; a writer is its `WriterState` and the closer's queue and step. Every
durable step of the writer and of the closer is an action, so a crash may fall between any
two. What `open_writer` finds is read by `OpenWriter`, or with the index or `recording.json`
unreadable by `OpenWriterUnindexed` and `OpenWriterUnread`. `take` and `stretch` are history: they tell one use of an id, and one unbroken stretch
of recording, from another. `MCReplayWriter` fixes three writers.

`HitlessProofs` (merger, ledger and pair), `BufferedMergerProofs` (merger and pair), `UpgradeProofs`,
`DemuxerRegistryProofs`, `FlowRegistryProofs`, `DisplayClaimsProofs` and
`ReplayWriterProofs` hold the proofs; `Maxima` the facts on largest and least members of
bounded sets that two of them need.

## Runs

| Run | Shows | Bounds and why they suffice |
|---|---|---|
| `ledger` | `TypeOK`, `BitmapIsHistory`, `LossBalance`, `ExactlyOnce` | 14 seqs, window 3, any 5 calls. 3 does not divide 14; the first packet is 2 from the wrap; five calls reach a re-anchor over a re-anchor, fills behind it, an advance across the wrap and a restart. |
| `pair` | `AiredOnce`, `NothingDeliveredIsMissed`, `NoLongBlackout`, `LaggingLegNeverMovesWindow` | 14 seqs, window 2, lags 1 (within the window) and 3 (past it), 2 outages of up to 4 packets, a restart by 4, 7 or 10 (nearer than half the space, half of it, past it), 18 ticks: the stream wraps and the outages are longer than the window. A restart waits until both legs are established. Lags, outages and restarts stay within what half the space can tell apart (see below). |
| `buffered` | `HeldInPlace`, `SkewTolerated`, `BoundedLatency`, `GapLostIsOutputLoss`, `AdmittedAccounted`, `SourceOrder`, `LateMeansLost`, `ReleasesInOrder` | 32 seqs, window 3, hold 2, lags 2 (tolerated) and 3 (past the hold), 4 packets held at most (the hold fills up), 4 seqs remembered, 2 outages, a move of the source, one loss of both legs, 8 ticks across the wrap: 919 000 states. |
| `upgrade` | `BootTargetExists`, `GuardedWithoutFaults`, `RollbackTargetKept`, `SequencesGrow`, `CrashLoopEnds`, `HealthyIsPromoted` | 5 releases, the second crash-looping, the code's retention of 3, 2 boot attempts, one crash or failed write. Five releases are what it takes for the sweep to remove a directory. |
| `upgrade_long_window` | violation of `HealthyIsPromoted` | health window 2, freshness 1: the default 120 s and 60 s |
| `upgrade_gc` | violation of `RollbackTargetKept` | four bad releases |
| `demuxer` | `TypeOK`, `OneLiveDemuxer`, `NoOrphanDemuxer`, `AbandonedTaskEnds` | 3 flows, 2 demuxers, the task of one of which may panic, 2 starts of the input: a successor slot, a closed channel, a third party at every step |
| `demuxer_serves` | violation of `AcquiredDemuxerServes` | 2 flows, 1 start: the input never stops |
| `flows` | `RegisteredRunLives`, `RegistrationsMatch`, `NothingLeftBehind`, `GroupAllOrNothing`, `StoppingEnds` | 2 flows, any 2 commands over any running set: every pair of commands at every interleaving, a group of two with one failing |
| `flows_duplicate` | violation of `DuplicatesDetected` | the same |
| `display` | `OneOwner`, `NoStrandedPort`, `WaiterServed`, `ServesInOrder` | 5 tasks of 3 outputs at 2 ports: a queue of three, an output that comes back to a port it waited for, one that changes ports |
| `replay` | `NamedMediaIsItsOwn`, `EveryIdAccounted`, `StoppedIsComplete`, `JoinsMarked`, `WaitEnds` | a flow, its restart and another flow in one directory, 1 pending close, 3 chunks or Starts, and one crash or failure at any step: three segments, a full channel, a sweep beside a closer, a rename undone, a file that cannot be read. 1 535 000 states. |

In `upgrade` deadlock is checked: the node never gets stuck. The other runs stop at a
bound on calls, ticks, slots, commands, tasks or events.

### What the violations show

* `upgrade_long_window`: the beat is written when the manager accepts the connection,
  once; the finalizer wants one of the last 60 s at a time at least
  `boot_health_window_secs` (120 s by default) after the staging. An edge that connects
  and stays connected is never promoted, and later restarts count as boot attempts.
* `upgrade_gc`: the sweep counts failed versions among the three it keeps. The staging
  after three failures removes the version that runs, which is the rollback target.
* `demuxer_serves`: the count is raised after the registry's lock is released. A sibling's
  last drop in between cancels the slot, and the flow gets a dead demuxer.
* `flows_duplicate`: manager.rs says the shard lock detects duplicate flow ids atomically.
  `create_flow` tests, awaits the start and inserts; two creations pass the test, and the
  second insert drops the first run, whose tasks nothing cancels any more.

### Where a property had to leave something out

Each of these was met as a counterexample, and is in the property's text or in the bounds:

* A leg that lags by more than half the sequence space reads as a forward jump and
  re-anchors the window of a healthy pair; merger.rs says "however long the lag". The lags
  of `pair` and `buffered` stay below half the space.
* A restart of the source whose jump falls short of half the space by less than the lag
  (shift 4, lag 3, 12 seqs) can put a packet out twice, and so can an outage of half the
  space (8 packets of 12 seqs). The restarts and outages of `pair` and `buffered` avoid
  both, and the comments of `AiredOnce` and `SourceOrder` carry the bounds.
* `NoLongBlackout` fails once outages outlast the margin of the stale time (32 seqs, lag 1,
  margin 1, a restart by 20, outages of up to 12 packets, 19 states). The other leg is out
  for the stale time, the leading leg's moved stream is followed, and its break is
  forgotten. The lagging leg comes back with packets of the old stream that read as ahead
  and takes the window back; then it stops. Nothing remembers the leading leg's break any
  more, and its packets are dropped until their seqs come round, which is what merger.rs
  (52-57) says the kept break prevents.
* A crash between the symlink swap and the save of state.json boots an unguarded version;
  state.rs says the file is synced "before flipping any symlink", and `stage` flips first.
  `GuardedWithoutFaults` excludes it, a torn counter, racing rewrites and failing saves:
  each loses the guard, and `BootTargetExists` is what is claimed through all of them.
* A demuxer's task that panics leaves its slot mapped and not cancelled, and later consumers
  adopt it; the comment in flow.rs says "Mark this slot dead on EVERY exit path".
  `AbandonedTaskEnds` excludes `Fragile` slots. Nor does it exclude that a flow adopts the
  demuxer of a closed channel before its task has noticed.
* The hold is not a constant latency: a gap filled ahead of a packet puts its release off,
  at most by the legs' skew (`BoundedLatency`).
* When the stream moves, `late_dropped`, `gap_lost` and `unreleased` no longer add up to
  the output's loss exactly; the accounting is claimed for a source that does not move.
  Order and uniqueness (`SourceOrder`, `ReleasesInOrder`) do not need that.
* Registrations are removed by id: a failed start beside a run of the same flow, or a
  teardown that ends after a new creation, removes the other run's. `RegistrationsMatch`
  and `NothingLeftBehind` speak of flows no two commands have worked on at once
  (`overlapped`); `RegisteredRunLives` and `StoppingEnds` of all.
* Two tasks of one display output can overlap: after two hot-adds, after a flow start that
  failed (it cancels its tasks and does not wait), or when a flow's stop gives a task up
  after 5 s. The registry cannot tell them apart, and the older one's exit frees the newer
  one's port. The constant `Overlaps` adds this to the model, where TLC finds two owners;
  the run and the theorems leave it out.
* A failed write sets no discontinuity mark, so the gap it leaves in the recording is
  unmarked. A failed index append, or a write that fails after its random-access point was
  observed, loses a mark already taken. An index that cannot be read restarts the counter
  without one. `JoinsMarked` excludes these three failures (`write`, `append`, `load`).
* `open_writer` takes an index that cannot be read for an empty one. After a crash in which
  only the index had named the last ids, those are used again, and if the index is readable
  the next time its old entries name the new media. `NamedMediaIsItsOwn` excludes `load`.

### Refinement

`ServesInOrder` says `DisplayClaims` implements `DisplayPort`: the line of a port is its
owner followed by the waiters whose tokens have not fired. It is what makes the promotion
loop, the cancelled waiters it skips and the waiter that gives up after its promotion one
first-come-first-served line. `ReleasesInOrder` says `BufferedMerger` implements
`OrderedHold`: virtual seqs are the keys, the cursor is the last one sent. Both are checked
by TLC and proved.

### Fairness

Safety properties assume none. In `Upgrade`, weak fairness of the boot steps is
systemd's `Restart=always` (`packaging/bilbycast-edge.service`) and a watchdog that runs to
its end; of the exit, the timer of the drain; of `BeatSave`, `PromoteLoad` and
`PromoteSave`, straight-line code. Steps that wait until no other task is between its load
and its save (`NobodySaving`) have strong fairness: the other task's rewrite takes a
moment, and nothing makes it recur whenever the first one looks. The unit's limit of 10
starts in 300 s is not modelled; the default of 3 boot attempts stays below it. The first
authentication of a process is fair (the client retries), later ones are not: a connection
that stays up is never authenticated again. `Tick` is strongly fair, since time passes, and
does not pass a promotion that is due, since the finalizer looks every 5 s and ticks are a
minute. In `DemuxerRegistry` the steps of a drop or an acquisition once begun are fair, and
so is the exit of a task whose `select!` has something to see; starting, acquiring and
dropping are not. In `FlowRegistry` a command once begun goes on: `start` and every wait of
`stop` are bounded in time; beginning one is not fair. In `DisplayClaims` a claim that was
granted is taken, a cancelled task leaves its `select!`, and a cancelled holder ends within
`DISPLAY_DRAIN_GRACE`; nothing makes a holder stop that nobody cancelled. In `ReplayWriter`
the closer, a shutdown and a waiting writer go on (`take_after` looks again every second,
and `select!` takes a cancelled token); chunks, commands and stops of flows are not fair.

## Proofs

Every theorem holds for all values of the constants that satisfy the named assumptions;
what else it supposes is said here. Each invariant was first checked by TLC on the
instance of its run.

`HitlessProofs`. `MergerTypeCorrect` and `BitmapCorrect` are `Spec => []TypeOK` and
`[]BitmapIsHistory` of the ledger. Both are inductive together: that the bit of slot n
says whether position `top - n` was forwarded is kept by an advance only because the slots
it reuses are those furthest behind, which needs `highest_slot` and the counts in their
ranges. The lemmas are about the slot arithmetic (`SlotBehind` is injective on the window,
and the slot n ahead is the one `Window - n` behind), then one per way the window moves:
`AnchorAgrees`, `AdvanceAgrees`, `FillAgrees`, `UnmovedAgrees`, each about any set of
positions the bitmap agrees with. `MergerExactlyOnce` is the action property that follows
from the bitmap being the history. `LossesBalance` is `[]LossBalance`: the two unfilled
counts are the size of one set, the covered positions not forwarded (`Unforwarded`), and each
way the window moves takes out of it exactly what it adds to `lost` and `skipped`.

`PairDeliversAll` and `LagNeverMovesWindow` are about the two legs, where the positions are
the packets of the source. They suppose outages shorter than half the sequence space
(`MaxMissed + 1 < Half`), and the second lags of at most half of it: past either, a u16
cannot tell ahead from behind. `PairInv` is conditional on a source that has not moved: the
merger then follows some packet t of the stream, the newest it has seen, at most an outage
of the leading leg behind the clock, and last accepted something no earlier than t. A packet
older than t therefore is the lagging leg's; nothing was accepted for less than the stale
time, since that outlasts the lag; and only the lagging leg ever broke its sequence. So
`StreamMoved` is false of it. The seqs enter by one lemma on the remainder
(`SeqDistance`).

`NothingAiredTwice` is `AiredOnce` with a source that restarts. It supposes `MoveBounds`: a
stale time past the lag, an outage with a window and the lag with a window within half the
space, and no restart that lands within the lag of half the space away. The `pair` run is
such an instance. Between the restart and the last leg's arrival on the moved stream two
streams are on the air with one window. `AfterMove(p, t)` describes that: p is each leg's
last packet (`Heard`), t the packet whose seq is the highest (`Tops` says which legs may be
ahead of it), only the restart ever broke a leg's sequence (`Broken`), and of every
forwarded packet of which a copy may still come, that copy is behind the window or a
duplicate inside it (`NoCopyPasses`). The last part is kept by cases: a packet ahead cannot be
an awaited copy, since a move of the window by either rule of `stream_moved` implies that
the lag is over or that both legs have crossed. `BeforeMove` carries what the restart
needs to find: both legs in step and no break remembered.

`NoLegIsDiscarded` is `[]NoLongBlackout`, under `LiveBounds`: in addition outages shorter
than the margin of the stale time (a second in the code) and, with the lag, than half the
space. Without the first it is false (see above). It is a bound, not a liveness property,
and needs no fairness: `Lively` measures how far a leg on the moved stream has to go until
it meets the old window. Either its break is remembered, and after the stale time every
packet of it that is still refused brings it one nearer (`ComesRound`); or the restart was
so short that it meets the window within a lag and an outage; or it is already inside the
window and leaves it at the front (`ComesIn`). A leg that has delivered for `Patience`
ticks while nothing was accepted contradicts each. The `pair` run checks it outside
`LiveBounds`, with outages longer than the stale time.

`BufferedMergerProofs`. `HeldInPlaceAlways`, `MergerReleasesInOrder`: of the buffered merger
under any calls, for every window, hold, buffer and memory. `HoldInv` is the types with
`HeldInPlace`: different keys, all past the cursor, none past the anchor. The last part is
what makes it inductive, since a packet that moves the stream is keyed right past the
anchor. The refinement follows step by step: what a drain releases has nothing unexpired
before it, so it lies below what stays. The proof asks nothing of `TryMerge`:
order does not depend on what the hitless merger admits.

The other six are about `BufferedPair`, under the suppositions of the pair above:
`SkewIsHidden`, `NoPacketUnaccounted`, `GapsAreCountedOnce`, `LatencyIsBounded`,
`LateCopiesAreLosses` and `OutputInSourceOrder`. They share `FeedInv`, which like `PairInv`
says something only until the source moves. Its idea is a line: packet p stands on the
virtual line at p, or at p + o for one fixed o if it was sent after both legs were lost
(`Place`). `Merging` says the anchor and the window follow the same packet t of the current
stream; `Holding` that every entry, the cursor and the memory stand where their packets do
(`OnLine`, `Remembered`), that the first stream lies a window behind the second (`Apart`),
that nothing goes out earlier than a hold after it was sent (`Timed`), that what was
admitted was sent, is held or is counted, and that `gap_lost` is the number of places of one
stream that were passed (`Gapped`). A packet is then new to the hitless merger exactly if
it is new to the hold, and comes in time if the lag is within the hold; the order of the
line is the order of the source; and a release adds to the places passed just those
that `Gaps` finds, the stretch hiding the jump between the streams. Latency is bounded
because the earliest packet held has not waited out its hold when the clock moves, and
everything held was sent after it. `LatencyIsBounded` is stated until the source moves;
`OutputInSourceOrder` supposes that it never does (`NewIsns = {}`); the other four
properties speak of an unmoved source themselves.

`UpgradeProofs`. `CurrentNeverDangles` is `Spec => []BootTargetExists`, for any number of
releases, any retention and all faults. The strengthening says what the staging task
knows at each step: only an up process stages, the target's directory is there when it
is made current, and `current` is the target when the sweep spares it.
`UpgradeTypeCorrect` needs to know that tasks exist only in a process that is up and what a
staging and a rollback have fixed by then. `NoReleaseIsReplayed` is `SequencesGrow`:
`GuardInv` says that every copy of state.json a task may still write carries the highest
sequence recorded (`Carries`). Its first attempt failed on the model: the first install has
no manifest, so no sequence is recorded for it, and `high` now starts at none.

`RollbackTargetStays` and `NewVersionsAreGuarded` are `RollbackTargetKept` and
`GuardedWithoutFaults`. They suppose `FewFailures`, a bound on the releases that die and on
the crashes of a behaviour; the run `upgrade` is within it, `upgrade_gc` beyond. TLC
violates the first property when the bound is missed by one, so it is not only an upper
estimate. `CalmInv` says what a run without a misfortune keeps, in six parts: what runs
is what state.json calls current, or has saved a staging and exits; what it calls healthy
has been at the manager; the symlink agrees but in the middle of a staging or a rollback;
what a beat or a promotion writes back is what the file still says; a staging replaces what
runs by something newer; and the directories newer than the one to go back to are few. The
last is the part that needs arithmetic. Each such directory is a bad release's, or cost a
mishap: a staging that crashed once its directory was in place leaves one, and a good release
is rolled back only after `MaxBootAttempts` crashes, each of which counts (`Spent`).
So the sweep, which keeps `Keep`, keeps the version that runs.

`DemuxerRegistryProofs`. `OneDemuxer`, `NoOrphan`: for any number of flows, slots and
starts. `HandleInv` says a consumer has a slot that was made and removes it only once it
is cancelled; with it, a spawn happens only when the mapped slot is cancelled.
`CountInv` says the count is the number of handles, so the drop that does not read one
leaves another holder, and no decrement wraps (`RefcountNeverWraps`).

`FlowRegistryProofs`. `RegistryTypeCorrect`, `RegistryNamesLiveRuns`: for any flows and any
number of overlapping commands, a flow in the registry has a run nobody has told to stop,
and no run is in two commands' hands. `LifeInv` adds `HandInv`: a run in a command's hands
was made, is not in the registry, and lives as long as it is being started.
`FlowsMatchTheirRegistrations`, `NoFlowLeavesATrace` and `GroupsStartWholeOrNotAtAll` share
`SerialInv`, which says of a flow no two commands worked on at once what each place in a
command means for its runs, its statistics and its publisher.

`DisplayClaimsProofs`. `OnePortOneOwner`, `NoPromotionLost` and `ClaimsServeInOrder`, the
refinement of `DisplayPort`, suppose that no two tasks of one output overlap (`~Overlaps`),
without which they are false. `ClaimInv` ties the three together: an output has one task
under way (`OneStart`), a queue holds each waiting task once and nobody else (`QueueInv`),
and the holder the registry names is the output of the one task that owns the port
(`HolderInv`). The lemmas on `Retain` say what a queue keeps, in which order.

`ReplayWriterProofs`. `EntriesNameTheirOwnMedia`, `EverySegmentIsAccountedFor`,
`StopLeavesItComplete` and `GapsAreMarked` share `ReplayInv`: one writer at most is at work
in the directory, every id a segment, the index or recording.json mentions is below the one
the next writer takes, every index entry's take is that of the segment of its id, and a
writer about to append after a gap has its mark armed. What it says of the index it says of
`Known`, the index as long as it could be read at every open, and nothing after that. A
crash that undoes renames and `recording.json` keeps it: an id used again after one is an
id no entry names.

Assumptions are those of the constants: a window of at least one slot and at most a
quarter of the space, two legs that are no numbers, natural bounds, finite sets of flows and
commands, a memory at least as long as the window, writers numbered within their flow.

Only model-checked:

* liveness (`CrashLoopEnds`, `HealthyIsPromoted`, `AbandonedTaskEnds`, `StoppingEnds`,
  `WaiterServed`, `WaitEnds`), which this proof system does not do;
* what `SourceOrder` and `BoundedLatency` say once the source has moved, and what
  `NoLongBlackout` says of outages longer than the margin.

## Abstractions

* The bitmap's 64-bit words are a set; `emitted_in` is its cardinality. Windows in the
  code are multiples of 64; the proofs cover every window.
* Counters (`lost`, `skipped`, `resets`, u64) do not overflow.
* The buffered merger's sorted deque is the set of its entries, and its draining loop one
  step. One packet per seq; SSRC checks, leg health and per-leg statistics are left out.
  Of the legs' lag, what exceeds the hold is taken as configured, the rest as the
  networks'.
* Downloads, signatures and manifest parsing are a refusal or none. Only upgrades within
  one major version are modelled, as the code allows no others.
* In `Upgrade` a crash is the process's: what it wrote survives. A loss of power is not
  modelled; `stage_new_version` syncs the directory it unpacks into, not the binary's
  contents, so after one an installed version may be empty. A symlink swap that fails is
  one of the failing writes, not an ordinary refusal: the version it leaves behind counts
  among the directories that are kept, as a crash there does.
* The `previous` symlink is written and never read, so it is left out. So is
  `manual_only`: nothing writes the status it waits for.
* Publisher, slot and flow identities are numbers or model values. Registry entries of
  different inputs share nothing.
* `acquire_demuxer` returning `None` (no publisher) changes nothing, and is not a step.
* In `FlowRegistry` each flow has its own inputs. `CheckAbsent` may fail for any reason that
  comes before the first registration (the resource gate, an assembly plan). A dropped
  request or a panic is modelled for commands on one flow; groups and new configurations
  run to their end. `stop_all` neither marks flows stopping nor unregisters statistics,
  as in the code; `uncounted` remembers that.
* In `ReplayWriter` a chunk carries a PCR and at most one random-access point, steps of the
  clock stay below the five-minute threshold, and gaps are one tick. PreBuffer behaves as
  Armed. Retention removes any oldest part but the segment just finished. The code syncs the
  contents of files and never their directory, so a crash may undo the latest renames, of
  segments and of `recording.json`, and lose any unsynced end of the index; that
  `index.bin` itself is there once it was opened is taken for granted. A writer whose closer has no room blocks before
  the roll rather than in the middle of it. One misfortune per behaviour.

## Not modelled

* `HitlessRunMerger` and `HeldRuns`, which merge several packets under one seq.
* Hot changes of a running flow: outputs, input switching, assembly plans. `remove_output`
  and its siblings hold a reference into a `DashMap` across an await, which can block a
  worker thread; executor threads and map shards are below this model.
* Clips, marks, export and playback; config persistence and secrets; tunnels; FEC; the SRT
  bond supervisor.
* TS processing, codecs, protocol I/O, clocks and pacing, statistics, REST handlers,
  configuration validation: they transform data or call the components above, and most of
  the repository's lines are theirs. What they do wrong would not show in an order of
  steps.

## Plan

1. Done: `HitlessMerger`, `HitlessLedger`, `HitlessPair`; `Upgrade`; `DemuxerRegistry`;
   `FlowRegistry`; `BufferedMerger` and `BufferedPair` with `OrderedHold`; `DisplayClaims`
   with `DisplayPort`; `ReplayWriter`; proofs of every module's main safety properties.
2. Proofs next: the rest of `SourceOrder` and `BoundedLatency`, for which `AfterMove` gives
   the merger's side of a source that moves.
3. Candidates for modules: config persistence, tunnel failback, the run merger, FEC
   recovery as a pure algorithm.
