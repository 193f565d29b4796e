# A verification project for layat

layat places the entries of a *manifest* (symlinks into a link-farm, and
copies) below a *root* directory, keeps a history of what it placed, and undoes
or removes it again. This directory holds TLA+ modules that model that program,
TLC configurations that check small instances of them, and theorems that TLAPS
proves for every instance.

    tlc -config home.cfg MCReport      # one run; PROJECT.json pairs runs and modules
    tlapm EngineProofs.tla             # one module of proofs

`PROJECT.json` lists the runs, maps every definition to the source lines it
models, and names the mutants, hazards, findings and theorems.

## 1. The system

| Part | State | Operations | Where |
|---|---|---|---|
| planner | none; reads the tree | `Compute` diffs the last manifest and the new one over the tree into a plan | `internal/planner` |
| engine | the tree below the root, the undo journal in memory | apply, rollback, reset: plan, stages, record, commit | `internal/engine` |
| record | `last-applied.json`: the manifest last placed and its link-farm | written after placing, shrunk by reset | `internal/engine/record.go` |
| generations | the profile link and its generation links | commit, switch, list | `internal/generation` |
| report | the lists of `engine.Result` | filled stage by stage, turned into a status per entry and a change per target | `engine.go`, `cmd/layat/outturn_payload.go` |
| `.pending` | an out-link, the GC root of a build | overwritten by each build, deleted at the end | `engine.go`, `paths` |
| profile series | per root a directory with its backref `.root` and one profileDir per name | made by each run, deleted by prune | `engine.go`, `paths`, `prune.go` |
| lock | a flock on the inode of a profileDir | acquire, try, release | `internal/lock` |
| CLI | the subjects of one invocation | apply (one or `--all`), rollback, reset, prune, status, list-generations, init, gitignore | `cmd/layat` |
| generators | none here; nix processes | evaluate, build | `internal/generator`, `lib`, `modules` |

How they interact: a command evaluates and picks configs, the engine locks the
profile, has the generator build into `.pending`, reads the baseline (the
record, else the current generation), plans, changes the tree, writes the record
and asks the backend to commit. Prune looks at the same directories from the
outside, through the same locks. `apply --all` runs several engines of one
process against one tree; their locks are of different profiles and exclude
nothing between them.

What is hard here:

- **Partial failure.** A stage can fail after any write. The journal must undo
  what was done, on a tree the run itself has changed.
- **Crashes.** The journal is in memory only; record, generation and `.pending`
  are three writes. What a crash leaves must be a start for the next run.
- **State that is read early and used late.** The plan and the user's edits; the
  judgement of prune and the root; the listing of prune and new names; the path
  and the inode of a lock.
- **Sequences of legal runs.** Entries change their method and their structure,
  commits fail, resets are partial, generations are skipped.
- **Other tools.** Generations are collected, and the profile re-pointed, between
  a run's listing and its switch.
- **Telling the truth.** The report is put together from lists a failing run has
  filled half-way, and from observations made outside the lock.
- **Concurrency.** Runs against each other's generations, runs against prune, prune against prune, and the configs of
  one `apply --all` against each other in shared directories.

What makes each part correct: the engine restores on failure, places everything
before it records, removes only what layat made, and loses nothing of the user;
the record is never behind the profile and forgets no link; prune deletes no
series in use and loses none half-way; the profile never dangles and a rollback
goes one generation back; what a run reports is what the tree shows; `apply
--all` reports what happened and lets no config harm another.

The hazards behind these properties, each at its line, are in `PROJECT.json`.

## 2. Modules

| Module | Models | Composition |
|---|---|---|
| `LayatFS` | the tree and the `os` calls the engine makes | constants of the tree |
| `Planner` | `planner.Compute`, as set expressions over the tree and two manifests | EXTENDS LayatFS |
| `Engine` | one profile: apply, rollback, reset, journal, record, generations, crash, the user | EXTENDS Planner; implements `Profile!StrictSpec` (`KeepsProfile`) |
| `Report` | what a run tells of itself: result lists, statuses, changes, the dry run | EXTENDS Engine |
| `Profile` | abstract: what is applied, which generations are kept, which is current | on its own |
| `Generations` | the generation links and the pointer, call by call, under several runs and other tools | implements `Profile!Spec` (`IsProfile`) |
| `Series` | profile series, flocks by inode, runs from outside, prune | on its own |
| `ApplyAll` | `apply --all`: preflight, two pools, engine runs call by call on shared trees, report | EXTENDS Planner |
| `MCEngine`, `MCReport`, `MCGenerations`, `MCSeries`, `MCApplyAll` | instances for TLC | |
| `PlannerProofs` | lemmas on paths, trees and renames; theorems on plans | EXTENDS Planner |
| `EngineProofs` | types, the record, the refinement of `Profile`; what runs leave in the tree | EXTENDS Engine, PlannerProofs |
| `EngineLinkProofs` | every link to a source is accounted for | EXTENDS EngineProofs |
| `RunProofs` | what one run does to the tree it found | EXTENDS EngineLinkProofs, Report |
| `ReportProofs` | what a run tells is what it did | EXTENDS RunProofs |
| `GenerationsProofs`, `SeriesProofs`, `ApplyAllProofs` | theorems | extend their component |

### LayatFS and Planner

A path is a sequence of components below the root, a tree a function from the
paths of the instance to *absent*, a directory, a link with its destination or a
file with its content. Contents and destinations are model values, so a property
can tell a file of the user from a copy and a complete copy from a partial one.
The plan of `Compute` is a record of sets, one for each kind of action;
`markDirEntriesPreRemoved` and `preRemoved` become set differences. The order of
a manifest's entries is left open: each stage takes any entry that is left
(pre-removal: children first, as in the code). A lookup that fails with ENOTDIR
fails the plan, as the code's `lstat` errors do.

### Engine

| Variable | Code |
|---|---|
| `fs` | the tree below the root |
| `record` | `last-applied.json`: `man` is its manifest, `farm` its link-farm |
| `gens`, `cur` | generation links and the profile link |
| `pending` | the `.pending` out-link |
| `phase`, `run`, `plan`, `mid` | program counter, options, what is left of the plan, the entry between two of its writes or the open prompt of a reset (`Asking`) |
| `journal` | `applier.journal` |
| `outcome`, `before`, `owned`, `spent` | observation and bounds; no action depends on the first three |

`StartApply` is everything of `Apply` up to the first write (build, baseline,
plan, conflicts, out-of-store check, generation skip). Then each stage is one
action for an entry, split where the code makes two calls that something can
come between: unlink and symlink of a re-link, aside and copy, the first and the
last write of a copy, the removal of a link and each ancestor pruned.
A reset has one step more between its plan and its first removal, unless `--yes`
saves the question: it asks (`mid = Asking`), and `AnswerReset` goes on with the plan
made before, or ends the run.
`StageStuck` and `CopyStuck` are the calls that cannot succeed on the tree as it
is; `StageFault`, `CommitFault`, `ResetFault`... the ones that fail for another
reason. `UndoStep` is one inverse of `unwind`. `Crash` forgets the journal.

### Report

`result` holds the lists of `engine.Result`. Every action of `Engine` gets the
list it appends to: `Tell(field, t)` when an entry is done, `TellFailure` with
`fail`'s rule for `Unreached` when a stage fails, `Forget` when no result
outlives the call. `Status` and `Change` are what `outturn_payload.go` makes of
the lists; `Preview` and `Forecast` are what `--dryrun` fills from the plan and
the same payload code makes of that.

### Profile and Generations

`Profile` says in three variables what a profile is for. `StrictSpec` is the
contract `Engine` works with: place, commit what was placed under a new number,
or move the pointer down. `Spec` adds what the disk adds: a commit in two halves
(a crash may leave a generation that is not current), and other tools that
delete generations or point the profile elsewhere.

| Variable of `Generations` | Code |
|---|---|
| `link` | `profile-<N>-link` and the link-farm each leads to |
| `profile` | the profile link: a number, a link-farm named directly, or none |
| `record` | the link-farm of `last-applied.json` |
| `lock`, `run` | the flock; each run's step, its generations before and after, and how it ended |

A run waits for the lock, builds and places (or fails), writes the record, makes
the generation link, points the profile, releases and observes. A rollback lists
under the lock and reads its generation twice, so `Collect` can delete it in
between; `Repoint` is a profile changed by hand, which `CurrentGeneration` then
finds by what it leads to. `alone` is observation: nothing else touched the links
since the run started.

### Series

Only what locks and deletes: a run makes the directories, writes the backref,
opens, locks, works, releases; a reset may ask its user in between, with the lock
held (`asking`, `Answer`); prune judges each series, waits for the answer,
and for each series opens and try-locks every listed name, removes them one by
one, then the backref, then the directory. `dir` maps a name to an inode number,
and `holder` maps an inode to its owner, so a process can wait for, or get, the
lock of a directory that is no longer there.

### ApplyAll

`queue` holds the configs that no worker has received from the unbuffered channel;
they leave it in the lexical order in which they are sent, and `run[c].pc` is where
a worker is with one. At most `Jobs` configs are in a worker's hands. An engine run is cut at each call
(verify, `Remove` and rmdir before placing; `MkdirAll`, `Symlink`; verify and
`Remove` of a stale link; for each ancestor the look for a symlink on its path
and the `Remove`; each inverse), and the runs of all workers interleave on
`disk`, one tree for each directory that roots resolve to. Targets may lie one
below the other, within a config and across configs. `asked` is what the
evaluation returned and the flags. `start` and `excused` are observation.

## 3. Runs that pass

| Run | Question | Instance |
|---|---|---|
| `home` (MCReport) | links that change, migrate, become a copy and go; one fault and one crash, anywhere, and one user edit between runs; what is reported | 3 targets, one inside another; 4 manifests; 2 generations |
| `copies` (MCReport) | a project's copies of a file and of a directory that become links and change structure; plain, `--backup`, `--recopy`; one fault, one edit; what is reported and forecast | 3 targets, 3 manifests |
| `system` (MCEngine) | generation skip and drift repair, rollback, failed commits, partial resets; one fault, one crash, two edits | 3 targets, 3 manifests, one of which places a link inside another; 3 generations |
| `live` (MCEngine) | the user edits during runs: every run ends | 4 manifests with work for every stage, all options |
| `generations` (MCGenerations) | two runs on the links of one profile; one crash, one act of another tool | 2 link-farms, 3 generations |
| `prune` (MCSeries) | one prune, two runs, two names of one root; one root change, one crash; two profileDirs may be made | `FairSpec` |
| `all_at_once` (MCApplyAll) | two workers and two configs, each of either root, `--root` or not, a root filter, overlapping targets, a stray file, one fault | 3 targets, 2 roots |
| `all_serial` (MCApplyAll) | one worker, two configs that share a directory, or want it for a link: no config suffers from another, and all settle | 4 targets, one above the others; one fault, `FairSpec` |

What they show, property by property:

- `UserDataKept`: a file the user wrote survives every apply, rollback, reset,
  unwind and crash, unless `--recopy` or a confirmed reset said otherwise.
- `UnwindRestores`: after an unwind every path that existed has what it had;
  only empty directories may be new. (See `deep_migration` for where it fails.)
- `PlacedWhenRecorded`, `StaleGone`: when the record is written the tree is the
  manifest, and nothing of the old one is left, generation skip included.
- `ForeignLinksKept`: a symlink of somebody else goes only where an entry or an
  option takes its place.
- `EveryLinkKnown`: between runs every link layat made is named by the baseline,
  unless a crash took the journal.
- `KeepsProfile`: the engine is a `Profile`: only what the record names becomes
  a generation, under a number above all others, and the pointer moves only with
  it, or down by a rollback.
- `ChangesTellTheTree`: whatever a run has told so far, at any point of it, the
  tree bears out: an addition was not there and is, a removal was and is not.
- `NothingSilent`: nothing is put, replaced or taken away outside what is told.
- `DryRunTells`: the dry run announces what the run does, but for `--recopy`
  (never announced) and re-links in vain (announced).
- `SkippedUntouched`, `SuccessIsInPlace`: of a failed run, what is reported as
  skipped is as it was, and what is reported as a success was in place.
- `IsProfile`: the links and the record implement `Profile`, with crashes between
  the calls and other tools on the links.
- `NeverDangles`, `RollbackOneBack`: the profile names a generation that is
  there; a rollback goes to the nearest one below, whatever was collected.
- `SettledAgrees`: after a success, record and profile agree, so the next run
  plans from what is there.
- `ReportsItsMove`: an apply that had the links to itself reports its own move.
- `ReapplyNotRefused`: the apply that a crash or a failed commit interrupted is
  accepted on the tree it left.
- `RunsEnd`: every run comes to its end, with the lock released; a reset that asks,
  from its answer on.
- `NoRemovalUnderRun`, `LocksComeFirst`, `BackrefLast`: prune against runs.
- `WaitingRunsGo`: a run gets the lock it waits for, or gives up; only a reset that
  holds it at an unanswered prompt keeps it waiting.
- `AppliedIsPlaced`, `FailedLeavesOwn`, `BystandersKeep`: what a config is
  reported as is what its targets hold.
- `OwnFailuresOnly`, `ExitCodeTells`, `BuildsComeFirst`, `EveryConfigSettles`:
  the orchestration.

### Bounds

All bounds are constants. `MaxGens` ends the history of a profile: two commits
are "place, then change or go back", with any number of refused, failed and
unwound runs and resets between them; `system` has a third, so that an apply
can follow a rollback. `MaxFaults`, `MaxCrashes` and `MaxEdits` count events of
the environment; one of each, anywhere, already reaches every error path, and
`system` has two edits for a drift upon a drift. Three targets with one inside
another give every relation between entries the planner distinguishes; two
levels matter only to `deep_migration`, which has them. `Generations`:
`MaxGen` numbers three generations, the least that has a newest, a current and a
one before it that differ; one act of another tool (`MaxOutside`) between any two
steps, and one crash. Two
link-farms, so that one comes back under another number, which is what the code
must tell apart by name. `Series`: the second
inode is a profileDir made anew or a second name; two runs are a holder and a
waiter, or a waiter and the run that makes the directory again. `ApplyAll`: two
configs give every pair of calls, and on one worker more configs than workers.
Symmetry is used in the safety runs `generations` (runs, link-farms)
and `orphan_lock` (processes) only. No run switches deadlock
checking off.

### Fairness

`Engine`: weak fairness of `RunStep` only, the steps a started process takes by
itself. Starts, faults, crashes and the user have none, nor has
`AnswerReset`. `Series`: weak fairness of each run's and each prune's own steps; none for starting, and none for an answer
of the user, to a prune (`Confirm`) or to a reset (`Answer`), which may never come.
`WaitingRunsGo` takes as a hypothesis that prunes stop being started
(`PrunesCease`): while a reset at its prompt keeps one name of a series locked, prunes
started over and over can each try-lock the other name, skip the series and release,
and weak fairness does not promise a waiter that it finds the lock free.
`ApplyAll`: weak fairness of the orchestrating goroutine and of each worker's config. The Go scheduler and
the kernel justify exactly this: a goroutine that can run does run.

## 4. What the repository says and the code does not do

Each of these runs checks one sentence of a doc or a comment and finds a
counterexample; `findings` in `PROJECT.json` quotes the sentence.

| Run | Sentence | What happens |
|---|---|---|
| `deep_migration` | a failed apply leaves no trace (REQ-5e75aabc) | the unjournaled parents of a target keep the old link from coming back |
| `copy_over_links` | the record is of the manifest just placed (`engine.go:619`) | a copied directory is skipped because the old links' directory is there; then the links and the directory go |
| `orphan_lock` | `OneRunPerProfile`: the lock serializes runs (`lock.go:1`) | after a prune and a new profileDir, the lock of the deleted inode excludes nobody |
| `all_hindered` | the result does not depend on `--jobs` (REQ-91f0a9a7) | one config prunes the directory another has just made for its link |

The passing runs check the same properties on instances that leave the one cause
out: `home` has no target two levels below a migrating link, `copies` no link
below a copied directory, `prune` one prune, `all_serial` one worker.

The models show more of this kind when an instance is changed as said here;
these are not runs of the project:

- `prune` with two `Pruner`s violates `NoRemovalUnderRun`: the second prune
  locks the inode the first one deleted and removes, by path, the profileDir a
  run has made again and locked (`prune.go:289`).
- `all_serial` with `Jobs = 2` violates `FailedLeavesOwn`: a link whose parent
  another config has pruned does not come back (`undo.go:135`).
- `all_at_once` with candidates that move a target from one config to the other
  violates `AppliedIsPlaced`: the old owner verifies its link, the new owner
  replaces it, the old owner removes the new link, and both report success
  (`staleremove.go:23`).
- `all_serial` with `Jobs = 2` violates `AppliedIsPlaced` too: a config that drops
  `d/b` finds no symlink on the path of `d`, the other puts its link at `d` where
  the emptied directory was removed, and `os.Remove` takes the link; both report
  success (`staleremove.go:86`, `staleremove.go:99`).
- `copies` with `UserDuringRun = TRUE` violates `UserDataKept`: a file made at
  the target after the plan is truncated (`copy.go:94`; README.md:492, "it never
  overwrites your file").
- `copies` with `MaxCrashes = 1` and `ReapplyNotRefused`: a crash behind the
  rename of `--backup`, and the user's new file, leave a conflict with the
  backup of the interrupted run (`planner.go:425`).

- `prune` with `RunAt(a, "flock") ~> ~RunAt(a, "flock")` in place of
  `WaitingRunsGo` fails: a reset holds the lock of its profile (`reset.go:135`) while it
  asks y/N (`reset.go:209`), and every later rollback and reset of that profile,
  and every apply without `--no-wait`, waits behind the unanswered prompt. Prune, in contrast, asks
  before it locks (`prune.go:152`). No document promises the opposite.

And by reading the traces of the modules:

- "a pre-removal never reaches the repair" (`drift.go:34`) does not hold when the
  user has replaced a recorded link by an empty directory and nothing else
  changed: every apply of a project then fails, and unwinds, until the directory
  is removed by hand;
- "before == after" of a failed apply (REQ-2ea19863) does not hold when it waited
  for the lock while another run committed: `GenBefore` is observed before the
  lock (`engine.go:205`) and `GenAfter` behind it;
- an entry whose target was pre-removed or backed up, but not placed when another
  entry failed, is told as a success (`engine.go:415`; REQ-2ea19863, "an entry not
  reached because of an earlier failure becomes skipped");
- a failing repair under a generation skip returns no partial result
  (`engine.go:293`);
- the aside of a `--recopy` whose commit failed blocks every later `--recopy` of
  that directory (`copy.go:85`; `engine.go:330`, "re-apply converges");
- a copy that a crash interrupted counts as a copy from then on
  (`planner.go:384`);
- after a failed commit only `.pending` keeps what was placed, and the next
  build takes it over (`engine.go:238`);
- a run that makes a new name in a series under deletion keeps its profile and
  loses the backref (`prune.go:321`);
- a root that comes back between the judgement and the removal loses its series
  (`prune.go:241`).

## 5. Theorems

TLAPS proves these for every value of the constants that satisfies the modules'
assumptions: `PathAssumption` (what is above a path is a path), `DataAssumption`
(links of layat, links of others and contents of the user differ),
`TargetAssumption`, `EngineAssumption` (a manifest is a manifest; there is a name
for whatever a rename moves), `GenerationsAssumption` (a link-farm is not a
number), `SeriesAssumption` and `ApplyAllAssumption`. TLC evaluates all of them on
the runs. A hypothesis that a theorem needs beyond them stands in the theorem.

| Theorem | States | Under |
|---|---|---|
| `PlannerProofs!RemovesOnlyRecorded`, `PlanIsComplete` | a plan unlinks only recorded links that the new manifest drops; without conflicts it accounts for every entry in one way | |
| `EngineProofs!TypeCorrect`, `RecordBeforeProfile`, `EngineIsProfile` | `TypeOK`, `PointerFollowsRecord`, `KeepsProfile` | |
| `EngineProofs!StaleLinksGo` | `StaleGone` | `NamesApart` |
| `EngineProofs!UserFilesStay` | `UserDataKept` | `NamesApart`, `UserApart` |
| `EngineLinkProofs!LinksStayKnown` | `EveryLinkKnown` | `NamesApart`, `NamesDiffer` |
| `RunProofs!RecordedIsPlaced` | `PlacedWhenRecorded` | `NamesApart`, `EntriesApart` |
| `RunProofs!ForeignLinksStay` | `ForeignLinksKept` | `NamesApart`, `NamesDiffer`, `EntriesApart` |
| `RunProofs!UnwindingRestores` | `UnwindRestores` | the same and `MigrationsShallow` |
| `RunProofs!InterruptedReapplies` | `ReapplyNotRefused` | `NamesApart`, `NamesDiffer`, `EntriesApart`, `Unbacked` |
| `ReportProofs!ChangesAreTrue`, `NothingIsSilent`, `DryRunIsTrue`, `SuccessIsTrue`, `SkippedIsUntouched` | `ChangesTellTheTree`, `NothingSilent`, `DryRunTells`, `SuccessIsInPlace`, `SkippedUntouched` | `NamesApart`, `EntriesApart` |
| `GenerationsProofs!TypeCorrect`, `ProfileLeadsSomewhere`, `SuccessSettles`, `ReportIsTrue`, `RollbackGoesOneBack`, `GenerationsAreProfile` | `TypeOK`, `NeverDangles`, `SettledAgrees`, `ReportsItsMove`, `RollbackOneBack`, `IsProfile` | |
| `SeriesProofs!SeriesTypeCorrect` | `TypeOK` | |
| `SeriesProofs!LockingIsHarmless`, `BackrefOutlivesProfiles`, `RemovalExcludesRuns` | `LocksComeFirst`, `BackrefLast`, `NoRemovalUnderRun` | `OnePruner` |
| `ApplyAllProofs!TypeCorrect`, `BuildsBeforeWrites`, `ExitIsTrue`, `BystandersStay` | `TypeOK`, the first half of `BuildsComeFirst`, `ExitCodeTells`, `BystandersKeep` | |
| `ApplyAllProofs!BuildsFirst` | `BuildsComeFirst` | `RootsApart` |

### The record and the profile (`EngineProofs`)

The invariant is `IInv == TypeOK /\ RunFits`. `TypeOK` alone is not inductive: a
stage looks up the entries of its plan in the manifest of its run. `RunFits` says
that the plan places entries of that manifest only, that a run under way carries a
link-farm that can become a generation (for a rollback, the one before the
current), and that a run about to commit has recorded what it commits. The last is
the reason the profile never gets ahead of the record, and with it a commit is a
`Commit` or a `Switch` of `Profile` (lemma `CommitIsProfileStep`); every other step
changes at most the record, to a link-farm of a manifest or none
(`RecordedFarm`), and is a `Place` or a stutter.

### The tree (`PlannerProofs`, `EngineProofs`, `EngineLinkProofs`)

`PlannerProofs` begins with what every argument about the tree comes back to: a path and what
is above and below it, `Rebase` as the way of everything below a renamed path and
its inverse, and `Closed`, that what exists has directories above it, which every
call of `LayatFS` preserves.

*`StaleLinksGo`.* `NamesApart` says that a suffix makes a name beside its target and
that no target lies at or below such a name. The invariant `StaleInv` says that,
during the stages, each link of the old manifest that the new one drops and that
is still at its target is in what the rest of the plan takes away. A generation
skip plans no removal, so this needs `RecordFits`: the recorded manifest is part of
the manifest its link-farm came from, hence equal link-farms leave nothing to drop.

*`UserFilesStay`.* `UserApart` asks three things: the user does not write during a
run; no path of the user, no target and no backup is named like an aside; and where
`--backup` is among the options, no manifest has one target below another. The
first is needed (section 4, `copies` with `UserDuringRun`), the third is a limit
of the proof: TLC checks nested targets under `--backup` in `copies`. The
invariant has two layers:

- `TreeInv`: the tree is closed, and what the journal brings back comes to a target
  (`JournalFits`).
- `UserInv`: `UserDataKept`, and why it lasts. Nothing of the user is at an aside
  (`ScratchSpared`). A reset that still asks may have copies with the user's content
  in its plan; from the answer on they are given up. Nothing of the user is where the rest of the plan writes or
  removes, unless a backup comes first; backups are apart from each other and from
  what is unlinked (`PlanSpares`). Nothing of the user is where undoing an entry
  may destroy, and what a backup brings back arrives where no *older* entry
  removes, since the journal is undone from its end (`JournalSpares`). `Guards`
  tells for each kind of entry what its undoing may destroy.

A crash drops the journal and so needs only the first two parts; that the next
plan keeps clear of the user's files is proved of `Compute` over any tree, so the
theorem covers any number of crashes and runs.

*`LinksStayKnown`.* `NamesDiffer` says that distinct targets have distinct backups and
distinct asides, and that no backup is an aside. Both names are the target's with a
suffix, so this holds unless the suffix given to `--backup` ends in that of the
asides (`copy.go`). The user may edit at any time, also during a run. What must be
remembered through a run is where links to sources may come back to:

- `JournalInv`: the journal brings back from each backup and aside at most once.
- `History` gives for each length of the journal where such links may be when it
  has been undone that far, and at length 0 these are links the baseline names. A
  write journals its inverse, so undoing it leads to links that were there
  (`TracePush`); a link put over what the last entry describes is covered by that
  entry (`TraceTop`); undoing goes one length back (`TracePop`). Undoing is
  best-effort: when bringing back fails, the links stay in the backup or the aside
  (`Lost`), and no target lies in one.
- `LinkInv`: `Traced`, that the links in the tree are those of some `History`;
  `AllPlanned`, that in the stages a link at a target is as the new manifest says,
  or as the old one says and still in the rest of the plan, which is what makes the
  new record complete; and `AllNamed` between runs. A teardown, and a reset of a
  part (`recordAfterReset`), keep the entries whose links remain.

A crash loses the journal and with it `Traced`: the property leaves out what comes
after one.

### One run, from its start (`RunProofs`, `ReportProofs`)

`EntriesApart` says that the user edits between the runs, and that of the manifests
of a profile none has one entry inside another, nor a copy that holds an entry of
any of them. The code calls entries that meet in this way a mistake in the
definitions ("fix the entry definitions", `engine.go:650`) but refuses only some of
them; what a copy over the links of an older manifest leads to is the finding
`copy_over_links`. A link may still lie where an older manifest had a directory with
entries, and the other way round: that is the migration these proofs are mostly about.
`home` and `copies` run under these hypotheses; `system` has a manifest with a link
inside another and shows that `PlacedWhenRecorded` is not limited to them.

The invariants look back at `before`, the tree the run found.

- `Grounded`: the plan the run set out with is the one `Compute` makes of `before`
  (`Aim`), and has no conflicts. `AimFits` puts into words what this says of each part;
  `AimApart` that the parts do not meet.
- `Shrinks`: what is left of the plan is a part of `Aim`, so that each target is
  pending, at work or done. `Ordered`: a stage begins when those before it have
  nothing left. `Midway`: what the entry between two of its writes has done already.
- `TreeFits`: a target that is done holds what the manifest says, one that is pending
  what `before` has there, or nothing where its directory is gone.

At the record nothing is pending, hence `PlacedWhenRecorded`. For the links of others
`Progress` says of every step which paths it may write and to what end, and
`ForeignInv` follows one such link from `before` to the place the property allows.

*`UnwindingRestores`.* `Rewinds` gives for each length of the journal a tree: `before`
at length 0, and while the stages go on the tree itself at the full length.
`Undoes(g, op, h)` relates the trees of two neighbouring lengths: what of `h`
undoing the entry `op` must turn back, and that elsewhere `h` has at most directories
more (`MadeFor`), above targets of the new manifest, which `MkdirAll` makes and
nothing journals. Each stage action either appends an entry and a tree, or
changes the last tree in a way that its `Undoes` still covers (the link of a re-link, the
writes of a copy). In the unwinding the tree is then `Over` the tree
of the present length: the same but for such directories, and for asides that have
been used up (`Loose`). That one undo keeps this (`RewindPop`) needs for a link that
comes back that no such directory has been made below its target, which keeps
`Remove` from clearing the way for it: `MigrationsShallow`, no entry lies two levels or
more below an entry of another manifest. This is the cause of `deep_migration`, and
the theorem says that on such manifests nothing else is.

*`InterruptedReapplies`.* `MayHold` names what a path may hold until the run is over:
what it had in `before`, nothing, a directory above a target, a link at a target
that is to be one, a copy of the right kind, and anything inside a copy or an aside.
`HalfWay` says this of the tree, and of whatever undoing an entry of the journal would
bring back (`Brings`), so that it survives the unwinding, a crash in its middle
included. `Sound` keeps that the plan was accepted on `before`, and
`HalfWayAccepted` is the heart: a plan made of any half-way tree has no conflict
either. Behind the record the baseline is the new manifest itself, and `InPlace`, every
entry as the manifest says, takes the place of `HalfWay`. `Unbacked` (no crashes,
or no `--backup`) is not for the proof's comfort: behind the rename of `--backup` the
property is false (section 4). A failing commit may go with `--backup`.

The results of `Report` are related to the same parts. `Marked`: each entry of the
journal stands for a target that is done or at work. `Listed`: each list of the result
is a part of `Aim` less what is pending. `Explained`: of what is gone or new, each is in
a list. `ChangesTellTheTree` and `NothingSilent` follow while the run is under way; of a
reset, which has no plan, `Torn` says the same of its teardown. A dry run fills the
lists from the plan (`Preview`), and at the commit the lists *are* the plan, so
`DryRunTells` compares two readings of `Aim`. `SuccessIsInPlace` is about the step that
fails. `SkippedUntouched` must hold until the unwinding has ended: `Spared` says that a
skipped entry is as in `before`, and `Harmless` that nothing the journal still brings
back or removes is at, above or below it.

To reason about `Change` and `Forecast` at all they had to become chains of IF: as a
CASE with guards that overlap they left open which of the lists decides, and
`outturn_payload.go` asks them in an order.

### The links of a profile (`GenerationsProofs`)

The invariant joins `TypeOK` and `NeverDangles` with three parts for each run:
`RunFits` (what a step may rely on: a run that points has a link to point to, a
run past its record has its link-farm in the record), `RollbackFits` (no listed
generation lies between the one a rollback left and the one it found, though
others delete generations meanwhile) and `AloneFits` (while nothing else has
touched the links, what the run observed is still so). `NeverDangles` is needed for
the types: `CurrentGeneration` is a number of the list only if the profile leads to
one. That the newest generation is the largest number is proved from the
well-foundedness of `<` (`MaxIsLargest`). `GenerationsAreProfile` follows step by
step: the making of the link and the pointing of the profile are the two halves of
a commit of `Profile`, an act of another tool is one of `Profile`'s, all else is a
placement or a stutter.

### Prune against runs (`SeriesProofs`)

The common invariant relates what prune listed, what it has locked and what is on
disk: a name that prune has locked still has the inode it locked. Only prune
deletes a profileDir, hence `OnePruner` (there is at most one prune); section 4 says
what happens without it.

### `apply --all` (`ApplyAllProofs`)

`StageFits` says where every selected config is in each stage: waiting, in hand, or
through. `RunFits`, `RecordFits`, `HandFits` and `OutcomeFits` say what the work on a
config may hold: it builds in the build stage, writes in the apply stage only after
its build and never in a dry run, places targets of its new manifest, takes away
targets of its old one, and its journal undoes no more than that. `LinksLead` keeps
what a re-link restores within the types. `Clash` compares the configs of one
bucket, and the code's buckets are by `rootKind` or the fixed value of the root
(`apply.go:401`), never by the directory the root resolves to; that no two claim
one target *in one directory* therefore needs `RootsApart`. Without it
`BuildsBeforeWrites` still holds.

`BystandersStay` needs `KeepInv`: the old manifests of one root do not overlap, each
link of a config that nobody works on stands at its target below real directories,
and no run on that root plans to take that target for a directory or is about to
prune it. The steps of every other run then leave it there, for one lemma each
group of calls (`PreRemoveCalls`, `PlaceCalls`, `StaleCalls`, `AncestorCalls`,
`UndoCalls`).

### Only model-checked

- All liveness (`RunsEnd`, `WaitingRunsGo`, `EveryConfigSettles`): out of the
  prover's reach.
- `OwnFailuresOnly`, `AppliedIsPlaced`, `FailedLeavesOwn`: false on some instances
  (section 4), so a theorem would need the cause excluded by a hypothesis.
- `ReapplyNotRefused` for a manifest with one entry inside another.
- `PlacedWhenRecorded` for a manifest with one entry inside another.
- `UserDataKept` with nested targets under `--backup`.

## 6. What is abstracted

- *The tree.* Links are never followed for writing: sources are in a read-only
  store, so a write below a link fails. Modes, ownership and times are left out.
  A directory source holds one file.
- *One run at a time in `Engine`*, which the profile lock is for; `Series` shows
  when it holds and when not.
- *The backend* in `Engine` commits or switches in one step or fails as a whole;
  a commit always makes a generation. `Generations` has the steps, and no tree:
  a placement there succeeds or fails. nix-env replaces the pointer in one step
  (`nixprofile.go`, "atomically swaps"), so a crash between the unlink and the
  symlink of the test double `fake.go` is not among the crashes.
- *The report* has the lists, statuses and changes; error classes, item ids,
  warnings, reversibility and the statuses of a conflict stop are left out.
- *Files of layat's own.* A record, a backref and `.pending` are written in one
  step and are readable; discarding the journal (deleting the asides) is one step.
- *Unwinding* meets no fault of the environment, only the tree.
- *Consent.* `--recopy` gives up the copies it names when it starts, a reset when
  its prompt is answered, or when it starts with `--yes`.
- *Series.* One profile base; judging one series and `RemoveAll` of one
  profileDir are one step each; prune takes its locks in any order.
- *ApplyAll.* Symlinks only; the directories above a target are made, and undoing
  a re-link is done, in one step; another process that holds a lock is a choice
  (`SkipLocked`); the user does not write during the run.

## 7. What is not modelled

- The generators and everything in nix: external programs; the models take the
  manifest from a set and let a build fail. That stage 2 builds again what the
  preflight evaluated is a hazard without a property for this reason.
- `status` lists the readable records and never looks at the tree, and
  `list-generations` prints the links without the lock: neither decides or
  changes anything, and what they print about a commit under way is only stale.
- `init` and `gitignore` write one file from a template; git queries, flags and
  wording have no state.
- Corrupt or foreign-version records, origin mismatch warnings, the JSON envelope
  of the outturn document.
- The resolution of roots and the hashing of profile names: pure functions of the
  environment; `ApplyAll` takes where a root leads as a constant.
- Garbage collection of link-farms: `.pending` is in `Engine`, what a collection
  between two runs deletes is not.

## 8. Plan

Done, in this order: `LayatFS`, `Planner`, `Engine`, `PlannerProofs`,
`EngineProofs`, `Series`, `SeriesProofs`, `ApplyAll`, `Profile` and the refinement
of it by `Engine` and by `Generations` (both proved), `Report`, `ApplyAll` with
targets one below the other, `GenerationsProofs`, `ApplyAllProofs`, the proofs about
the tree, `EngineLinkProofs`, `RunProofs`, `ReportProofs`.

Left open, *atomic apply*: an abstract specification in which a run replaces the tree
at once or not at all, and `Engine` on the instances without deep migrations as its
refinement.
