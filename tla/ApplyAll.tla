------------------------------ MODULE ApplyAll -------------------------------
(***************************************************************************)
(* cmd/layat/apply.go, apply --all: the preflight over the selected        *)
(* configs, stage 1 which prebuilds them and stage 2 which applies them,   *)
(* each on a pool of Jobs workers, and the report.  The configs of one     *)
(* invocation place into the same roots, so stage 2 interleaves their      *)
(* engine runs on one tree, call by call.  Here an engine run places       *)
(* symlinks only: copies and backups are Engine's.  Nobody else writes to  *)
(* the roots.                                                              *)
(***************************************************************************)
EXTENDS Planner

CONSTANTS
  Config,     \* the configs, as numbers in lexical order
  Jobs,       \* --jobs, resolved
  Disk,       \* the directories that roots resolve to
  DirOf,      \* [Root -> Disk]: where a root resolves to, --root included
  Override,   \* the root --root names
  Candidates,    \* [Config -> the roots and manifests it may have]
  Filters,    \* the root filters the run may be given, None for none
  Strays,     \* the targets a user's file may occupy
  Mine,       \* the content of that file
  MaxFaults   \* bound on failing calls

Root == DOMAIN DirOf
Manifest == UNION {[T -> EntryInfo] : T \in SUBSET Target}

ASSUME ApplyAllAssumption ==
  /\ Config \subseteq Nat /\ IsFiniteSet(Config)
  /\ Jobs \in Nat \ {0} /\ MaxFaults \in Nat
  /\ DirOf \in [Root -> Disk] /\ Override \in Root /\ None \notin Root
  /\ \A c \in Config : Candidates[c] \subseteq [root : Root, was : Manifest, want : Manifest]
  /\ \A c \in Config : \A k \in Candidates[c] : Copies(k.was) \cup Copies(k.want) = {}
  /\ Filters \subseteq Root \cup {None}
  /\ Strays \subseteq SUBSET Target /\ Mine \in User

VARIABLES
  asked,    \* the evaluated configs and the options of the invocation
  stage,    \* "check", "build", "apply" or "done"
  queue,    \* the configs no worker has taken yet, taken in lexical order
  built,    \* what stage 1 made of each config
  run,      \* the work in a worker's hands, by config
  outcome,  \* how each config settled in stage 2
  record,   \* the last-applied record of each config
  disk,     \* the tree of each root directory
  report,   \* the counts and the exit code
  start,    \* the trees when the invocation began
  excused,  \* the configs that failed for a reason of their own
  faults    \* failing calls so far

pool == <<stage, queue, built>>
ghosts == <<start, excused, faults>>
vars == <<asked, pool, run, outcome, record, disk, report, ghosts>>

-----------------------------------------------------------------------------
\* Mutant: --root leaves the buckets as they are.
BucketByKind(c) == asked.conf[c].root

\* bucketOf: one bucket under --root, else one per rootKind or fixed value.
Bucket(c) == IF asked.override THEN Override ELSE asked.conf[c].root

RootDir(c) == DirOf[IF asked.override THEN Override ELSE asked.conf[c].root]
Want(c) == asked.conf[c].want
Was(c) == asked.conf[c].was

Selected == {c \in Config : asked.filter \in {None, asked.conf[c].root}}

Busy == {c \in Config : run[c].pc # "idle"}
Idle == [pc |-> "idle", plan |-> NoPlan, mid |-> "none", at |-> << >>, journal |-> << >>]

Places(conf, override) ==
  [c \in Config |-> [dir |-> DirOf[IF override THEN Override ELSE conf[c].root],
                     was |-> conf[c].was]]

\* Nothing lies at, above or below a recorded link but its directories.
Possible(at, stray) ==
  /\ \A c, e \in Config : (c # e /\ at[c].dir = at[e].dir) =>
       DOMAIN at[c].was \cap DOMAIN at[e].was = {}
  /\ \A c, e \in Config : at[c].dir = at[e].dir =>
       \A t \in DOMAIN at[c].was : Below[t] \cap DOMAIN at[e].was = {}
  /\ \A c \in Config : \A t \in DOMAIN at[c].was : (Above[t] \cup At(t)) \cap stray = {}

Laid(conf, dir, stray) ==
  LET links(p) == {c \in Config : dir = conf[c].dir /\ p \in DOMAIN conf[c].was}
      used == stray \cup UNION {DOMAIN conf[c].was : c \in {k \in Config : conf[k].dir = dir}}
  IN [p \in Path |->
        IF links(p) # {} THEN LinkTo(conf[CHOOSE c \in links(p) : TRUE].was[p].src)
        ELSE IF p \in stray THEN FileOf(Mine)
        ELSE IF Below[p] \cap used # {} THEN Dir
        ELSE Absent]

\* Each config's recorded links are in place; a user's files may be in the way.
Init ==
  /\ \E conf \in {f \in [Config -> UNION Range(Candidates)] : \A c \in Config : f[c] \in Candidates[c]},
        override, dryrun \in BOOLEAN, filter \in Filters, stray \in Strays :
       /\ Possible(Places(conf, override), stray)
       /\ asked = [conf |-> conf, override |-> override, filter |-> filter, dryrun |-> dryrun]
       /\ disk = [d \in Disk |-> Laid(Places(conf, override), d, stray)]
  /\ start = disk
  /\ record = [c \in Config |-> Was(c)]
  /\ stage = "check" /\ queue = {}
  /\ built = [c \in Config |-> "none"] /\ outcome = [c \in Config |-> "none"]
  /\ run = [c \in Config |-> Idle]
  /\ report = [applied |-> 0, skipped |-> 0, failed |-> 0, code |-> 0]
  /\ excused = {} /\ faults = 0

-----------------------------------------------------------------------------
(* The orchestration. *)

\* detectCrossConfigConflicts
Clash == \E c, e \in Selected :
           c # e /\ Bucket(c) = Bucket(e) /\ DOMAIN Want(c) \cap DOMAIN Want(e) # {}

\* Before any build: nothing selected, a clash, or on to stage 1.
Preflight ==
  /\ stage = "check"
  /\ IF Selected = {} \/ Clash
     THEN /\ stage' = "done"
          /\ report' = [report EXCEPT !.code = IF Clash THEN 1 ELSE 0]
          /\ UNCHANGED queue
     ELSE stage' = "build" /\ queue' = Selected /\ UNCHANGED report
  /\ UNCHANGED <<asked, built, run, outcome, record, disk, ghosts>>

\* Mutant: a goroutine per config.
WorkerPerConfig == TRUE

FreeWorker == Cardinality(Busy) < Jobs

\* queue <- i: a free worker receives the next config.
Hand ==
  /\ stage \in {"build", "apply"} /\ FreeWorker
  /\ \E c \in queue :
       /\ \A e \in queue : c <= e
       /\ run' = [run EXCEPT ![c].pc = stage]
       /\ queue' = queue \ {c}
  /\ UNCHANGED <<asked, stage, built, outcome, record, disk, report, ghosts>>

Prebuild(c) ==
  /\ run[c].pc = "build"
  /\ \/ built' = [built EXCEPT ![c] = "ok"] /\ UNCHANGED excused
     \/ built' = [built EXCEPT ![c] = "error"] /\ excused' = excused \cup {c}
  /\ run' = [run EXCEPT ![c] = Idle]
  /\ UNCHANGED <<asked, stage, queue, outcome, record, disk, report, start, faults>>

\* Mutant: the workers still at work are not waited for.
NobodyWaits == queue = {}

\* wg.Wait
AllReturned == queue = {} /\ Busy = {}

\* Stage 2 begins once every build ended.
BeginApply ==
  /\ stage = "build" /\ AllReturned
  /\ stage' = "apply" /\ queue' = Selected
  /\ UNCHANGED <<asked, built, run, outcome, record, disk, report, ghosts>>

Settled(how) == Cardinality({c \in Selected : outcome[c] = how})

\* applyAllExitCode: error over conflict over success.
ExitCode(failures, conflicts) ==
  IF failures > 0 THEN 1 ELSE IF conflicts > 0 THEN 2 ELSE 0

Report ==
  /\ stage = "apply" /\ AllReturned
  /\ stage' = "done"
  /\ report' = [applied |-> Settled("applied"), skipped |-> Settled("skipped"),
                failed |-> Settled("failed"),
                code |-> ExitCode(Settled("failed"), Settled("conflict"))]
  /\ UNCHANGED <<asked, queue, built, run, outcome, record, disk, ghosts>>

-----------------------------------------------------------------------------
(* One config in stage 2, up to its first write. *)

Settle(c, how) ==
  /\ outcome' = [outcome EXCEPT ![c] = how]
  /\ run' = [run EXCEPT ![c] = Idle]

Quiet == UNCHANGED <<asked, pool, record, disk, report, start, faults>>

Built(c) == built[c] = "ok"

\* skipFailedPrebuilds
PassOver(c) ==
  /\ run[c].pc = "apply" /\ ~Built(c)
  /\ Settle(c, "failed") /\ Quiet /\ UNCHANGED excused

Ready(c) == run[c].pc = "apply" /\ Built(c)

PlanOf(c) == Compute(disk[RootDir(c)], record[c], Want(c), FALSE)
Refused(c) == PlanOf(c).failed \/ PlanOf(c).conflicts # {}

\* aggregateDryRun: the plan is shown, conflicts are not errors.
DryPlan(c) ==
  /\ Ready(c) /\ asked.dryrun
  /\ \/ /\ ~PlanOf(c).failed
        /\ Settle(c, IF PlanOf(c).conflicts # {} THEN "conflict" ELSE "planned")
        /\ UNCHANGED excused
     \/ Settle(c, "failed") /\ excused' = excused \cup {c}
  /\ Quiet

\* --no-wait, and another process holds the profile lock.
SkipLocked(c) ==
  /\ Ready(c) /\ ~asked.dryrun
  /\ Settle(c, "skipped") /\ Quiet /\ UNCHANGED excused

\* engine.Apply builds in the lock and plans.
Start(c) ==
  /\ Ready(c) /\ ~asked.dryrun
  /\ \/ Settle(c, "failed") /\ excused' = excused \cup {c}
     \/ /\ ~Refused(c)
        /\ run' = [run EXCEPT ![c].pc = "stages", ![c].plan = PlanOf(c)]
        /\ UNCHANGED <<outcome, excused>>
  /\ Quiet

-----------------------------------------------------------------------------
(* The stages, one call at a time. *)

Here(c) == disk[RootDir(c)]
Write(c, f) == disk' = [disk EXCEPT ![RootDir(c)] = f]
Does(c, r) == /\ run' = [run EXCEPT ![c] = r]
              /\ UNCHANGED <<asked, pool, outcome, record, report, ghosts>>

ToPlace(c) == run[c].plan.new \cup run[c].plan.replace \cup run[c].plan.foreign
AtStep(c, step) == run[c].pc = "stages" /\ run[c].mid = step

\* Mutant: the old destination is not journaled.
JournaledBlind(c, kind, p, d) ==
  Append(run[c].journal, [kind |-> kind, path |-> p, dest |-> None])

Journaled(c, kind, p, d) == Append(run[c].journal, [kind |-> kind, path |-> p, dest |-> d])
Placed(c, t) == [run[c].plan EXCEPT !.new = @ \ {t}, !.replace = @ \ {t}, !.foreign = @ \ {t}]
Step(c, step, t) == [run[c] EXCEPT !.mid = step, !.at = t]

\* preRemove takes children before their parents.
ToClear(c) == run[c].plan.unlink \cup run[c].plan.rmdir
Deepest(p, P) == p \in P /\ Below[p] \cap P = {}
Uncleared(c, p) == [run[c].plan EXCEPT !.unlink = @ \ {p}, !.rmdir = @ \ {p}]

\* preRemove: a recorded link, verified and removed in two calls.
VerifyDropped(c, p) ==
  /\ AtStep(c, "none") /\ p \in run[c].plan.unlink /\ Deepest(p, ToClear(c))
  /\ RecordedLink(Here(c), record[c], p)
  /\ UNCHANGED disk
  /\ Does(c, Step(c, "dropped", p))

UnlinkDropped(c) ==
  LET p == run[c].at IN
  /\ AtStep(c, "dropped") /\ CanRemove(Here(c), p)
  /\ Write(c, Put(Here(c), p, Absent))
  /\ Does(c, [run[c] EXCEPT !.mid = "none", !.plan = Uncleared(c, p),
                !.journal = Journaled(c, "relinkOld", p, record[c][p].src)])

\* preRemove: an empty directory, or what has taken its place.
RmdirMigrated(c, p) ==
  /\ AtStep(c, "none") /\ p \in run[c].plan.rmdir /\ Deepest(p, ToClear(c))
  /\ IF Exists(Here(c), p)
     THEN /\ CanRemove(Here(c), p)
          /\ Write(c, Put(Here(c), p, Absent))
          /\ Does(c, [run[c] EXCEPT !.plan = Uncleared(c, p),
                                    !.journal = Journaled(c, "mkdir", p, None)])
     ELSE UNCHANGED disk /\ Does(c, [run[c] EXCEPT !.plan = Uncleared(c, p)])

\* ensureParentDir
MakeParents(c, t) ==
  /\ AtStep(c, "none") /\ ToClear(c) = {} /\ t \in ToPlace(c)
  /\ CanMkdirs(Here(c), t)
  /\ Write(c, Mkdirs(Here(c), t))
  /\ Does(c, Step(c, "made", t))

SymlinkNew(c) ==
  LET t == run[c].at IN
  /\ AtStep(c, "made") /\ t \in run[c].plan.new
  /\ InRealDir(Here(c), t) /\ ~Exists(Here(c), t)
  /\ Write(c, Put(Here(c), t, LinkTo(Want(c)[t].src)))
  /\ Does(c, [run[c] EXCEPT !.mid = "none", !.plan = Placed(c, t),
                            !.journal = Journaled(c, "unlinkNew", t, None)])

Unlink(c) ==
  LET t == run[c].at IN
  /\ AtStep(c, "made") /\ t \in run[c].plan.replace \cup run[c].plan.foreign
  /\ IsLink(Here(c), t)
  /\ Write(c, Put(Here(c), t, Absent))
  /\ Does(c, [run[c] EXCEPT !.mid = "unlinked",
                            !.journal = Journaled(c, "relinkOld", t, Here(c)[t].val)])

Resymlink(c) ==
  LET t == run[c].at IN
  /\ AtStep(c, "unlinked")
  /\ InRealDir(Here(c), t) /\ ~Exists(Here(c), t)
  /\ Write(c, Put(Here(c), t, LinkTo(Want(c)[t].src)))
  /\ Does(c, [run[c] EXCEPT !.mid = "none", !.plan = Placed(c, t)])

Unstale(c, t) == [run[c].plan EXCEPT !.remove = @ \ {t}]

\* reverifyStale: a link that drifted is kept.
Reverify(c, t) ==
  /\ AtStep(c, "none") /\ ToClear(c) \cup ToPlace(c) = {} /\ t \in run[c].plan.remove
  /\ UNCHANGED disk
  /\ IF RecordedLink(Here(c), record[c], t) THEN Does(c, Step(c, "stale", t))
     ELSE Does(c, [run[c] EXCEPT !.plan = Unstale(c, t)])

\* os.Remove, of whatever is there by now.
RemoveStale(c) ==
  LET t == run[c].at IN
  /\ AtStep(c, "stale") /\ CanRemove(Here(c), t)
  /\ Write(c, Put(Here(c), t, Absent))
  /\ Does(c, [run[c] EXCEPT !.mid = "prune", !.plan = Unstale(c, t),
                !.journal = Journaled(c, "relinkOld", t, record[c][t].src)])

\* pathHasSymlinkComponent: no link on the way to an ancestor, nor in its place.
CheckAncestor(c) ==
  LET up == Front(run[c].at) IN
  /\ AtStep(c, "prune")
  /\ UNCHANGED disk
  /\ IF up \in Path /\ \A q \in Above[up] \cup {up} : ~IsLink(Here(c), q)
     THEN Does(c, Step(c, "ancestor", up))
     ELSE Does(c, Step(c, "none", << >>))

\* Mutant: RemoveAll.
RemovesAnyDir(f, p) == Exists(f, p)

\* os.Remove, of whatever is there by now.
Removable(f, p) == CanRemove(f, p)

\* pruneEmptyAncestors
PruneAncestor(c) ==
  LET up == run[c].at IN
  /\ AtStep(c, "ancestor")
  /\ IF Removable(Here(c), up)
     THEN /\ Write(c, Clear(Here(c), up))
          /\ Does(c, [run[c] EXCEPT !.mid = "prune",
                                    !.journal = Journaled(c, "mkdir", up, None)])
     ELSE UNCHANGED disk /\ Does(c, Step(c, "none", << >>))

\* A call that cannot succeed: the parent went, or the place was taken.
Hindered(c) ==
  \/ /\ AtStep(c, "none")
     /\ \E p \in ToClear(c) :
          /\ Deepest(p, ToClear(c))
          /\ IF p \in run[c].plan.unlink THEN ~RecordedLink(Here(c), record[c], p)
             ELSE Exists(Here(c), p) /\ ~CanRemove(Here(c), p)
  \/ AtStep(c, "dropped") /\ ~CanRemove(Here(c), run[c].at)
  \/ /\ AtStep(c, "none") /\ ToClear(c) = {}
     /\ \E t \in ToPlace(c) : ~CanMkdirs(Here(c), t)
  \/ /\ AtStep(c, "made")
     /\ IF run[c].at \in run[c].plan.new
        THEN ~InRealDir(Here(c), run[c].at) \/ Exists(Here(c), run[c].at)
        ELSE ~IsLink(Here(c), run[c].at)
  \/ AtStep(c, "unlinked") /\ (~InRealDir(Here(c), run[c].at) \/ Exists(Here(c), run[c].at))
  \/ AtStep(c, "stale") /\ ~CanRemove(Here(c), run[c].at)

Unwind(c) == run' = [run EXCEPT ![c].pc = "unwind"]

\* A stage fails: on what another config did, or on the environment.
Fail(c) ==
  /\ run[c].pc = "stages" /\ Unwind(c)
  /\ \/ Hindered(c) /\ UNCHANGED <<excused, faults>>
     \/ /\ faults < MaxFaults
        /\ faults' = faults + 1 /\ excused' = excused \cup {c}
  /\ UNCHANGED <<asked, pool, outcome, record, disk, report, start>>

\* recordPlacement, then the commit, whose failure is not unwound.
Record(c) ==
  /\ AtStep(c, "none") /\ ToClear(c) \cup ToPlace(c) \cup run[c].plan.remove = {}
  /\ record' = [record EXCEPT ![c] = Want(c)]
  /\ run' = [run EXCEPT ![c].pc = "commit"]
  /\ UNCHANGED <<asked, pool, outcome, disk, report, ghosts>>

Commit(c) ==
  /\ run[c].pc = "commit"
  /\ \/ Settle(c, "applied") /\ UNCHANGED <<excused, faults>>
     \/ /\ faults < MaxFaults /\ faults' = faults + 1
        /\ Settle(c, "failed") /\ excused' = excused \cup {c}
  /\ UNCHANGED <<asked, pool, record, disk, report, start>>

Restored(f, op) ==
  CASE op.kind = "unlinkNew" -> IF CanRemove(f, op.path) THEN Put(f, op.path, Absent) ELSE f
    [] op.kind = "relinkOld" ->
         IF Exists(f, op.path) /\ ~CanRemove(f, op.path) THEN f
         ELSE IF InRealDir(f, op.path) THEN Put(f, op.path, LinkTo(op.dest))
         ELSE f
    [] op.kind = "mkdir" ->
         IF InRealDir(f, op.path) /\ ~Exists(f, op.path) THEN Put(f, op.path, Dir) ELSE f

Undone(c, op, rest) ==
  /\ Write(c, Restored(Here(c), op))
  /\ run' = [run EXCEPT ![c].journal = rest]
  /\ UNCHANGED <<asked, pool, outcome, record, report, ghosts>>

Unwinding(c) == run[c].pc = "unwind" /\ run[c].journal # << >>

\* Mutants: oldest first; an undone change stays in the journal.
UndoWithoutPop(c) == Unwinding(c) /\ Undone(c, Last(run[c].journal), run[c].journal)
UndoOldest(c) == Unwinding(c) /\ Undone(c, Head(run[c].journal), Tail(run[c].journal))

\* unwind: newest first; an inverse that fails is only reported.
Undo(c) == Unwinding(c) /\ Undone(c, Last(run[c].journal), Front(run[c].journal))

Unwound(c) ==
  /\ run[c].pc = "unwind" /\ run[c].journal = << >>
  /\ Settle(c, "failed")
  /\ UNCHANGED <<asked, pool, record, disk, report, ghosts>>

-----------------------------------------------------------------------------
Work(c) ==
  \/ Prebuild(c) \/ PassOver(c) \/ DryPlan(c) \/ SkipLocked(c) \/ Start(c)
  \/ \E p \in Path : VerifyDropped(c, p) \/ RmdirMigrated(c, p)
  \/ UnlinkDropped(c)
  \/ \E t \in Target : MakeParents(c, t) \/ Reverify(c, t)
  \/ SymlinkNew(c) \/ Unlink(c) \/ Resymlink(c)
  \/ RemoveStale(c) \/ CheckAncestor(c) \/ PruneAncestor(c)
  \/ Fail(c) \/ Record(c) \/ Commit(c) \/ Undo(c) \/ Unwound(c)

Orchestrate == Preflight \/ Hand \/ BeginApply \/ Report

\* The process is gone.
Exited == stage = "done" /\ UNCHANGED vars

Next == Orchestrate \/ (\E c \in Config : Work(c)) \/ Exited

Spec == Init /\ [][Next]_vars

\* Goroutines run: the main one and each worker that can go on.
FairSpec == Spec /\ WF_vars(Orchestrate) /\ \A c \in Config : WF_vars(Work(c))

-----------------------------------------------------------------------------
(* Properties. *)

Op == [kind : {"unlinkNew", "mkdir"}, path : Path, dest : {None}]
        \cup [kind : {"relinkOld"}, path : Path, dest : Src \cup Foreign]
InHand == [pc : {"idle", "build", "apply", "stages", "commit", "unwind"}, plan : Plan,
          mid : {"none", "dropped", "made", "unlinked", "stale", "prune", "ancestor"}, at : Path \cup {<< >>},
          journal : Seq(Op)]

\* Every variable holds what its comment says.
TypeOK ==
  /\ \A c \in Config : asked.conf[c] \in Candidates[c]
  /\ asked.filter \in Filters /\ {asked.override, asked.dryrun} \subseteq BOOLEAN
  /\ stage \in {"check", "build", "apply", "done"}
  /\ queue \subseteq Config
  /\ built \in [Config -> {"none", "ok", "error"}]
  /\ run \in [Config -> InHand]
  /\ outcome \in [Config -> {"none", "applied", "skipped", "failed", "planned", "conflict"}]
  /\ record \in [Config -> Manifest]
  /\ {disk, start} \subseteq [Disk -> Tree]
  /\ report \in [applied : Nat, skipped : Nat, failed : Nat, code : 0 .. 2]
  /\ excused \subseteq Config /\ faults \in 0 .. MaxFaults

\* A config that is reported as applied has every link of its manifest and none
\* it dropped, whatever the other configs placed, pruned and undid meanwhile
\* (apply.go:355, "each independently atomic").
AppliedIsPlaced ==
  \A c \in Config : outcome[c] = "applied" =>
    /\ \A t \in DOMAIN Want(c) : Here(c)[t] = LinkTo(Want(c)[t].src)
    /\ \A t \in DOMAIN Was(c) \ DOMAIN Want(c) : ~RecordedLink(Here(c), Was(c), t)

Bystander(c) == c \notin Selected \/ outcome[c] = "skipped" \/ built[c] = "error"

Claimed(d) == UNION {DOMAIN Want(c) : c \in {k \in Selected : RootDir(k) = d}}

\* A config that was not selected, was skipped or did not build keeps the links
\* it had, where no selected config claims their target: neither a prune nor an
\* unwind of another config takes them.
BystandersKeep ==
  \A c \in Config : Bystander(c) =>
    \A t \in DOMAIN Was(c) \ Claimed(RootDir(c)) : Here(c)[t] = start[RootDir(c)][t]

\* The exit code and the counts cover every selected config: 0 says that each
\* one was built and applied, skipped or planned without a conflict, 2 that none
\* failed, and the counts add up (applyAllExitCode, aggregateApply).
ExitCodeTells ==
  stage = "done" =>
    /\ report.code = 0 =>
         /\ ~Clash
         /\ \A c \in Selected : built[c] = "ok" /\ outcome[c] \in {"applied", "skipped", "planned"}
    /\ report.code = 2 => \A c \in Selected : outcome[c] \notin {"none", "failed"}
    /\ (~Clash /\ ~asked.dryrun) =>
         report.applied + report.skipped + report.failed = Cardinality(Selected)

\* Nothing is placed before every selected config is built, and nothing at all
\* when two of them claim one target of one root (runApplyAll, 2.3 and 2.4).
BuildsComeFirst ==
  disk # start =>
    /\ \A c \in Selected : built[c] # "none"
    /\ \A c, e \in Selected : (c # e /\ RootDir(c) = RootDir(e)) =>
         DOMAIN Want(c) \cap DOMAIN Want(e) = {}

\* A config fails for a reason of its own: its build, its plan, or a failing
\* call.  REQ-91f0a9a7 (docs/requirements/20260926-91f0a9a7...:19): the counts
\* "SHALL NOT depend on the value of `--jobs`".
OwnFailuresOnly ==
  \A c \in Config : outcome[c] = "failed" => c \in excused

\* What c places and removes, where no other config has or wants anything, there
\* or above or below.
Own(c) ==
  {t \in DOMAIN Was(c) \cup DOMAIN Want(c) :
     \A e \in Config \ {c} :
       (Above[t] \cup At(t)) \cap (DOMAIN Was(e) \cup DOMAIN Want(e)) = {}}

\* A config that failed before its record has what it had at its own targets
\* (REQ-4cbd9a0d, "each config is an independent atomic profile").
FailedLeavesOwn ==
  \A c \in Config : (outcome[c] = "failed" /\ record[c] = Was(c)) =>
    \A t \in Own(c) : Here(c)[t] = start[RootDir(c)][t]

\* The invocation ends, with every selected config settled unless it clashed.
EveryConfigSettles ==
  <>(stage = "done" /\ (Clash \/ \A c \in Selected : outcome[c] # "none"))
=============================================================================
