-------------------------------- MODULE Report --------------------------------
(***************************************************************************)
(* What apply, rollback and reset tell of themselves: the lists of         *)
(* engine.Result, which a run fills as it goes, and what                   *)
(* cmd/layat/outturn_payload.go makes of them, that is a status for every  *)
(* entry and a change for every difference; and what apply --dryrun would  *)
(* have told on the tree the run started from.  The run itself is Engine.  *)
(***************************************************************************)
EXTENDS Engine

VARIABLE result

allVars == <<vars, result>>

\* The lists of engine.Result.  olds: ReplacedDests; kept: stale links that
\* drifted; planned: the plan of a dry run.
NoResult ==
  [placed |-> {}, replaced |-> {}, copied |-> {}, recopied |-> {}, removed |-> {},
   backedUp |-> {}, kept |-> {}, olds |-> [t \in Target |-> None],
   failed |-> << >>, unreached |-> {}, planned |-> NoPlan]

ReportInit == Init /\ result = NoResult

Same == UNCHANGED result
Forget == result' = NoResult
Tell(field, t) == result' = [result EXCEPT ![field] = @ \cup {t}]

-----------------------------------------------------------------------------
(* Failing: FailedTarget and Unreached.                                     *)

Done == result.placed \cup result.replaced \cup result.copied \cup result.recopied
          \cup result.removed \cup result.backedUp

\* Mutant: what is re-linked is forgotten.
LeftUnlinked == plan.unlink \cup plan.backup \cup plan.new \cup plan.copies \cup plan.remove

\* What the plan still has to do, the stale links that drifted included.
Left == plan.unlink \cup plan.backup \cup plan.new \cup Relinks \cup plan.copies
          \cup plan.remove \cup result.kept

\* Mutant: a target that was done once and is planned again is unreached too.
UnreachedAll(t) == Left \ {t}

\* fail: what was planned and neither done, whatever was done to it, nor failed.
Unreached(t) == Left \ (Done \cup {t})

\* t is the target of the entry that failed, or << >> when none did.  A failing
\* repair under a generation skip returns no result at all.
TellFailure(t) ==
  result' = IF run.skip THEN NoResult
            ELSE [result EXCEPT !.failed = t, !.unreached = Unreached(t)]

\* What the failing call was about: a directory and the record are no entry.
Failing ==
  IF mid # NoMid THEN {mid.path}
  ELSE CASE Stage = "preRemove" -> plan.unlink \cup (IF plan.rmdir = {} THEN {} ELSE {<< >>})
         [] Stage = "backup" -> plan.backup
         [] Stage = "place" -> plan.new \cup Relinks
         [] Stage = "copy" -> plan.copies
         [] Stage = "removeStale" -> plan.remove
         [] Stage = "record" -> {<< >>}

-----------------------------------------------------------------------------
(* The steps of Engine and what each tells.                                 *)

\* Mutant: the dry run forgets --backup.
PreviewPlain(r) == Compute(fs, r.base, r.next, FALSE)

\* dryRun: the plan on the tree the run itself starts from.
Preview(r) == Compute(fs, r.base, r.next, r.backup)

TellStart ==
  \/ /\ \E m \in Manifests, mod \in Modifiers : StartApply(m, mod)
     /\ IF phase' = "idle" THEN Forget
        ELSE result' = [NoResult EXCEPT !.planned = Preview(run')]
  \/ StartRollback /\ Forget
  \/ (\E T \in SUBSET DOMAIN Baseline : StartReset(T)) /\ Forget

Asided(t) == \E i \in DOMAIN journal : journal[i].kind = "restoreRename" /\ journal[i].path = t

TellStage ==
  \/ \E p \in plan.unlink : PreRemoveUnlink(p) /\ Tell("removed", p)
  \/ \E p \in plan.rmdir : PreRemoveRmdir(p) /\ Same
  \/ \E t \in plan.backup : BackUp(t) /\ Tell("backedUp", t)
  \/ \E t \in plan.new : PlaceNew(t) /\ Tell("placed", t)
  \/ \E t \in Relinks :
       \/ RelinkUnlink(t) /\ Same
       \/ /\ RelinkSymlink(t)
          /\ result' = [result EXCEPT !.replaced = @ \cup {t},
                                      !.olds[t] = Last(journal).dest]
  \/ \E t \in plan.copies :
       \/ (RecopyAside(t) \/ CopyStart(t)) /\ Same
       \/ CopyFinish(t) /\ Tell(IF Asided(t) THEN "recopied" ELSE "copied", t)
       \/ CopyStuck(t) /\ TellFailure(t)
       \/ ResetCopy(t) /\ Tell("removed", t)
  \/ \E t \in plan.remove :
       RemoveStale(t) /\ Tell(IF StillStale(t) THEN "removed" ELSE "kept", t)
  \/ PruneAncestor /\ Same
  \/ \E p \in Path :
       StageStuck(p) /\ TellFailure(IF p \in plan.rmdir THEN << >> ELSE p)

TellFinish ==
  \/ (WriteRecord \/ Commit \/ UndoStep) /\ Same
  \/ (DiscardJournal \/ Unwound \/ RecordAfterReset) /\ Forget

TellFault ==
  \/ StageFault /\ \E t \in Failing : TellFailure(t)
  \/ PruneFault /\ Same
  \/ /\ ResetFault
     /\ IF plan.remove # {} THEN \E t \in plan.remove : TellFailure(t)
        ELSE \E t \in plan.copies :
               result' = [result EXCEPT !.failed = t, !.unreached = plan.copies \ {t}]
  \/ (CommitFault \/ ResetRecordFault) /\ Forget

ReportNext ==
  \/ TellStart \/ TellStage \/ TellFinish \/ TellFault
  \/ (AnswerReset \/ Crash \/ UserStep) /\ Forget

ReportSpec == ReportInit /\ [][ReportNext]_allVars

-----------------------------------------------------------------------------
(* outturn_payload.go: the status of an entry and the change at a target.   *)

Status(t) == CASE t = result.failed -> "failed"
               [] t \in result.unreached -> "skipped"
               [] OTHER -> "success"

\* A re-link to where the link already pointed is none.
Relinked(t) == IF result.olds[t] = run.next[t].src THEN "none" ELSE "modify"

\* Mutants: what is removed and placed again is told as new, or as removed; what
\* --recopy overwrites is not told.
AddedAnew(t) ==
  IF t \in result.placed \cup result.copied THEN "add"
  ELSE IF t \in result.replaced THEN Relinked(t)
  ELSE IF t \in result.recopied THEN "modify"
  ELSE IF t \in result.removed THEN "remove"
  ELSE "none"

Uncoalesced(t) ==
  IF t \in result.removed THEN "remove"
  ELSE IF t \in result.placed \cup result.copied THEN "add"
  ELSE IF t \in result.replaced THEN Relinked(t)
  ELSE IF t \in result.recopied THEN "modify"
  ELSE "none"

RecopyUntold(t) ==
  IF t \in result.placed \cup result.copied
  THEN IF t \in result.removed THEN "modify" ELSE "add"
  ELSE IF t \in result.replaced THEN Relinked(t)
  ELSE IF t \in result.removed THEN "remove"
  ELSE "none"

\* mutationPayload and resetPayload; the first list that has t decides.
Change(t) ==
  IF t \in result.placed \cup result.copied
  THEN IF t \in result.removed THEN "modify" ELSE "add"
  ELSE IF t \in result.replaced THEN Relinked(t)
  ELSE IF t \in result.recopied THEN "modify"
  ELSE IF t \in result.removed THEN "remove"
  ELSE "none"

\* mutationPayload of a dry run, where no re-link is known to be in vain.
Forecast(t) ==
  LET p == result.planned
      goes == t \in p.unlink \cup p.remove
  IN IF t \in p.new \cup p.copies THEN IF goes THEN "modify" ELSE "add"
     ELSE IF t \in p.replace \cup p.foreign THEN "modify"
     ELSE IF goes THEN "remove"
     ELSE "none"

-----------------------------------------------------------------------------
(* Properties.                                                              *)

\* Between two entries of a run, when everything done has been told.
Told == phase \in {"stages", "commit", "discard", "teardown"} /\ mid.step \in {"none", "prune"}

Placed(t) == /\ t \in DOMAIN run.next
             /\ IF run.next[t].method = "symlink" THEN fs[t] = LinkTo(run.next[t].src)
                ELSE HoldsCopy(fs, run.next[t].src, t)

\* Whatever a run has told so far, the tree bears out: what is added was not
\* there (or was backed up) and is in place, what is modified was there and is in
\* place, what is removed was there and is gone; also at the moment of a failure
\* and in the middle of a reset ("The kind SHALL reflect the transition that
\* actually occurred", REQ-2ea19863).
ChangesTellTheTree ==
  Told =>
    \A t \in Target :
      CASE Change(t) = "add" ->
             Placed(t) /\ (t \in result.backedUp \/ before[t].kind \in {"absent", "dir"})
        [] Change(t) = "modify" ->
             Placed(t) /\ Exists(before, t) /\ (fs[t] = before[t] => t \in result.recopied)
        [] Change(t) = "remove" ->
             Exists(before, t) /\ fs[t].kind \in {"absent", "dir"} /\ ~Placed(t)
        [] OTHER -> TRUE

\* Nothing changes in silence: a file or a link that a run put, replaced or took
\* away lies at a target it tells of, in a directory it told of as a whole, or in
\* a backup; the asides are layat's own (outturn_payload.go mutationPayload).
NothingSilent ==
  Told =>
    \A p \in Path \ AsidePath :
      \/ fs[p] = before[p]
      \/ {fs[p], before[p]} \subseteq {Absent, Dir}
      \/ \E t \in Target : p \in At(t) /\ (Change(t) # "none" \/ t \in result.backedUp)
      \/ \E t \in result.backedUp : p \in At(BackupOf[t])

\* What apply --dryrun announces is what the run then does, but for the copies of
\* --recopy, which are not announced, and for re-links in vain, which are
\* (REQ-fa181aa6; engine.go dryRun).
DryRunTells ==
  phase \in {"commit", "discard"} /\ run.op = "apply" =>
    \A t \in Target :
      \/ Change(t) = Forecast(t)
      \/ run.recopy /\ t \in Copies(run.next)
      \/ t \in Symlinks(run.next) /\ Change(t) = "none" /\ fs[t] = before[t]

\* An entry that a failed run reports as skipped is as it was before the run,
\* while the rest is being unwound too (engine.go fail).
SkippedUntouched ==
  phase = "unwind" =>
    \A t \in Target :
      Status(t) = "skipped" => fs[t] = before[t] \/ {fs[t], before[t]} \subseteq {Absent, Dir}

\* An entry that a failing run reports as a success is in place when it fails,
\* unless the run has cleared its target (a link that becomes a copy, a file that
\* was backed up) and did not come to place it ("an entry completed before the
\* failure stays success", REQ-2ea19863).
SuccessIsInPlace ==
  [][phase = "stages" /\ phase' = "unwind" /\ ~run.skip =>
       \A t \in DOMAIN run.next :
         \/ Status(t)' # "success"
         \/ t \in result.removed \cup result.backedUp
         \/ IF run.next[t].method = "symlink" THEN fs'[t] = LinkTo(run.next[t].src)
            ELSE Exists(fs', t)]_allVars
=============================================================================
