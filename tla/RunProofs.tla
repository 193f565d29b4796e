------------------------------- MODULE RunProofs -------------------------------
(***************************************************************************)
(* What a run of Engine does to the tree, seen from the tree it started    *)
(* from; for any manifests whose entries keep apart, any tree, and any     *)
(* failures and crashes; and that an interrupted run can be repeated.      *)
(* ReportProofs adds that the run tells as much.                           *)
(***************************************************************************)
EXTENDS EngineLinkProofs, Report

\* No copy of next contains an entry of prev, and no entry of next another one.
Apart(prev, next) ==
  /\ Unnested(next)
  /\ \A s \in Copies(next), t \in DOMAIN prev : t \notin Below[s]

\* The user edits between the runs, and the manifests of a profile keep apart.
EntriesApart ==
  /\ UserDuringRun = FALSE
  /\ \A m, n \in Manifests : Apart(m, n)

-----------------------------------------------------------------------------
(* The parts of a plan without conflicts.                                   *)

LEMMA PlannedUnlink ==
  ASSUME NEW f \in Tree, NEW prev, IsManifest(prev), NEW next, IsManifest(next),
         NEW backup \in BOOLEAN, NEW p \in Compute(f, prev, next, backup).unlink
  PROVE  /\ p \in DOMAIN prev /\ RecordedLink(f, prev, p)
         /\ p \in DOMAIN next => p \in Copies(next) /\ p \in Compute(f, prev, next, backup).copies
<1>1. RecordedLink(f, prev, p) /\ p \notin Symlinks(next)
  BY RemovesOnlyRecorded
<1>2. p \in DOMAIN prev
  BY <1>1 DEF RecordedLink
<1>3. ASSUME p \in DOMAIN next PROVE p \in Copies(next) /\ p \in Compute(f, prev, next, backup).copies
  <2>1. p \in Unlinked(f, prev, next)
    BY DEF Compute
  <2>2. p \notin Ancestors(f, prev, next)
    BY <1>3 DEF Ancestors, Beneath, Dropped
  <2>3. CASE p \in InMigrated(f, prev, next) /\ IsLink(f, p)
    <3>1. PICK t \in Migrated(f, prev, next) : p \in At(t)
      BY <2>3 DEF InMigrated
    <3>2. p \in Below[t]
      BY <2>3, <3>1 DEF Migrated, Occupied, At, IsLink, IsDir
    <3> QED BY <1>3, <2>3, <3>1, <3>2 DEF Migrated, Migratable, Dropped
  <2>4. CASE p \in Swapped(f, prev, next)
    BY <2>4 DEF Swapped, Compute
  <2> QED BY <2>1, <2>2, <2>3, <2>4 DEF Unlinked
<1> QED BY <1>1, <1>2, <1>3

LEMMA PlannedBackup ==
  ASSUME NEW f \in Tree, NEW prev, NEW next, IsManifest(next), NEW backup \in BOOLEAN,
         NEW b \in Compute(f, prev, next, backup).backup
  PROVE  /\ backup /\ b \in DOMAIN next
         /\ b \in Moved(f, prev, next) /\ ~Exists(f, BackupOf[b]) /\ Exists(f, b)
         /\ b \in Compute(f, prev, next, backup).new \cup Compute(f, prev, next, backup).copies
<1>1. backup /\ b \in Moved(f, prev, next)
  BY DEF Compute, SetAside
<1>2. b \in DOMAIN next /\ Exists(f, b) /\ ~Exists(f, BackupOf[b])
  BY <1>1 DEF Moved, Blocked, Unknown, Mismatched, Present, Occupied, Links, Symlinks, Copies,
              Exists, IsDir, IsFile
<1> QED BY <1>1, <1>2, ManifestTypes DEF Compute, Cleared, SetAside

LEMMA PlannedRmdir ==
  ASSUME NEW f \in Tree, NEW prev, NEW next, IsManifest(next), Unnested(next), NEW backup \in BOOLEAN,
         NEW p \in Compute(f, prev, next, backup).rmdir
  PROVE  /\ p \in Path /\ IsDir(f, p)
         /\ p \in DOMAIN next => p \in Compute(f, prev, next, backup).new
         /\ \A b \in Compute(f, prev, next, backup).backup : p \notin At(b)
<1>1. p \in InMigrated(f, prev, next) /\ IsDir(f, p)
  BY DEF Compute
<1>2. PICK t \in Migrated(f, prev, next) : p \in At(t)
  BY <1>1 DEF InMigrated
<1>3. t \in DOMAIN next /\ t \in Path /\ p \in Path /\ t \in Symlinks(next)
  BY <1>2, ManifestTypes, AboveBelow DEF Migrated, Occupied, Links
<1>4. p \in DOMAIN next => p = t
  BY <1>2, <1>3 DEF Unnested, At
<1>5. ASSUME NEW b \in Compute(f, prev, next, backup).backup, p \in At(b) PROVE FALSE
  <2>1. b \in Moved(f, prev, next) /\ b \in DOMAIN next /\ b \in Path
    BY PlannedBackup, ManifestTypes
  <2>2. b = t
    BY <1>2, <1>3, <1>5, <2>1, AtOrder DEF Unnested, At
  <2> QED BY <1>2, <1>3, <2>1, <2>2
          DEF Moved, Blocked, Unknown, Mismatched, Present, Migrated, Occupied, Links, Symlinks, Copies,
              IsDir, IsFile
<1>6. t \in Compute(f, prev, next, backup).new
  BY <1>2 DEF Compute
<1> QED BY <1>1, <1>3, <1>4, <1>5, <1>6

LEMMA PlannedRemove ==
  ASSUME NEW f \in Tree, Closed(f), NEW prev, IsManifest(prev), NEW next, IsManifest(next),
         Apart(prev, next), NEW backup \in BOOLEAN, NEW t \in Compute(f, prev, next, backup).remove
  PROVE  /\ t \in DOMAIN prev /\ t \notin DOMAIN next /\ RecordedLink(f, prev, t)
         /\ t \notin Compute(f, prev, next, backup).unlink
         /\ \A b \in Compute(f, prev, next, backup).backup : t \notin At(b)
         /\ \A c \in Copies(next) : t \notin At(c)
<1>1. /\ t \in Symlinks(prev) /\ t \notin DOMAIN next /\ RecordedLink(f, prev, t)
      /\ t \notin Compute(f, prev, next, backup).unlink /\ t \notin Leaving(f, prev, next, backup)
  BY DEF Compute, Stale
<1>2. t \in DOMAIN prev /\ t \in Path
  BY <1>1, ManifestTypes
<1>3. ASSUME NEW c \in Copies(next) PROVE t \notin At(c)
  BY <1>1, <1>2, <1>3 DEF Apart, At, Copies
<1>4. ASSUME NEW b \in Compute(f, prev, next, backup).backup, t \in At(b) PROVE FALSE
  <2>1. backup /\ b \in Moved(f, prev, next) /\ b \in DOMAIN next /\ b \in Path
    BY PlannedBackup, ManifestTypes
  <2>2. t \in Below[b] /\ b \notin Copies(next)
    BY <1>1, <1>3, <1>4, <2>1 DEF At
  <2>3. IsDir(f, b)
    BY <1>1, <1>2, <2>1, <2>2, NothingBelow DEF RecordedLink, LinkTo, Exists
  <2>4. b \in Occupied(f, next) \ Migrated(f, prev, next)
    BY <2>1, <2>2, <2>3 DEF Moved, Blocked, Unknown, Mismatched, Present, IsFile, IsDir
  <2> QED BY <1>1, <1>4, <2>1, <2>4 DEF Leaving
<1> QED BY <1>1, <1>2, <1>3, <1>4

LEMMA PlannedNew ==
  ASSUME NEW f \in Tree, Closed(f), NEW prev, NEW next, IsManifest(next),
         NEW backup \in BOOLEAN, NEW t \in Compute(f, prev, next, backup).new
  PROVE  /\ t \in Symlinks(next)
         /\ ~Exists(f, t) \/ IsDir(f, t) \/ t \in Compute(f, prev, next, backup).backup
<1>1. CASE t \in Links(f, next) /\ ~Exists(f, t)
  BY <1>1 DEF Links
<1>2. CASE t \in Migrated(f, prev, next)
  BY <1>2 DEF Migrated, Occupied, Links
<1>3. CASE t \in Beneath(f, prev, next) \cap Symlinks(next)
  <2>1. t \in Path /\ ~InRealDir(f, t)
    BY <1>3, ManifestTypes DEF Beneath, UnderLink, SymlinksAbove, InRealDir, IsLink, IsDir
  <2> QED BY <1>3, <2>1 DEF Closed
<1>4. CASE t \in SetAside(f, prev, next, backup) \cap Symlinks(next)
  BY <1>4 DEF Compute
<1> QED BY <1>1, <1>2, <1>3, <1>4 DEF Compute, Cleared

LEMMA PlannedRelink ==
  ASSUME NEW f \in Tree, NEW prev, NEW next, NEW backup \in BOOLEAN,
         NEW t \in Compute(f, prev, next, backup).replace \cup Compute(f, prev, next, backup).foreign
  PROVE  t \in Symlinks(next) /\ IsLink(f, t)
BY DEF Compute, Links

LEMMA PlannedCopy ==
  ASSUME NEW f \in Tree, Closed(f), NEW prev, NEW next, IsManifest(next),
         NEW backup \in BOOLEAN, NEW t \in Compute(f, prev, next, backup).copies
  PROVE  /\ t \in Copies(next)
         /\ \/ ~Exists(f, t)
            \/ t \in Compute(f, prev, next, backup).unlink \cup Compute(f, prev, next, backup).backup
<1>1. CASE t \in AbsentCopies(f, next)
  BY <1>1 DEF AbsentCopies
<1>2. CASE t \in Swapped(f, prev, next)
  BY <1>2 DEF Swapped, Compute, Unlinked
<1>3. CASE t \in Beneath(f, prev, next) \cap Copies(next)
  <2>1. t \in Path /\ ~InRealDir(f, t)
    BY <1>3, ManifestTypes DEF Beneath, UnderLink, SymlinksAbove, InRealDir, IsLink, IsDir
  <2> QED BY <1>3, <2>1 DEF Closed
<1>4. CASE t \in SetAside(f, prev, next, backup) \cap Copies(next)
  BY <1>4 DEF Compute
<1> QED BY <1>1, <1>2, <1>3, <1>4 DEF Compute, Cleared

-----------------------------------------------------------------------------
(* The plan a run has started with, from the tree it has started from.      *)

Whole == Compute(before, run.base, run.next, run.backup)
Aim == LET k == WithRecopy(Whole, run.next, run.recopy) IN IF run.skip THEN Repairs(k) ELSE k

\* The entries that need nothing.
Rest == DOMAIN run.next \ (Aim.new \cup Aim.replace \cup Aim.foreign \cup Aim.copies)

UnderWay == phase \in {"stages", "commit", "discard"}

\* What a run rests on as long as it goes well.
Grounded ==
  UnderWay =>
    /\ Closed(before) /\ Whole.conflicts = {} /\ Apart(run.base, run.next)
    /\ run.skip => Within(run.base, run.next) /\ Whole.unlink \cup Whole.rmdir = {}

AimFits ==
  /\ Aim \in Plan
  /\ Aim.new \cup Aim.replace \cup Aim.foreign \subseteq Symlinks(run.next)
  /\ Aim.copies \subseteq Copies(run.next)
  /\ Aim.backup \subseteq Aim.new \cup Aim.copies
  /\ \A b \in Aim.backup : run.backup /\ Exists(before, b) /\ ~Exists(before, BackupOf[b])
  /\ \A p \in Aim.unlink :
       /\ p \in DOMAIN run.base /\ RecordedLink(before, run.base, p)
       /\ p \in DOMAIN run.next => p \in Aim.copies
       /\ \A b \in Aim.backup : p \notin At(b)
  /\ \A p \in Aim.rmdir :
       /\ p \in Path /\ IsDir(before, p)
       /\ p \in DOMAIN run.next => p \in Aim.new
       /\ \A b \in Aim.backup : p \notin At(b)
  /\ \A t \in Aim.remove :
       /\ t \in DOMAIN run.base /\ t \notin DOMAIN run.next /\ RecordedLink(before, run.base, t)
       /\ t \notin Aim.unlink /\ \A b \in Aim.backup : t \notin At(b)
       /\ \A c \in Copies(run.next) : t \notin At(c)
  /\ \A t \in Aim.new : ~Exists(before, t) \/ IsDir(before, t) \/ t \in Aim.backup
  /\ \A t \in Aim.replace \cup Aim.foreign : IsLink(before, t) /\ t \notin Aim.new
  /\ \A t \in Aim.copies : run.recopy \/ ~Exists(before, t) \/ t \in Aim.unlink \cup Aim.backup
  /\ \A t \in Rest :
       IF run.next[t].method = "symlink" THEN run.skip /\ before[t] = LinkTo(run.next[t].src)
       ELSE Exists(before, t) /\ ~run.recopy

LEMMA AimParts ==
  ASSUME IInv
  PROVE  /\ Aim.unlink = Whole.unlink /\ Aim.rmdir = Whole.rmdir /\ Aim.backup = Whole.backup
         /\ Aim.new = Whole.new /\ Aim.foreign = Whole.foreign
         /\ Aim.replace = (IF run.skip THEN {} ELSE Whole.replace)
         /\ Aim.remove = (IF run.skip THEN {} ELSE Whole.remove)
         /\ Aim.copies = (IF run.recopy THEN Copies(run.next) ELSE Whole.copies)
         /\ Whole \in Plan /\ Aim \in Plan /\ Aim.conflicts = Whole.conflicts
<1> DEFINE k == WithRecopy(Whole, run.next, run.recopy)
<1>1. Whole \in Plan
  BY ComputeType DEF IInv, TypeOK, IsRun, Whole
<1>2. Copies(run.next) \subseteq Target
  BY ManifestTypes DEF IInv, TypeOK, IsRun
<1>3. /\ k \in Plan /\ k.unlink = Whole.unlink /\ k.rmdir = Whole.rmdir /\ k.backup = Whole.backup
      /\ k.new = Whole.new /\ k.foreign = Whole.foreign /\ k.replace = Whole.replace
      /\ k.remove = Whole.remove /\ k.conflicts = Whole.conflicts
      /\ k.copies = (IF run.recopy THEN Copies(run.next) ELSE Whole.copies)
  <2> HIDE DEF Whole
  <2> QED BY <1>1, <1>2 DEF WithRecopy, Plan
<1>4. Aim = IF run.skip THEN Repairs(k) ELSE k
  BY DEF Aim
<1> HIDE DEF k
<1>5. CASE run.skip
  <2>1. Aim = [k EXCEPT !.replace = {}, !.remove = {}]
    BY <1>4, <1>5 DEF Repairs
  <2> QED BY <1>1, <1>3, <1>5, <2>1 DEF Plan
<1>6. CASE ~run.skip
  BY <1>1, <1>3, <1>4, <1>6
<1> QED BY <1>5, <1>6

LEMMA AimIs ==
  ASSUME IInv, Grounded, UnderWay
  PROVE  AimFits
<1>1. /\ before \in Tree /\ IsManifest(run.base) /\ IsManifest(run.next)
      /\ run.backup \in BOOLEAN /\ run.recopy \in BOOLEAN /\ run.skip \in BOOLEAN
      /\ Closed(before) /\ Whole.conflicts = {} /\ Apart(run.base, run.next) /\ Unnested(run.next)
  BY DEF IInv, TypeOK, IsRun, Grounded, Apart
<1>2. /\ Aim.unlink = Whole.unlink /\ Aim.rmdir = Whole.rmdir /\ Aim.backup = Whole.backup
      /\ Aim.new = Whole.new /\ Aim.foreign = Whole.foreign
      /\ Aim.replace = (IF run.skip THEN {} ELSE Whole.replace)
      /\ Aim.remove = (IF run.skip THEN {} ELSE Whole.remove)
      /\ Aim.copies = (IF run.recopy THEN Copies(run.next) ELSE Whole.copies)
      /\ Whole \in Plan /\ Aim \in Plan
  BY AimParts
<1>3. \A t \in DOMAIN run.next : t \in Symlinks(run.next) \/ t \in Copies(run.next)
  BY <1>1, ManifestTypes
<1>4. \A t \in Copies(run.next) : t \notin Symlinks(run.next)
  BY DEF Copies, Symlinks
<1>5. ASSUME NEW p \in Aim.unlink
      PROVE  /\ p \in DOMAIN run.base /\ RecordedLink(before, run.base, p)
             /\ p \in DOMAIN run.next => p \in Aim.copies
             /\ \A b \in Aim.backup : p \notin At(b)
  <2>1. p \in Whole.unlink
    BY <1>2
  <2>2. /\ p \in DOMAIN run.base /\ RecordedLink(before, run.base, p)
        /\ p \in DOMAIN run.next => p \in Copies(run.next) /\ p \in Whole.copies
    BY <1>1, <2>1, PlannedUnlink DEF Whole
  <2>3. \A b \in Whole.backup : p \notin At(b)
    BY <1>1, <2>1, PlanUnlinksOutside DEF Whole
  <2> QED BY <1>2, <2>2, <2>3
<1>6. ASSUME NEW p \in Aim.rmdir
      PROVE  /\ p \in Path /\ IsDir(before, p)
             /\ p \in DOMAIN run.next => p \in Aim.new
             /\ \A b \in Aim.backup : p \notin At(b)
  <2>1. p \in Whole.rmdir
    BY <1>2
  <2>2. /\ p \in Path /\ IsDir(before, p)
        /\ p \in DOMAIN run.next => p \in Whole.new
        /\ \A b \in Whole.backup : p \notin At(b)
    BY <1>1, <2>1, PlannedRmdir DEF Whole
  <2> QED BY <1>2, <2>2
<1>7. ASSUME NEW t \in Aim.remove
      PROVE  /\ t \in DOMAIN run.base /\ t \notin DOMAIN run.next /\ RecordedLink(before, run.base, t)
             /\ t \notin Aim.unlink /\ \A b \in Aim.backup : t \notin At(b)
             /\ \A c \in Copies(run.next) : t \notin At(c)
  <2>1. t \in Whole.remove
    BY <1>2
  <2>2. /\ t \in DOMAIN run.base /\ t \notin DOMAIN run.next /\ RecordedLink(before, run.base, t)
        /\ t \notin Whole.unlink /\ \A b \in Whole.backup : t \notin At(b)
        /\ \A c \in Copies(run.next) : t \notin At(c)
    BY <1>1, <2>1, PlannedRemove DEF Whole
  <2> QED BY <1>2, <2>2
<1>8. ASSUME NEW b \in Aim.backup
      PROVE  run.backup /\ Exists(before, b) /\ ~Exists(before, BackupOf[b]) /\ b \in Aim.new \cup Aim.copies
  <2>1. b \in Whole.backup
    BY <1>2
  <2>2. /\ run.backup /\ Exists(before, b) /\ ~Exists(before, BackupOf[b])
        /\ b \in Whole.new \cup Whole.copies
    BY <1>1, <2>1, PlannedBackup DEF Whole
  <2>3. b \in Whole.copies => b \in Copies(run.next)
    BY <1>1, PlannedCopy DEF Whole
  <2> QED BY <1>2, <2>2, <2>3
<1>9. ASSUME NEW t \in Aim.new
      PROVE  /\ t \in Symlinks(run.next)
             /\ ~Exists(before, t) \/ IsDir(before, t) \/ t \in Aim.backup
  <2>1. t \in Whole.new
    BY <1>2
  <2>2. /\ t \in Symlinks(run.next)
        /\ ~Exists(before, t) \/ IsDir(before, t) \/ t \in Whole.backup
    BY <1>1, <2>1, PlannedNew DEF Whole
  <2> QED BY <1>2, <2>2
<1>10. ASSUME NEW t \in Aim.replace \cup Aim.foreign
       PROVE  t \in Symlinks(run.next) /\ IsLink(before, t) /\ t \notin Aim.new
  <2>1. t \in Whole.replace \cup Whole.foreign
    BY <1>2
  <2>2. t \in Symlinks(run.next) /\ IsLink(before, t)
    BY <1>1, <2>1, PlannedRelink DEF Whole
  <2>3. t \notin Whole.new
    BY <1>1, <2>1, PlanIsComplete DEF Whole
  <2> QED BY <1>2, <2>2, <2>3
<1>11. ASSUME NEW t \in Aim.copies
       PROVE  /\ t \in Copies(run.next)
              /\ run.recopy \/ ~Exists(before, t) \/ t \in Aim.unlink \cup Aim.backup
  <2>1. CASE run.recopy
    BY <1>2, <2>1
  <2>2. CASE ~run.recopy
    <3>1. t \in Whole.copies
      BY <1>2, <2>2
    <3>2. /\ t \in Copies(run.next)
          /\ ~Exists(before, t) \/ t \in Whole.unlink \cup Whole.backup
      BY <1>1, <3>1, PlannedCopy DEF Whole
    <3> QED BY <1>2, <3>2
  <2> QED BY <2>1, <2>2
<1>12. ASSUME NEW t \in Rest
       PROVE  IF run.next[t].method = "symlink" THEN run.skip /\ before[t] = LinkTo(run.next[t].src)
              ELSE Exists(before, t) /\ ~run.recopy
  <2>1. t \in DOMAIN run.next /\ t \notin Aim.new \cup Aim.replace \cup Aim.foreign \cup Aim.copies
    BY DEF Rest
  <2>2. CASE t \in Symlinks(run.next)
    <3>1. t \in Whole.new \cup Whole.replace \cup Whole.foreign
      BY <1>1, <2>2, PlanIsComplete DEF Whole
    <3>2. run.skip /\ t \in Whole.replace
      BY <1>2, <2>1, <3>1
    <3>3. RecordedLink(before, run.base, t)
      BY <3>2 DEF Whole, Compute
    <3>4. run.base[t] = run.next[t]
      BY <3>2, <3>3 DEF Grounded, Within, RecordedLink
    <3> QED BY <2>2, <3>2, <3>3, <3>4 DEF RecordedLink, Symlinks
  <2>3. CASE t \in Copies(run.next)
    <3>1. ~run.recopy /\ t \notin Whole.copies
      BY <1>2, <2>1, <2>3
    <3>2. Exists(before, t)
      BY <1>1, <2>3, <3>1, PlanIsComplete DEF Whole
    <3> QED BY <2>3, <3>1, <3>2 DEF Copies
  <2> QED BY <1>3, <2>1, <2>2, <2>3
<1> QED BY <1>2, <1>5, <1>6, <1>7, <1>8, <1>9, <1>10, <1>11, <1>12 DEF AimFits

-----------------------------------------------------------------------------
(* How far a run has come.                                                  *)

\* The entry between two of its writes.
Busy == IF mid.step \in {"relink", "aside", "copy"} THEN {mid.path} ELSE {}

SetNow == (Aim.new \ plan.new) \cup ((Aim.replace \cup Aim.foreign) \ Relinks)
            \cup (Aim.copies \ plan.copies)
BackedUp == Aim.backup \ plan.backup
Unlinks == Aim.unlink \ plan.unlink
Taken == Unlinks \cup (Aim.remove \ plan.remove)

\* Where something was done, or is being done.
Touched == SetNow \cup Taken \cup BackedUp \cup Busy

Shrinks ==
  /\ plan.unlink \subseteq Aim.unlink /\ plan.rmdir \subseteq Aim.rmdir
  /\ plan.backup \subseteq Aim.backup /\ plan.new \subseteq Aim.new
  /\ Relinks \subseteq Aim.replace \cup Aim.foreign
  /\ plan.copies \subseteq Aim.copies /\ plan.remove \subseteq Aim.remove

\* The stages come one after the other.
Ordered ==
  /\ plan.unlink \cup plan.rmdir # {} => plan.backup = Aim.backup
  /\ plan.unlink \cup plan.rmdir \cup plan.backup # {} =>
       plan.new = Aim.new /\ Relinks = Aim.replace \cup Aim.foreign /\ mid = NoMid
  /\ plan.unlink \cup plan.rmdir \cup plan.backup \cup plan.new \cup Relinks # {} =>
       plan.copies = Aim.copies /\ mid.step \in {"none", "relink"}
  /\ plan.unlink \cup plan.rmdir \cup plan.backup \cup plan.new \cup Relinks \cup plan.copies # {} =>
       plan.remove = Aim.remove /\ mid.step # "prune"
  /\ phase # "stages" => Stage = "record" /\ mid = NoMid

Midway ==
  /\ mid.step = "relink" => mid.path \in Relinks /\ fs[mid.path] = Absent
  /\ mid.step = "aside" =>
       /\ mid.path \in plan.copies /\ run.recopy /\ fs[mid.path] = Absent
       /\ Exists(before, mid.path)
  /\ mid.step = "copy" =>
       /\ mid.path \in plan.copies /\ Copying(mid.path)
       /\ \A r \in Below[mid.path] : ~Exists(fs, r)
  /\ mid.step = "prune" =>
       InRealDir(fs, mid.path) /\ \E t \in Aim.remove : t \in At(mid.path)

\* What is done is in place, and what is not is as it was, but for what made
\* room for it.
Pending(t) ==
  IF t \in Unlinks \cup BackedUp THEN fs[t] = Absent
  ELSE fs[t] = before[t] \/ (t \in plan.new /\ IsDir(before, t) /\ fs[t] = Absent)

TreeFits ==
  /\ \A t \in SetNow : Placed(t)
  /\ \A t \in Rest : fs[t] = before[t]
  /\ \A p \in plan.unlink \cup plan.rmdir \cup plan.backup \cup plan.remove \cup (Relinks \ Busy) :
       fs[p] = before[p]
  /\ \A t \in (plan.new \cup plan.copies) \ Busy : Pending(t)
  /\ \A t \in Taken \ DOMAIN run.next : fs[t] \in {Absent, Dir}

RunInv == Grounded /\ (UnderWay => Shrinks /\ Ordered /\ Midway /\ TreeFits)

-----------------------------------------------------------------------------
(* The steps of the stages.                                                 *)

LEMMA AimStays ==
  ASSUME UNCHANGED <<run, before>>
  PROVE  /\ Whole' = Whole /\ Aim' = Aim /\ Rest' = Rest
         /\ \A t : Placed(t)' <=> t \in DOMAIN run.next /\
              IF run.next[t].method = "symlink" THEN fs'[t] = LinkTo(run.next[t].src)
              ELSE HoldsCopy(fs', run.next[t].src, t)
<1>1. Whole' = Whole
  BY DEF Whole
<1>2. Aim' = Aim
  BY <1>1 DEF Aim
<1>3. Rest' = Rest
  BY <1>2 DEF Rest
<1>4. \A t : Placed(t)' <=> t \in DOMAIN run.next /\
              IF run.next[t].method = "symlink" THEN fs'[t] = LinkTo(run.next[t].src)
              ELSE HoldsCopy(fs', run.next[t].src, t)
  BY DEF Placed
<1> QED BY <1>1, <1>2, <1>3, <1>4

\* What is no longer planned after a step was planned for t.
Does(t) ==
  /\ plan'.unlink \subseteq plan.unlink /\ plan.unlink \subseteq plan'.unlink \cup {t}
  /\ plan'.rmdir \subseteq plan.rmdir /\ plan.rmdir \subseteq plan'.rmdir \cup {t}
  /\ plan'.backup \subseteq plan.backup /\ plan.backup \subseteq plan'.backup \cup {t}
  /\ plan'.new \subseteq plan.new /\ plan.new \subseteq plan'.new \cup {t}
  /\ Relinks' \subseteq Relinks /\ Relinks \subseteq Relinks' \cup {t}
  /\ plan'.copies \subseteq plan.copies /\ plan.copies \subseteq plan'.copies \cup {t}
  /\ plan'.remove \subseteq plan.remove /\ plan.remove \subseteq plan'.remove \cup {t}
  /\ Busy \subseteq Busy' \cup {t}

LEMMA StepFits ==
  ASSUME AimFits, Shrinks, TreeFits, UNCHANGED <<run, before>>, NEW t, Does(t),
         \A s \in DOMAIN run.next : s # t => fs'[s] = fs[s],
         \A s \in SetNow : s # t => Placed(s)',
         \A p \in plan'.unlink \cup plan'.rmdir \cup plan'.remove : fs'[p] = fs[p],
         \A s \in Taken \ DOMAIN run.next : s # t => fs'[s] \in {fs[s], Absent, Dir},
         t \in SetNow' => Placed(t)',
         t \in Rest \cup plan'.backup \cup (Relinks' \ Busy') => fs'[t] = before[t],
         t \in (plan'.new \cup plan'.copies) \ Busy' => Pending(t)',
         t \in Taken' \ DOMAIN run.next => fs'[t] \in {Absent, Dir}
  PROVE  TreeFits'
<1>1. Aim' = Aim /\ Rest' = Rest /\ run' = run /\ before' = before
  BY AimStays
<1>2. /\ Rest \subseteq DOMAIN run.next /\ Aim.new \subseteq DOMAIN run.next
      /\ Aim.replace \cup Aim.foreign \subseteq DOMAIN run.next
      /\ Aim.copies \subseteq DOMAIN run.next /\ Aim.backup \subseteq DOMAIN run.next
  BY DEF AimFits, Rest, Symlinks, Copies
<1>3. \A s \in SetNow' : s # t => s \in SetNow
  BY <1>1 DEF SetNow, Does
<1>4. \A s \in SetNow' : Placed(s)'
  BY <1>3
<1>5. \A s \in Rest' : fs'[s] = before'[s]
  BY <1>1, <1>2 DEF TreeFits
<1>6. \A p \in plan'.unlink \cup plan'.rmdir \cup plan'.remove : fs'[p] = before[p]
  BY DEF TreeFits, Does
<1>7. \A p \in plan'.backup \cup (Relinks' \ Busy') : fs'[p] = before[p]
  BY <1>1, <1>2 DEF TreeFits, Does, Shrinks
<1>8. ASSUME NEW s \in (plan'.new \cup plan'.copies) \ Busy' PROVE Pending(s)'
  <2>1. CASE s # t
    <3>1. fs'[s] = fs[s] /\ s \in (plan.new \cup plan.copies) \ Busy
      BY <1>2, <2>1 DEF Does, Shrinks
    <3>2. Pending(s)
      BY <3>1 DEF TreeFits
    <3>3. s \in Unlinks' \cup BackedUp' <=> s \in Unlinks \cup BackedUp
      BY <1>1, <2>1 DEF Unlinks, BackedUp, Does
    <3>4. s \in plan.new => s \in plan'.new
      BY <2>1 DEF Does
    <3> QED BY <1>1, <3>1, <3>2, <3>3, <3>4 DEF Pending
  <2> QED BY <1>8, <2>1
<1>9. ASSUME NEW s \in Taken' \ DOMAIN run.next PROVE fs'[s] \in {Absent, Dir}
  <2>1. s # t => s \in Taken
    BY <1>1 DEF Taken, Unlinks, Does
  <2> QED BY <2>1 DEF TreeFits
<1> QED BY <1>1, <1>4, <1>5, <1>6, <1>7, <1>8, <1>9 DEF TreeFits

Fits == Shrinks /\ Ordered /\ Midway /\ TreeFits

\* What the lemmas on the stages start from.
LEMMA StageBasis ==
  ASSUME IInv, RunInv, phase = "stages"
  PROVE  /\ AimFits /\ Fits /\ Unnested(run.next) /\ Closed(before)
         /\ \A s, t \in DOMAIN run.next : s \notin Below[t] /\ t \notin Above[s]
         /\ \A s \in Copies(run.next), t \in DOMAIN run.base : t \notin Below[s]
         /\ Symlinks(run.next) \subseteq DOMAIN run.next /\ Copies(run.next) \subseteq DOMAIN run.next
         /\ Copies(run.next) \cap Symlinks(run.next) = {}
         /\ DOMAIN run.next \subseteq Target /\ DOMAIN run.base \subseteq Target
         /\ \A t \in DOMAIN run.next : run.next[t].src \in Src
         /\ NoMid.step = "none" /\ \A s, p : Mid(s, p).step = s /\ Mid(s, p).path = p
<1>1. UnderWay /\ AimFits /\ Fits
  BY AimIs DEF UnderWay, RunInv, Fits
<1>2. Closed(before) /\ Apart(run.base, run.next)
  BY <1>1 DEF RunInv, Grounded
<1>3. IsManifest(run.next) /\ IsManifest(run.base)
  BY StageFacts
<1>4. \A s, t \in DOMAIN run.next : s \notin Below[t] /\ t \notin Above[s]
  BY <1>2, <1>3, AboveOrder, ManifestTypes DEF Apart, Unnested
<1>5. Copies(run.next) \cap Symlinks(run.next) = {}
  BY DEF Copies, Symlinks
<1> QED BY <1>1, <1>2, <1>3, <1>4, <1>5, ManifestTypes DEF Apart, NoMid, Mid

\* The parts of a plan keep apart.
LEMMA AimApart ==
  ASSUME AimFits, IsManifest(run.next), IsManifest(run.base)
  PROVE  /\ Aim.new \subseteq Symlinks(run.next) /\ Aim.replace \cup Aim.foreign \subseteq Symlinks(run.next)
         /\ Aim.copies \subseteq Copies(run.next) /\ Aim.backup \subseteq DOMAIN run.next
         /\ Aim.unlink \cup Aim.remove \subseteq DOMAIN run.base
         /\ Rest \subseteq DOMAIN run.next
         /\ Aim.new \cap (Aim.replace \cup Aim.foreign) = {} /\ Aim.backup \cap (Aim.replace \cup Aim.foreign) = {}
         /\ Rest \cap (Aim.new \cup Aim.replace \cup Aim.foreign \cup Aim.copies \cup Aim.backup) = {}
         /\ Aim.unlink \cap (Aim.new \cup Aim.replace \cup Aim.foreign \cup Aim.backup \cup Rest \cup Aim.remove \cup Aim.rmdir) = {}
         /\ Aim.rmdir \cap (Aim.copies \cup Aim.replace \cup Aim.foreign \cup Aim.backup \cup Rest \cup Aim.remove) = {}
         /\ Aim.remove \cap DOMAIN run.next = {}
         /\ \A p \in Aim.unlink \cup Aim.remove : before[p].kind = "link" /\ before[p].val \in Src
         /\ \A p \in Aim.rmdir : before[p].kind = "dir"
<1>1. Copies(run.next) \cap Symlinks(run.next) = {} /\ Copies(run.next) \cup Symlinks(run.next) \subseteq DOMAIN run.next
  BY DEF Copies, Symlinks
<1>2. ASSUME NEW p \in Aim.unlink \cup Aim.remove
      PROVE  before[p].kind = "link" /\ before[p].val \in Src /\ p \in DOMAIN run.base
  <2>1. p \in DOMAIN run.base /\ RecordedLink(before, run.base, p)
    BY DEF AimFits
  <2>2. run.base[p].src \in Src
    BY <2>1, ManifestTypes
  <2> QED BY <2>1, <2>2 DEF RecordedLink, LinkTo
<1>3. \A p \in Aim.rmdir : before[p].kind = "dir"
  BY DEF AimFits, IsDir
<1>4. /\ Aim.new \subseteq Symlinks(run.next) /\ Aim.replace \cup Aim.foreign \subseteq Symlinks(run.next)
      /\ Aim.copies \subseteq Copies(run.next) /\ Aim.backup \subseteq Aim.new \cup Aim.copies
      /\ Aim.new \cap (Aim.replace \cup Aim.foreign) = {}
  BY DEF AimFits
<1>5. \A b \in Aim.backup : b \notin Aim.unlink /\ b \notin Aim.rmdir
  BY DEF AimFits, At
<1>6. \A t \in Aim.remove : t \notin DOMAIN run.next /\ t \notin Aim.unlink
  BY DEF AimFits
<1>7. \A p \in Aim.unlink : p \in DOMAIN run.next => p \in Aim.copies
  BY DEF AimFits
<1>8. \A p \in Aim.rmdir : p \in DOMAIN run.next => p \in Aim.new
  BY DEF AimFits
<1>9. /\ Rest \subseteq DOMAIN run.next
      /\ Rest \cap (Aim.new \cup Aim.replace \cup Aim.foreign \cup Aim.copies) = {}
  BY DEF Rest
<1>10. Aim.unlink \cap Aim.rmdir = {} /\ Aim.remove \cap Aim.rmdir = {}
  BY <1>2, <1>3
<1>11. Aim.backup \cap (Aim.replace \cup Aim.foreign) = {} /\ Rest \cap Aim.backup = {}
  BY <1>1, <1>4, <1>9
<1>12. Aim.unlink \cap (Aim.new \cup Aim.replace \cup Aim.foreign \cup Aim.backup \cup Rest \cup Aim.remove) = {}
  BY <1>1, <1>4, <1>5, <1>6, <1>7, <1>9
<1>13. Aim.rmdir \cap (Aim.copies \cup Aim.replace \cup Aim.foreign \cup Aim.backup \cup Rest) = {}
  BY <1>1, <1>4, <1>5, <1>8, <1>9
<1> QED BY <1>1, <1>2, <1>3, <1>4, <1>6, <1>9, <1>10, <1>11, <1>12, <1>13

LEMMA UnlinkFits ==
  ASSUME IInv, RunInv, NEW p, PreRemoveUnlink(p)
  PROVE  Fits'
<1>1. /\ phase = "stages" /\ mid = NoMid /\ p \in plan.unlink /\ UNCHANGED <<phase, mid, run, before>>
      /\ fs' = Put(fs, p, Absent) /\ plan' = [plan EXCEPT !.unlink = @ \ {p}]
  BY DEF PreRemoveUnlink, In, Writes, ghostVars
<1>2. AimFits /\ Fits /\ DOMAIN run.next \subseteq Path /\ DOMAIN run.base \subseteq Path /\ NoMid.step = "none"
  BY <1>1, StageBasis, TargetAssumption
<1>3. plan \in Plan /\ fs \in Tree /\ IsManifest(run.next) /\ IsManifest(run.base)
  BY StageFacts
<1>4. /\ plan'.unlink = plan.unlink \ {p} /\ plan'.rmdir = plan.rmdir /\ plan'.backup = plan.backup
      /\ plan'.new = plan.new /\ plan'.copies = plan.copies /\ plan'.remove = plan.remove
      /\ Relinks' = Relinks /\ Busy' = Busy /\ Busy = {}
  BY <1>1, <1>2, <1>3 DEF Plan, Relinks, Busy
<1>5. Aim' = Aim
  BY <1>1, AimStays
<1>6. Shrinks' /\ Ordered' /\ Midway' /\ Does(p)
  BY <1>1, <1>2, <1>4, <1>5 DEF Fits, Shrinks, Ordered, Midway, Does
<1>7. \A r \in Path : fs'[r] = IF r = p THEN Absent ELSE fs[r]
  BY <1>1, <1>3 DEF Put, Tree
<1>8. /\ p \in Aim.unlink /\ p \notin Rest /\ p \notin Relinks /\ p \notin plan.rmdir
      /\ p \notin plan.backup /\ p \notin plan.new /\ p \notin plan.remove
  BY <1>1, <1>2, <1>3, AimApart DEF Fits, Shrinks
<1>9. SetNow' = {} /\ SetNow = {}
  BY <1>1, <1>2, <1>4, <1>5 DEF SetNow, Fits, Ordered
<1>10. p \in plan.copies => Pending(p)'
  BY <1>1, <1>2, <1>3, <1>4, <1>5, <1>7, <1>8 DEF Pending, Unlinks, Plan
<1>11. Taken \subseteq Path /\ plan.rmdir \cup plan.remove \cup plan.unlink \subseteq Path
  BY <1>2, <1>3, AimApart, TargetAssumption DEF Plan, Taken, Unlinks
<1> QED BY <1>1, <1>2, <1>4, <1>6, <1>7, <1>8, <1>9, <1>10, <1>11, StepFits DEF Fits

LEMMA RmdirFits ==
  ASSUME IInv, RunInv, NEW p, PreRemoveRmdir(p)
  PROVE  Fits'
<1>1. /\ phase = "stages" /\ mid = NoMid /\ p \in plan.rmdir /\ UNCHANGED <<phase, mid, run, before>>
      /\ fs' \in {fs, Put(fs, p, Absent)} /\ plan' = [plan EXCEPT !.rmdir = @ \ {p}]
      /\ fs' = fs => ~Exists(fs, p)
  <2>1. (CanRemove(fs, p) /\ fs' = Put(fs, p, Absent)) \/ (~Exists(fs, p) /\ fs' = fs)
    BY DEF PreRemoveRmdir, CanRemove, Exists
  <2>2. p \in Path /\ fs \in Tree
    BY StageFacts DEF PreRemoveRmdir, Plan
  <2>3. CanRemove(fs, p) => Put(fs, p, Absent) # fs
    BY <2>2 DEF CanRemove, Exists, Put, Absent, Tree
  <2> QED BY <2>1, <2>3 DEF PreRemoveRmdir, In, Writes, ghostVars
<1>2. AimFits /\ Fits /\ DOMAIN run.next \subseteq Path /\ DOMAIN run.base \subseteq Path /\ NoMid.step = "none"
  BY <1>1, StageBasis, TargetAssumption
<1>3. plan \in Plan /\ fs \in Tree /\ IsManifest(run.next) /\ IsManifest(run.base)
  BY StageFacts
<1>4. /\ plan'.unlink = plan.unlink /\ plan'.rmdir = plan.rmdir \ {p} /\ plan'.backup = plan.backup
      /\ plan'.new = plan.new /\ plan'.copies = plan.copies /\ plan'.remove = plan.remove
      /\ Relinks' = Relinks /\ Busy' = Busy /\ Busy = {}
  BY <1>1, <1>2, <1>3 DEF Plan, Relinks, Busy
<1>5. Aim' = Aim
  BY <1>1, AimStays
<1>6. Shrinks' /\ Ordered' /\ Midway' /\ Does(p)
  BY <1>1, <1>2, <1>4, <1>5 DEF Fits, Shrinks, Ordered, Midway, Does
<1>7. p \in Aim.rmdir /\ before[p].kind = "dir" /\ fs[p] = before[p] /\ p \in Path
  BY <1>1, <1>2, <1>3, AimApart DEF Fits, Shrinks, TreeFits, Plan
<1>8. \A r \in Path : fs'[r] = IF r = p THEN Absent ELSE fs[r]
  BY <1>1, <1>3, <1>7 DEF Put, Tree, Exists
<1>9. /\ p \notin Rest /\ p \notin Relinks /\ p \notin plan.unlink
      /\ p \notin plan.backup /\ p \notin plan.copies /\ p \notin plan.remove
  BY <1>2, <1>3, <1>7, AimApart DEF Fits, Shrinks
<1>10. SetNow' = {} /\ SetNow = {}
  BY <1>1, <1>2, <1>4, <1>5 DEF SetNow, Fits, Ordered
<1>11. p \in plan.new => Pending(p)'
  BY <1>1, <1>4, <1>7, <1>8 DEF Pending, IsDir
<1>12. Taken \subseteq Path /\ plan.rmdir \cup plan.remove \cup plan.unlink \subseteq Path
  BY <1>2, <1>3, AimApart, TargetAssumption DEF Plan, Taken, Unlinks
<1> QED BY <1>1, <1>2, <1>4, <1>6, <1>7, <1>8, <1>9, <1>10, <1>11, <1>12, StepFits DEF Fits

LEMMA BackUpFits ==
  ASSUME NamesApart, IInv, RunInv, NEW b, BackUp(b)
  PROVE  Fits'
<1>1. /\ phase = "stages" /\ mid = NoMid /\ b \in plan.backup /\ UNCHANGED <<phase, mid, run, before>>
      /\ fs' = Rename(fs, b, BackupOf[b]) /\ plan' = [plan EXCEPT !.backup = @ \ {b}]
      /\ plan.unlink = {} /\ plan.rmdir = {}
  BY DEF BackUp, In, Writes, ghostVars, Stage
<1>2. AimFits /\ Fits /\ DOMAIN run.next \subseteq Target /\ DOMAIN run.base \subseteq Target /\ NoMid.step = "none"
      /\ \A s, t \in DOMAIN run.next : s \notin Below[t] /\ t \notin Above[s]
  BY <1>1, StageBasis
<1>3. plan \in Plan /\ fs \in Tree /\ IsManifest(run.next) /\ IsManifest(run.base) /\ Target \subseteq Path
  BY StageFacts
<1>4. /\ plan'.unlink = plan.unlink /\ plan'.rmdir = plan.rmdir /\ plan'.backup = plan.backup \ {b}
      /\ plan'.new = plan.new /\ plan'.copies = plan.copies /\ plan'.remove = plan.remove
      /\ Relinks' = Relinks /\ Busy' = Busy /\ Busy = {}
  BY <1>1, <1>2, <1>3 DEF Plan, Relinks, Busy
<1>5. Aim' = Aim
  BY <1>1, AimStays
<1>6. Shrinks' /\ Ordered' /\ Midway' /\ Does(b)
  BY <1>1, <1>2, <1>4, <1>5 DEF Fits, Shrinks, Ordered, Midway, Does
<1>7. /\ b \in Aim.backup /\ b \in DOMAIN run.next /\ b \in Target /\ b \notin Rest /\ b \notin Relinks
      /\ b \notin plan.remove
  BY <1>1, <1>2, <1>3, AimApart DEF Fits, Shrinks
<1>8. \A r \in Path : fs'[r] = IF r \in At(BackupOf[b]) THEN fs[Rebase(b, BackupOf[b], r)]
                               ELSE IF r \in At(b) THEN Absent ELSE fs[r]
  BY <1>1, <1>7, TargetsMove, RenameIs
<1>9. At(BackupOf[b]) \cap Target = {}
  BY <1>7 DEF NamesApart
<1>10. SetNow' = {} /\ SetNow = {}
  BY <1>1, <1>2, <1>4, <1>5 DEF SetNow, Fits, Ordered
<1>11. fs'[b] = Absent /\ Pending(b)'
  <2>1. fs'[b] = Absent
    BY <1>3, <1>7, <1>8, <1>9 DEF At
  <2>2. b \in BackedUp'
    BY <1>4, <1>5, <1>7 DEF BackedUp
  <2> QED BY <2>1, <2>2 DEF Pending
<1>12. \A s \in DOMAIN run.next : s # b => fs'[s] = fs[s]
  BY <1>2, <1>3, <1>7, <1>8, <1>9 DEF At
<1>13. \A s \in plan.remove : fs'[s] = fs[s]
  <2>1. \A s \in plan.remove : s \in Target /\ s \notin At(b)
    BY <1>2, <1>3, <1>7 DEF Fits, Shrinks, AimFits, Plan
  <2> QED BY <1>3, <1>8, <1>9, <2>1
<1>14. \A s \in Target : fs'[s] \in {fs[s], Absent}
  BY <1>3, <1>8, <1>9
<1>15. Taken \subseteq Target
  BY <1>2, <1>3, AimApart DEF Taken, Unlinks
<1> QED BY <1>1, <1>2, <1>4, <1>6, <1>7, <1>10, <1>11, <1>12, <1>13, <1>14, <1>15, StepFits DEF Fits

LEMMA PlacedStays ==
  ASSUME UNCHANGED <<run, before>>, NEW s, Placed(s), fs'[s] = fs[s],
         s \in Copies(run.next) /\ run.next[s].src \in DirSrc => fs'[LeafOf(s)] = fs[LeafOf(s)],
         s \in DOMAIN run.next => s \in Symlinks(run.next) \cup Copies(run.next)
  PROVE  Placed(s)'
<1>1. run' = run
  OBVIOUS
<1>2. CASE s \in Symlinks(run.next)
  BY <1>1, <1>2 DEF Placed, Symlinks
<1>3. CASE s \in Copies(run.next)
  BY <1>1, <1>3 DEF Placed, Copies, HoldsCopy, IsDir
<1> QED BY <1>2, <1>3 DEF Placed

\* In the stage that places links, everything set so far is a link.
LEMMA PlaceStage ==
  ASSUME IInv, RunInv, phase = "stages", plan.new \cup Relinks # {}
  PROVE  /\ plan.copies = Aim.copies /\ plan.remove = Aim.remove /\ mid.step \in {"none", "relink"}
         /\ SetNow \subseteq Symlinks(run.next) /\ SetNow \cap (plan.new \cup Relinks) = {}
         /\ \A s \in SetNow : fs[s] = LinkTo(run.next[s].src) /\ fs[s].kind = "link"
         /\ plan.new \cap Relinks = {}
<1>1. AimFits /\ Fits /\ IsManifest(run.next) /\ IsManifest(run.base)
  BY StageBasis, StageFacts
<1>2. plan.copies = Aim.copies /\ plan.remove = Aim.remove /\ mid.step \in {"none", "relink"}
  BY <1>1 DEF Fits, Ordered
<1>3. /\ SetNow \subseteq Symlinks(run.next) /\ SetNow \cap (plan.new \cup Relinks) = {}
      /\ plan.new \cap Relinks = {}
  BY <1>1, <1>2, AimApart DEF SetNow, Fits, Shrinks
<1>4. \A s \in SetNow : fs[s] = LinkTo(run.next[s].src)
  BY <1>1, <1>3 DEF Fits, TreeFits, Placed, Symlinks
<1> QED BY <1>2, <1>3, <1>4 DEF LinkTo

LEMMA PlaceNewFits ==
  ASSUME IInv, RunInv, NEW t, PlaceNew(t)
  PROVE  Fits'
<1>1. /\ phase = "stages" /\ mid = NoMid /\ t \in plan.new /\ UNCHANGED <<phase, mid, run, before>>
      /\ fs' = Put(Mkdirs(fs, t), t, LinkTo(run.next[t].src)) /\ plan' = [plan EXCEPT !.new = @ \ {t}]
      /\ plan.unlink = {} /\ plan.rmdir = {} /\ plan.backup = {}
  BY DEF PlaceNew, In, Writes, ghostVars, Stage
<1>2. AimFits /\ Fits /\ DOMAIN run.next \subseteq Target /\ DOMAIN run.base \subseteq Target /\ NoMid.step = "none"
      /\ \A s, r \in DOMAIN run.next : s \notin Below[r] /\ r \notin Above[s]
  BY <1>1, StageBasis
<1>3. plan \in Plan /\ fs \in Tree /\ IsManifest(run.next) /\ IsManifest(run.base) /\ Target \subseteq Path
  BY StageFacts
<1>4. /\ plan'.unlink = plan.unlink /\ plan'.rmdir = plan.rmdir /\ plan'.backup = plan.backup
      /\ plan'.new = plan.new \ {t} /\ plan'.copies = plan.copies /\ plan'.remove = plan.remove
      /\ Relinks' = Relinks /\ Busy' = Busy /\ Busy = {}
  BY <1>1, <1>2, <1>3 DEF Plan, Relinks, Busy
<1>5. Aim' = Aim
  BY <1>1, AimStays
<1>6. /\ plan.copies = Aim.copies /\ plan.remove = Aim.remove
      /\ SetNow \subseteq Symlinks(run.next)
      /\ \A s \in SetNow : fs[s] = LinkTo(run.next[s].src) /\ fs[s].kind = "link"
      /\ plan.new \cap Relinks = {} /\ SetNow \cap plan.new = {}
  BY <1>1, PlaceStage
<1>7. Shrinks' /\ Ordered' /\ Midway' /\ Does(t)
  BY <1>1, <1>2, <1>4, <1>5, <1>6 DEF Fits, Shrinks, Ordered, Midway, Does
<1>8. /\ t \in Aim.new /\ t \in DOMAIN run.next /\ t \in Path /\ t \notin Rest /\ t \notin Relinks
      /\ t \notin plan.remove /\ t \notin plan.copies /\ t \in Symlinks(run.next)
  BY <1>1, <1>2, <1>3, <1>6, AimApart, ManifestTypes DEF Fits, Shrinks, Symlinks, Copies
<1>9. \A r \in Path : r # t => fs'[r] = fs[r] \/ (r \in Above[t] /\ fs'[r] = Dir /\ ~Exists(fs, r))
  BY <1>1, <1>3 DEF Put, Mkdirs
<1>10. fs'[t] = LinkTo(run.next[t].src)
  BY <1>1, <1>8 DEF Put, Mkdirs
<1>11. \A s \in DOMAIN run.next : s # t => fs'[s] = fs[s]
  BY <1>2, <1>3, <1>8, <1>9
<1>12. Placed(t)'
  BY <1>1, <1>8, <1>10 DEF Placed, Symlinks
<1>13. \A s \in SetNow : s # t => Placed(s)'
  BY <1>1, <1>6, <1>11 DEF Placed, Symlinks
<1>14. \A s \in plan.remove : fs'[s] = fs[s]
  <2>1. \A s \in plan.remove : s \in Path /\ fs[s] = before[s] /\ before[s].kind = "link"
    BY <1>2, <1>3, <1>6, AimApart DEF Fits, TreeFits, Plan
  <2> QED BY <1>8, <1>9, <2>1 DEF Exists
<1>15. \A s \in Taken \ DOMAIN run.next : fs'[s] \in {fs[s], Dir}
  <2>1. Taken \subseteq Path
    BY <1>2, <1>3, AimApart DEF Taken, Unlinks
  <2> QED BY <1>8, <1>9, <2>1
<1> QED BY <1>1, <1>2, <1>4, <1>7, <1>8, <1>11, <1>12, <1>13, <1>14, <1>15, StepFits DEF Fits

LEMMA RelinkFits ==
  ASSUME IInv, RunInv, NEW t \in Relinks, RelinkUnlink(t) \/ RelinkSymlink(t)
  PROVE  Fits'
<1>1. /\ phase = "stages" /\ UNCHANGED <<phase, run, before>> /\ NoMid.step = "none"
      /\ Mid("relink", t).step = "relink" /\ Mid("relink", t).path = t
      /\ \/ RelinkUnlink(t) /\ mid = NoMid /\ mid' = Mid("relink", t) /\ plan' = plan /\ fs' = Put(fs, t, Absent)
         \/ /\ RelinkSymlink(t) /\ mid = Mid("relink", t) /\ mid' = NoMid /\ fs' = Put(fs, t, LinkTo(run.next[t].src))
            /\ plan' = [plan EXCEPT !.replace = @ \ {t}, !.foreign = @ \ {t}]
  BY DEF RelinkUnlink, RelinkSymlink, In, Writes, ghostVars, NoMid, Mid
<1>2. AimFits /\ Fits /\ DOMAIN run.next \subseteq Target /\ DOMAIN run.base \subseteq Target
  BY <1>1, StageBasis
<1>3. plan \in Plan /\ fs \in Tree /\ IsManifest(run.next) /\ IsManifest(run.base) /\ Target \subseteq Path
  BY StageFacts
<1>4. /\ plan.copies = Aim.copies /\ plan.remove = Aim.remove
      /\ SetNow \subseteq Symlinks(run.next)
      /\ \A s \in SetNow : fs[s] = LinkTo(run.next[s].src) /\ fs[s].kind = "link"
      /\ plan.new \cap Relinks = {} /\ SetNow \cap Relinks = {}
  BY <1>1, PlaceStage
<1>5. plan.unlink = {} /\ plan.rmdir = {} /\ plan.backup = {}
  <2>1. CASE RelinkUnlink(t)
    BY <2>1 DEF RelinkUnlink, In, Stage
  <2>2. CASE RelinkSymlink(t)
    <3>1. mid # NoMid
      BY <2>2 DEF RelinkSymlink, NoMid, Mid
    <3> QED BY <1>2, <3>1 DEF Fits, Ordered
  <2> QED BY <1>1, <2>1, <2>2
<1>6. /\ plan'.unlink = plan.unlink /\ plan'.rmdir = plan.rmdir /\ plan'.backup = plan.backup
      /\ plan'.new = plan.new /\ plan'.copies = plan.copies /\ plan'.remove = plan.remove
      /\ Relinks' = (IF mid = NoMid THEN Relinks ELSE Relinks \ {t})
      /\ Busy' = (IF mid = NoMid THEN {t} ELSE {}) /\ Busy \subseteq {t}
  BY <1>1, <1>3 DEF Plan, Relinks, Busy
<1>7. Aim' = Aim
  BY <1>1, AimStays
<1>8. /\ t \in Target /\ t \in DOMAIN run.next /\ t \notin Rest /\ t \notin plan.new
      /\ t \notin plan.remove /\ t \notin plan.copies /\ t \in Symlinks(run.next)
  BY <1>2, <1>3, <1>4, AimApart, ManifestTypes DEF Fits, Shrinks, Symlinks, Copies
<1>9. fs'[t] = IF mid = NoMid THEN Absent ELSE LinkTo(run.next[t].src)
  BY <1>1, <1>3, <1>8 DEF Put, Tree
<1>10. \A r \in Path : r # t => fs'[r] = fs[r]
  BY <1>1, <1>3 DEF Put, Tree
<1>11. Shrinks' /\ Ordered' /\ Midway' /\ Does(t)
  BY <1>1, <1>2, <1>4, <1>5, <1>6, <1>7, <1>8, <1>9 DEF Fits, Shrinks, Ordered, Midway, Does
<1>12. mid # NoMid => Placed(t)'
  BY <1>1, <1>8, <1>9 DEF Placed, Symlinks
<1>13. t \in SetNow' => mid # NoMid
  BY <1>4, <1>6, <1>7 DEF SetNow
<1>14. \A s \in SetNow : s # t => Placed(s)'
  BY <1>1, <1>2, <1>3, <1>4, <1>10 DEF Placed, Symlinks
<1>15. t \notin Relinks' \ Busy'
  BY <1>6
<1>16. plan.remove \subseteq Target /\ Taken \subseteq Target
  BY <1>2, <1>3, AimApart DEF Taken, Unlinks, Plan
<1>17. t \notin Taken' \ DOMAIN run.next
  BY <1>8
<1> QED BY <1>1, <1>2, <1>3, <1>5, <1>6, <1>8, <1>10, <1>11, <1>12, <1>13, <1>14, <1>15, <1>16, <1>17, StepFits DEF Fits

LEMMA LeafIs ==
  ASSUME NEW s \in Path, LeafOf(s) \in Path
  PROVE  /\ LeafOf(s) # s /\ LeafOf(s) \in At(s) /\ s \in Above[LeafOf(s)]
         /\ \A r \in Path : LeafOf(s) \in At(r) => r = LeafOf(s) \/ s \in At(r)
<1>1. Front(LeafOf(s)) = s
  BY PathSequence DEF LeafOf, Front
<1>2. s \in Above[LeafOf(s)] /\ Above[LeafOf(s)] = Above[s] \cup {s}
  BY <1>1, FrontAbove
<1> QED BY <1>2, AtOrder, AboveOrder

\* In the stage of the copies, the stages before it are over.
LEMMA CopyStage ==
  ASSUME IInv, RunInv, RecordFits, phase = "stages", NEW t \in plan.copies,
         In("copy") \/ mid = Mid("aside", t) \/ mid = Mid("copy", t)
  PROVE  /\ plan.unlink = {} /\ plan.rmdir = {} /\ plan.backup = {} /\ plan.new = {} /\ Relinks = {}
         /\ plan.remove = Aim.remove /\ SetNow \cap plan.copies = {}
         /\ t \in DOMAIN run.next /\ t \in Copies(run.next) /\ t \in Target /\ t \in Path
         /\ run.next[t].src \in Src /\ run.next[t].method = "copy"
         /\ t \notin Rest /\ t \notin plan.remove /\ t \notin Taken \ DOMAIN run.next
         /\ \A s \in SetNow : s \in DOMAIN run.next /\ s \in Symlinks(run.next) \cup Copies(run.next)
         /\ \A s \in Copies(run.next) : s \in Path /\ (run.next[s].src \in DirSrc => LeafOf(s) \in Path)
         /\ Taken \subseteq DOMAIN run.base /\ Taken \subseteq Target
<1>1. AimFits /\ Fits /\ IsManifest(run.next) /\ IsManifest(run.base) /\ plan \in Plan
  BY StageBasis, StageFacts
<1>2. Mid("aside", t).step = "aside" /\ Mid("copy", t).step = "copy"
  BY DEF Mid
<1>3. /\ plan.unlink = {} /\ plan.rmdir = {} /\ plan.backup = {} /\ plan.new = {} /\ Relinks = {}
  <2>1. CASE In("copy")
    BY <2>1 DEF In, Stage
  <2>2. CASE mid.step \in {"aside", "copy"}
    BY <1>1, <2>2 DEF Fits, Ordered
  <2> QED BY <1>2, <2>1, <2>2
<1>4. plan.remove = Aim.remove
  BY <1>1 DEF Fits, Ordered
<1>5. SetNow \cap plan.copies = {} /\ t \in Aim.copies /\ t \in Copies(run.next) /\ t \notin Rest
  BY <1>1, AimApart DEF SetNow, Fits, Shrinks, Copies, Symlinks
<1>6. /\ t \in DOMAIN run.next /\ t \in Target /\ t \in Path /\ run.next[t].src \in Src
      /\ run.next[t].method = "copy"
  BY <1>1, <1>5, ManifestTypes DEF Copies
<1>7. t \notin plan.remove /\ Taken \subseteq DOMAIN run.base /\ Taken \subseteq Target
  BY <1>1, <1>6, AimApart, ManifestTypes DEF Fits, Shrinks, Taken, Unlinks
<1>8. \A s \in SetNow : s \in DOMAIN run.next /\ s \in Symlinks(run.next) \cup Copies(run.next)
  BY <1>1, AimApart, ManifestTypes DEF SetNow
<1>9. run.next \in Manifests
  BY <1>1 DEF RecordFits, IInv, RunFits
<1>10. \A s \in Copies(run.next) : s \in Path /\ (run.next[s].src \in DirSrc => LeafOf(s) \in Path)
  BY <1>1, <1>9, EngineAssumption, ManifestTypes
<1> QED BY <1>3, <1>4, <1>5, <1>6, <1>7, <1>8, <1>10

LEMMA AsideFits ==
  ASSUME NamesApart, IInv, RunInv, RecordFits, NEW t, RecopyAside(t)
  PROVE  Fits'
<1>1. /\ phase = "stages" /\ mid = NoMid /\ t \in plan.copies /\ UNCHANGED <<phase, run, before, plan>>
      /\ fs' = Rename(fs, t, AsideOf[t]) /\ mid' = Mid("aside", t) /\ In("copy") /\ run.recopy /\ Exists(fs, t)
  BY DEF RecopyAside, In, Writes, ghostVars
<1>2. /\ AimFits /\ Fits /\ DOMAIN run.next \subseteq Target /\ NoMid.step = "none"
      /\ mid'.step = "aside" /\ mid'.path = t
      /\ \A s, r \in DOMAIN run.next : s \notin Below[r] /\ r \notin Above[s]
  BY <1>1, StageBasis
<1>3. plan \in Plan /\ fs \in Tree /\ Target \subseteq Path
  BY StageFacts
<1>4. /\ plan.unlink = {} /\ plan.rmdir = {} /\ plan.backup = {} /\ plan.new = {} /\ Relinks = {}
      /\ plan.remove = Aim.remove /\ SetNow \cap plan.copies = {}
      /\ t \in DOMAIN run.next /\ t \in Copies(run.next) /\ t \in Target /\ t \in Path
      /\ t \notin Rest /\ t \notin plan.remove /\ t \notin Taken \ DOMAIN run.next /\ Taken \subseteq Target
      /\ \A s \in SetNow : s \in DOMAIN run.next /\ s \in Symlinks(run.next) \cup Copies(run.next)
      /\ \A s \in Copies(run.next) : s \in Path /\ (run.next[s].src \in DirSrc => LeafOf(s) \in Path)
  BY <1>1, CopyStage
<1>5. Aim' = Aim /\ Relinks' = Relinks /\ Busy = {} /\ Busy' = {t}
  BY <1>1, <1>2, AimStays DEF Relinks, Busy
<1> DEFINE q == AsideOf[t]
<1>6. /\ \A r \in Path : fs'[r] = IF r \in At(q) THEN fs[Rebase(t, q, r)]
                                  ELSE IF r \in At(t) THEN Absent ELSE fs[r]
      /\ At(q) \cap Target = {} /\ Above[q] = Above[t] /\ q \in Path /\ t \notin At(q)
  BY <1>1, <1>4, TargetsMove, RenameIs DEF NamesApart, Movable
<1> HIDE DEF q
<1>7. fs'[t] = Absent
  BY <1>4, <1>6 DEF At
<1>8. Exists(before, t)
  <2>1. Pending(t)
    BY <1>1, <1>2, <1>5 DEF Fits, TreeFits
  <2> QED BY <1>1, <2>1 DEF Pending, Exists, Absent
<1>9. Shrinks' /\ Ordered' /\ Midway' /\ Does(t)
  BY <1>1, <1>2, <1>4, <1>5, <1>7, <1>8 DEF Fits, Shrinks, Ordered, Midway, Does
<1>10. \A s \in DOMAIN run.next : s # t => fs'[s] = fs[s] /\ s \notin At(t) /\ t \notin At(s)
  BY <1>2, <1>3, <1>4, <1>6 DEF At
<1>11. ASSUME NEW s \in SetNow, s # t PROVE Placed(s)'
  <2>1. ASSUME s \in Copies(run.next), run.next[s].src \in DirSrc PROVE fs'[LeafOf(s)] = fs[LeafOf(s)]
    <3>1. s \in Path /\ LeafOf(s) \in Path /\ s \in Target /\ s \notin At(t) /\ t \notin At(s)
      BY <1>2, <1>4, <1>10, <1>11, <2>1
    <3>2. LeafOf(s) # t /\ LeafOf(s) \notin At(t)
      BY <1>4, <3>1, LeafIs
    <3>3. q # LeafOf(s)
      BY <1>4, <1>6, <3>1, LeafIs, AtOrder
    <3>4. LeafOf(s) \notin At(q)
      BY <1>6, <3>1, <3>3, LeafIs
    <3> QED BY <1>6, <3>1, <3>2, <3>4
  <2>2. Placed(s)
    BY <1>2 DEF Fits, TreeFits
  <2> QED BY <1>1, <1>4, <1>10, <1>11, <2>1, <2>2, PlacedStays
<1>12. \A s \in plan.remove : fs'[s] = fs[s]
  <2>1. \A s \in plan.remove : s \in Target /\ s \notin At(t)
    BY <1>2, <1>3, <1>4 DEF AimFits, Plan
  <2> QED BY <1>3, <1>6, <2>1
<1>13. \A s \in Taken \ DOMAIN run.next : fs'[s] \in {fs[s], Absent}
  BY <1>3, <1>4, <1>6
<1>14. t \notin SetNow' /\ t \notin Taken' \ DOMAIN run.next
  BY <1>1, <1>4, <1>5 DEF SetNow
<1> QED BY <1>1, <1>2, <1>4, <1>5, <1>9, <1>10, <1>11, <1>12, <1>13, <1>14, StepFits DEF Fits

\* A copy starts where nothing is.
LEMMA CopyFree ==
  ASSUME IInv, RunInv, RecordFits, NEW t, CopyStart(t) \/ (CopyStuck(t) /\ In("copy"))
  PROVE  ~Exists(fs, t)
<1>1. /\ phase = "stages" /\ t \in plan.copies
      /\ \/ mid = NoMid /\ In("copy") /\ (run.recopy => ~Exists(fs, t))
         \/ mid = Mid("aside", t)
  BY StageFacts DEF CopyStart, CopyStuck, In
<1>2. AimFits /\ Fits /\ NoMid.step = "none" /\ Mid("aside", t).step = "aside" /\ Mid("aside", t).path = t
  BY <1>1, StageBasis
<1>3. plan.unlink = {} /\ plan.backup = {} /\ plan.new = {}
  BY <1>1, CopyStage
<1>4. CASE mid = NoMid /\ ~run.recopy
  <2>1. Pending(t)
    BY <1>1, <1>2, <1>4 DEF Fits, TreeFits, Busy
  <2>2. ~Exists(before, t) \/ t \in Aim.unlink \cup Aim.backup
    BY <1>1, <1>2, <1>4 DEF AimFits, Fits, Shrinks
  <2> QED BY <1>3, <2>1, <2>2 DEF Pending, Unlinks, BackedUp, Exists, Absent
<1>5. CASE mid = Mid("aside", t)
  BY <1>2, <1>5 DEF Fits, Midway, Exists, Absent
<1> QED BY <1>1, <1>4, <1>5

LEMMA CopyStartFits ==
  ASSUME IInv, TreeInv, RunInv, RecordFits, NEW t, CopyStart(t)
  PROVE  Fits'
<1>1. /\ phase = "stages" /\ t \in plan.copies /\ UNCHANGED <<phase, run, before, plan>>
      /\ fs' = BeginCopy(Mkdirs(fs, t), run.next[t].src, t) /\ mid' = Mid("copy", t)
      /\ \/ mid = NoMid /\ In("copy") /\ (run.recopy => ~Exists(fs, t))
         \/ mid = Mid("aside", t)
  BY DEF CopyStart, In, Writes, ghostVars
<1>2. /\ AimFits /\ Fits /\ DOMAIN run.next \subseteq Target /\ NoMid.step = "none"
      /\ mid'.step = "copy" /\ mid'.path = t
      /\ Mid("aside", t).step = "aside" /\ Mid("aside", t).path = t
      /\ \A s, r \in DOMAIN run.next : s \notin Below[r] /\ r \notin Above[s]
  BY <1>1, StageBasis
<1>3. plan \in Plan /\ fs \in Tree /\ Target \subseteq Path /\ IsManifest(run.next) /\ IsManifest(run.base) /\ Closed(fs)
  BY StageFacts DEF TreeInv
<1>4. /\ plan.unlink = {} /\ plan.rmdir = {} /\ plan.backup = {} /\ plan.new = {} /\ Relinks = {}
      /\ plan.remove = Aim.remove /\ SetNow \cap plan.copies = {}
      /\ t \in DOMAIN run.next /\ t \in Copies(run.next) /\ t \in Target /\ t \in Path
      /\ t \notin Rest /\ t \notin plan.remove /\ t \notin Taken \ DOMAIN run.next /\ Taken \subseteq Target
      /\ \A s \in SetNow : s \in DOMAIN run.next /\ s \in Symlinks(run.next) \cup Copies(run.next)
      /\ \A s \in Copies(run.next) : s \in Path /\ (run.next[s].src \in DirSrc => LeafOf(s) \in Path)
  BY <1>1, CopyStage
<1>5. Aim' = Aim /\ Relinks' = Relinks /\ Busy \subseteq {t} /\ Busy' = {t} /\ (mid = NoMid => Busy = {})
  BY <1>1, <1>2, AimStays DEF Relinks, Busy
<1>6. ~Exists(fs, t)
  BY CopyFree
<1>7. \A r \in Below[t] : r \in Path /\ ~Exists(fs, r) /\ r # t /\ r \notin Above[t]
  BY <1>3, <1>4, <1>6, AboveBelow, AboveOrder, NothingUnder DEF At
<1>8. /\ \A r \in Path : r # t => fs'[r] = fs[r] \/ (r \in Above[t] /\ fs'[r] = Dir /\ ~Exists(fs, r))
      /\ fs'[t] = IF run.next[t].src \in DirSrc THEN Dir ELSE FileOf(Partial)
  BY <1>1, <1>3, <1>4 DEF BeginCopy, Put, Mkdirs
<1>9. Copying(t)' /\ \A r \in Below[t] : ~Exists(fs', r)
  <2>1. \A r \in Below[t] : ~Exists(fs', r)
    BY <1>7, <1>8 DEF Exists
  <2>2. run.next[t].src \in DirSrc => LeafOf(t) \in Path /\ LeafOf(t) \in Below[t]
    BY <1>4, LeafIs DEF At
  <2> QED BY <1>1, <1>8, <2>1, <2>2 DEF Copying, IsDir, Exists, Dir
<1>10. Shrinks' /\ Ordered' /\ Midway' /\ Does(t)
  BY <1>1, <1>2, <1>4, <1>5, <1>9 DEF Fits, Shrinks, Ordered, Midway, Does
<1>11. \A s \in DOMAIN run.next : s # t => fs'[s] = fs[s]
  BY <1>2, <1>3, <1>4, <1>8
<1>12. ASSUME NEW s \in SetNow, s # t PROVE Placed(s)'
  <2>1. ASSUME s \in Copies(run.next), run.next[s].src \in DirSrc PROVE fs'[LeafOf(s)] = fs[LeafOf(s)]
    <3>1. s \in Path /\ LeafOf(s) \in Path /\ s \in DOMAIN run.next /\ s \notin Above[t]
      BY <1>2, <1>4, <2>1
    <3>2. LeafOf(s) # t /\ LeafOf(s) \notin Above[t]
      BY <1>4, <3>1, LeafIs, AboveOrder
    <3> QED BY <1>8, <3>1, <3>2
  <2>2. Placed(s)
    BY <1>2 DEF Fits, TreeFits
  <2> QED BY <1>1, <1>4, <1>11, <1>12, <2>1, <2>2, PlacedStays
<1>13. \A s \in plan.remove : fs'[s] = fs[s]
  <2>1. \A s \in plan.remove : s \in Path /\ fs[s] = before[s] /\ before[s].kind = "link"
    BY <1>2, <1>3, <1>4, AimApart DEF Fits, TreeFits, Plan
  <2> QED BY <1>4, <1>8, <2>1 DEF Exists
<1>14. \A s \in Taken \ DOMAIN run.next : s # t => fs'[s] \in {fs[s], Dir}
  BY <1>3, <1>4, <1>8
<1>15. t \notin SetNow' /\ t \notin Taken' \ DOMAIN run.next
  BY <1>1, <1>4, <1>5 DEF SetNow
<1> QED BY <1>1, <1>2, <1>4, <1>5, <1>10, <1>11, <1>12, <1>13, <1>14, <1>15, StepFits DEF Fits

LEMMA CopyFinishFits ==
  ASSUME IInv, RunInv, RecordFits, NEW t \in plan.copies, CopyFinish(t)
  PROVE  Fits'
<1>1. /\ phase = "stages" /\ UNCHANGED <<phase, run, before>> /\ mid = Mid("copy", t) /\ mid' = NoMid
      /\ plan' = [plan EXCEPT !.copies = @ \ {t}]
      /\ Copying(t) => fs' = EndCopy(fs, run.next[t].src, t)
  BY DEF CopyFinish, In, Writes, ghostVars
<1>2. /\ AimFits /\ Fits /\ DOMAIN run.next \subseteq Target /\ NoMid.step = "none"
      /\ mid.step = "copy" /\ mid.path = t
      /\ \A s, r \in DOMAIN run.next : s \notin Below[r] /\ r \notin Above[s]
      /\ \A s \in Copies(run.next), r \in DOMAIN run.base : r \notin Below[s]
  BY <1>1, StageBasis
<1>3. plan \in Plan /\ fs \in Tree /\ Target \subseteq Path /\ IsManifest(run.next) /\ IsManifest(run.base)
  BY StageFacts
<1>4. /\ plan.unlink = {} /\ plan.rmdir = {} /\ plan.backup = {} /\ plan.new = {} /\ Relinks = {}
      /\ plan.remove = Aim.remove /\ SetNow \cap plan.copies = {}
      /\ t \in DOMAIN run.next /\ t \in Copies(run.next) /\ t \in Target /\ t \in Path
      /\ run.next[t].method = "copy"
      /\ t \notin Rest /\ t \notin plan.remove /\ t \notin Taken \ DOMAIN run.next
      /\ Taken \subseteq Target /\ Taken \subseteq DOMAIN run.base
      /\ \A s \in SetNow : s \in DOMAIN run.next /\ s \in Symlinks(run.next) \cup Copies(run.next)
      /\ \A s \in Copies(run.next) : s \in Path /\ (run.next[s].src \in DirSrc => LeafOf(s) \in Path)
  BY <1>1, CopyStage
<1>5. /\ plan'.unlink = plan.unlink /\ plan'.rmdir = plan.rmdir /\ plan'.backup = plan.backup
      /\ plan'.new = plan.new /\ plan'.copies = plan.copies \ {t} /\ plan'.remove = plan.remove
      /\ Relinks' = Relinks /\ Busy = {t} /\ Busy' = {} /\ Aim' = Aim
  BY <1>1, <1>2, <1>3, AimStays DEF Plan, Relinks, Busy
<1>6. Copying(t)
  BY <1>2 DEF Fits, Midway
<1>9. /\ Placed(t)' /\ \A s \in DOMAIN run.next \cup DOMAIN run.base : s # t => fs'[s] = fs[s]
      /\ \A s \in Copies(run.next) : run.next[s].src \in DirSrc /\ s # t => fs'[LeafOf(s)] = fs[LeafOf(s)]
  <2>1. CASE run.next[t].src \in DirSrc
    <3>1. fs' = Put(fs, LeafOf(t), FileOf(run.next[t].src)) /\ LeafOf(t) \in Path
          /\ LeafOf(t) # t /\ LeafOf(t) \in Below[t]
      BY <1>1, <1>4, <1>6, <2>1, LeafIs DEF EndCopy, At
    <3>2. \A r \in Path : fs'[r] = IF r = LeafOf(t) THEN FileOf(run.next[t].src) ELSE fs[r]
      BY <1>3, <3>1 DEF Put, Tree
    <3>3. Placed(t)'
      BY <1>1, <1>4, <1>6, <2>1, <3>1, <3>2 DEF Placed, HoldsCopy, Copying, IsDir
    <3>4. \A s \in DOMAIN run.next : fs'[s] = fs[s]
      BY <1>2, <1>3, <1>4, <3>1, <3>2
    <3>5. \A s \in DOMAIN run.base : fs'[s] = fs[s]
      BY <1>2, <1>3, <1>4, <3>1, <3>2, ManifestTypes
    <3>6. ASSUME NEW s \in Copies(run.next), run.next[s].src \in DirSrc, s # t PROVE fs'[LeafOf(s)] = fs[LeafOf(s)]
      <4>1. s \in Path /\ LeafOf(s) \in Path /\ s \notin Above[t] /\ t \notin Above[s]
        BY <1>2, <1>4, <3>6 DEF Copies
      <4>2. LeafOf(s) # LeafOf(t)
        BY <1>4, <3>1, <3>6, <4>1, LeafIs, AtOrder
      <4> QED BY <3>2, <4>1, <4>2
    <3> QED BY <3>3, <3>4, <3>5, <3>6
  <2>2. CASE run.next[t].src \notin DirSrc
    <3>1. fs' = Put(fs, t, FileOf(run.next[t].src))
      BY <1>1, <1>6, <2>2 DEF EndCopy
    <3>2. \A r \in Path : fs'[r] = IF r = t THEN FileOf(run.next[t].src) ELSE fs[r]
      BY <1>3, <1>4, <3>1 DEF Put, Tree
    <3>3. Placed(t)'
      BY <1>1, <1>4, <2>2, <3>2 DEF Placed, HoldsCopy
    <3>4. ASSUME NEW s \in Copies(run.next), run.next[s].src \in DirSrc, s # t PROVE fs'[LeafOf(s)] = fs[LeafOf(s)]
      <4>1. LeafOf(s) \in Path /\ LeafOf(s) # t
        BY <1>2, <1>4, <3>4, LeafIs DEF Copies
      <4> QED BY <3>2, <4>1
    <3> QED BY <1>2, <1>3, <1>4, <3>2, <3>3, <3>4, ManifestTypes
  <2> QED BY <2>1, <2>2
<1>10. Shrinks' /\ Ordered' /\ Midway' /\ Does(t)
  BY <1>1, <1>2, <1>4, <1>5 DEF Fits, Shrinks, Ordered, Midway, Does
<1>11. ASSUME NEW s \in SetNow, s # t PROVE Placed(s)'
  <2>1. Placed(s)
    BY <1>2 DEF Fits, TreeFits
  <2> QED BY <1>1, <1>4, <1>9, <1>11, <2>1, PlacedStays
<1>12. \A s \in plan.remove : fs'[s] = fs[s]
  BY <1>2, <1>3, <1>4, <1>9, AimApart
<1>13. t \notin plan'.copies /\ t \notin Taken' \ DOMAIN run.next
  BY <1>4, <1>5
<1> QED BY <1>1, <1>2, <1>4, <1>5, <1>9, <1>10, <1>11, <1>12, <1>13, StepFits DEF Fits

\* In the stage that removes what is stale, the stages before it are over.
LEMMA StaleStage ==
  ASSUME IInv, RunInv, RecordFits, phase = "stages", In("removeStale") \/ mid.step = "prune"
  PROVE  /\ plan.unlink = {} /\ plan.rmdir = {} /\ plan.backup = {} /\ plan.new = {} /\ Relinks = {}
         /\ plan.copies = {} /\ Busy = {} /\ (mid = NoMid => mid.step = "none")
         /\ Aim.remove \subseteq DOMAIN run.base /\ Aim.remove \cap DOMAIN run.next = {}
         /\ plan.remove \subseteq Aim.remove /\ Aim.remove \subseteq Target
         /\ Taken \subseteq Target
         /\ \A s \in SetNow : s \in DOMAIN run.next /\ s \in Symlinks(run.next) \cup Copies(run.next)
         /\ \A s \in Copies(run.next) : s \in Path /\ (run.next[s].src \in DirSrc => LeafOf(s) \in Path)
<1>1. AimFits /\ Fits /\ IsManifest(run.next) /\ IsManifest(run.base) /\ plan \in Plan
  BY StageBasis, StageFacts
<1>2. NoMid.step = "none"
  BY DEF NoMid
<1>3. /\ plan.unlink = {} /\ plan.rmdir = {} /\ plan.backup = {} /\ plan.new = {} /\ Relinks = {}
      /\ plan.copies = {}
  <2>1. CASE In("removeStale")
    BY <2>1 DEF In, Stage
  <2>2. CASE mid.step = "prune"
    BY <1>1, <2>2 DEF Fits, Ordered
  <2> QED BY <2>1, <2>2
<1>4. Busy = {}
  <2>1. mid.step \in {"none", "prune"}
    BY <1>2 DEF In
  <2> QED BY <2>1 DEF Busy
<1>5. /\ Aim.remove \subseteq DOMAIN run.base /\ Aim.remove \cap DOMAIN run.next = {}
      /\ plan.remove \subseteq Aim.remove /\ Aim.unlink \subseteq DOMAIN run.base
  BY <1>1, AimApart DEF Fits, Shrinks
<1>6. Aim.remove \subseteq Target /\ Taken \subseteq Target
  BY <1>1, <1>5, ManifestTypes DEF Taken, Unlinks
<1>7. \A s \in SetNow : s \in DOMAIN run.next /\ s \in Symlinks(run.next) \cup Copies(run.next)
  BY <1>1, AimApart, ManifestTypes DEF SetNow
<1>8. run.next \in Manifests
  BY <1>1 DEF RecordFits, IInv, RunFits
<1>9. \A s \in Copies(run.next) : s \in Path /\ (run.next[s].src \in DirSrc => LeafOf(s) \in Path)
  BY <1>1, <1>8, EngineAssumption, ManifestTypes
<1> QED BY <1>2, <1>3, <1>4, <1>5, <1>6, <1>7, <1>9

LEMMA RemoveFits ==
  ASSUME IInv, TreeInv, RunInv, RecordFits, NEW t, RemoveStale(t), phase = "stages"
  PROVE  Fits'
<1>1. /\ UNCHANGED <<phase, run, before>> /\ In("removeStale") /\ mid = NoMid /\ t \in plan.remove
      /\ plan' = [plan EXCEPT !.remove = @ \ {t}]
      /\ StillStale(t) => fs' = Put(fs, t, Absent) /\ mid' = Mid("prune", t)
  BY DEF RemoveStale, InStale, In, Writes, ghostVars
<1>2. /\ AimFits /\ Fits /\ DOMAIN run.next \subseteq Target /\ NoMid.step = "none"
      /\ Mid("prune", t).step = "prune" /\ Mid("prune", t).path = t
      /\ \A s \in Copies(run.next), r \in DOMAIN run.base : r \notin Below[s]
  BY <1>1, StageBasis
<1>3. plan \in Plan /\ fs \in Tree /\ Target \subseteq Path /\ IsManifest(run.next) /\ IsManifest(run.base) /\ Closed(fs)
  BY StageFacts DEF TreeInv
<1>4. /\ plan.unlink = {} /\ plan.rmdir = {} /\ plan.backup = {} /\ plan.new = {} /\ Relinks = {}
      /\ plan.copies = {} /\ Busy = {}
      /\ Aim.remove \subseteq DOMAIN run.base /\ Aim.remove \cap DOMAIN run.next = {}
      /\ plan.remove \subseteq Aim.remove /\ Aim.remove \subseteq Target /\ Taken \subseteq Target
      /\ \A s \in SetNow : s \in DOMAIN run.next /\ s \in Symlinks(run.next) \cup Copies(run.next)
      /\ \A s \in Copies(run.next) : s \in Path /\ (run.next[s].src \in DirSrc => LeafOf(s) \in Path)
  BY <1>1, StaleStage
<1>5. t \in Aim.remove /\ t \in DOMAIN run.base /\ t \notin DOMAIN run.next /\ t \in Path
      /\ fs[t] = before[t] /\ RecordedLink(before, run.base, t)
  BY <1>1, <1>2, <1>3, <1>4 DEF Fits, TreeFits, AimFits
<1>6. StillStale(t)
  BY <1>5 DEF StillStale, RecordedLink
<1>7. /\ \A r \in Path : fs'[r] = IF r = t THEN Absent ELSE fs[r]
      /\ mid'.step = "prune" /\ mid'.path = t /\ fs[t].kind = "link"
  BY <1>1, <1>2, <1>3, <1>5, <1>6 DEF Put, Tree, RecordedLink, LinkTo
<1>8. InRealDir(fs', t)
  <2>1. InRealDir(fs, t)
    BY <1>3, <1>5, <1>7 DEF Closed, Exists
  <2>2. \A q \in Above[t] : q \in Path /\ q # t
    BY <1>5, AboveBelow, AboveOrder
  <2> QED BY <1>7, <2>1, <2>2 DEF InRealDir, IsDir
<1>9. /\ plan'.unlink = {} /\ plan'.rmdir = {} /\ plan'.backup = {}
      /\ plan'.new = {} /\ plan'.copies = {} /\ plan'.remove = plan.remove \ {t}
      /\ Relinks' = {} /\ Busy' = {} /\ Aim' = Aim
  BY <1>1, <1>3, <1>4, <1>7, AimStays DEF Plan, Relinks, Busy
<1>10. Shrinks' /\ Ordered' /\ Midway' /\ Does(t)
  BY <1>1, <1>2, <1>4, <1>5, <1>7, <1>8, <1>9 DEF Fits, Shrinks, Ordered, Midway, Does, At
<1>11. ASSUME NEW s \in SetNow, s # t PROVE Placed(s)'
  <2>1. ASSUME s \in Copies(run.next), run.next[s].src \in DirSrc PROVE fs'[LeafOf(s)] = fs[LeafOf(s)]
    <3>1. s \in Path /\ LeafOf(s) \in Path
      BY <1>4, <2>1
    <3>2. LeafOf(s) # t
      BY <1>2, <1>5, <2>1, <3>1, LeafIs, AboveOrder
    <3> QED BY <1>7, <3>1, <3>2
  <2>2. Placed(s) /\ fs'[s] = fs[s]
    BY <1>2, <1>3, <1>4, <1>7, <1>11 DEF Fits, TreeFits
  <2> QED BY <1>1, <1>4, <2>1, <2>2, PlacedStays
<1>12. t \notin SetNow' /\ t \notin Rest
  <2>1. Aim.new \cup Aim.replace \cup Aim.foreign \cup Aim.copies \subseteq DOMAIN run.next /\ Rest \subseteq DOMAIN run.next
    BY <1>2, <1>3, AimApart DEF Symlinks, Copies
  <2> QED BY <1>5, <1>9, <2>1 DEF SetNow
<1>13. \A s \in Taken \ DOMAIN run.next : s # t => fs'[s] = fs[s]
  BY <1>3, <1>4, <1>7
<1> QED BY <1>1, <1>2, <1>3, <1>4, <1>5, <1>7, <1>9, <1>10, <1>11, <1>12, <1>13, StepFits DEF Fits

LEMMA FitsStays ==
  ASSUME Shrinks, TreeFits, UNCHANGED <<fs, plan, run, before>>, Busy' = Busy
  PROVE  Shrinks' /\ TreeFits'
<1>1. Aim' = Aim /\ Rest' = Rest /\ Relinks' = Relinks
  BY AimStays DEF Relinks
<1>2. SetNow' = SetNow /\ BackedUp' = BackedUp /\ Unlinks' = Unlinks /\ Taken' = Taken
  BY <1>1 DEF SetNow, BackedUp, Unlinks, Taken
<1>3. \A t : (Placed(t)' <=> Placed(t)) /\ (Pending(t)' <=> Pending(t))
  BY <1>2 DEF Placed, Pending
<1> QED BY <1>1, <1>2, <1>3 DEF Shrinks, TreeFits

(* The pruning goes up from a path of the tree: reset.go's prompt is no such step. *)
LEMMA PrunedPath ==
  ASSUME IInv, mid.step = "prune"
  PROVE  mid.path \in Path
<1>1. NoMid.step = "none" /\ Asking.step = "ask"
  BY DEF NoMid, Asking, Mid
<1>2. mid \in [step : {"relink", "aside", "copy", "prune"}, path : Path]
  BY <1>1 DEF IInv, TypeOK
<1> QED BY <1>2

LEMMA PruneFits ==
  ASSUME IInv, RunInv, RecordFits, PruneAncestor, phase = "stages"
  PROVE  Fits'
<1>1. UNCHANGED <<phase, run, before, plan>> /\ mid.step = "prune"
  BY DEF PruneAncestor, Writes, ghostVars
<1>2. /\ AimFits /\ Fits /\ DOMAIN run.next \subseteq Target /\ NoMid.step = "none"
      /\ \A s \in Copies(run.next), r \in DOMAIN run.base : r \notin Below[s]
  BY <1>1, StageBasis
<1>3. plan \in Plan /\ fs \in Tree /\ Target \subseteq Path /\ IsManifest(run.next) /\ IsManifest(run.base)
  BY StageFacts
<1>4. /\ plan.unlink = {} /\ plan.rmdir = {} /\ plan.backup = {} /\ plan.new = {} /\ Relinks = {}
      /\ plan.copies = {} /\ Busy = {}
      /\ Aim.remove \subseteq DOMAIN run.base /\ Aim.remove \cap DOMAIN run.next = {}
      /\ plan.remove \subseteq Aim.remove /\ Aim.remove \subseteq Target /\ Taken \subseteq Target
      /\ \A s \in SetNow : s \in DOMAIN run.next /\ s \in Symlinks(run.next) \cup Copies(run.next)
      /\ \A s \in Copies(run.next) : s \in Path /\ (run.next[s].src \in DirSrc => LeafOf(s) \in Path)
  BY <1>1, StaleStage
<1>5. Relinks' = Relinks /\ Aim' = Aim
  BY <1>1, AimStays DEF Relinks
<1>6. CASE mid' = NoMid /\ fs' = fs
  <2>1. Busy' = {}
    BY <1>2, <1>6 DEF Busy
  <2>2. Shrinks' /\ TreeFits'
    BY <1>1, <1>2, <1>4, <1>6, <2>1, FitsStays DEF Fits
  <2>3. Ordered' /\ Midway'
    BY <1>1, <1>2, <1>4, <1>5, <1>6 DEF Fits, Ordered, Midway
  <2> QED BY <2>2, <2>3 DEF Fits
<1>7. CASE ~(mid' = NoMid /\ fs' = fs)
  <2> DEFINE up == Front(mid.path)
  <2>1. /\ up \in Path /\ CanRemove(fs, up) /\ fs' = Put(fs, up, Absent) /\ mid' = Mid("prune", up)
    BY <1>7 DEF PruneAncestor
  <2>2. mid.path \in Path
    BY <1>1, PrunedPath
  <2>3. InRealDir(fs, mid.path) /\ \E t \in Aim.remove : t \in At(mid.path)
    BY <1>1, <1>2 DEF Fits, Midway
  <2>4. PICK t \in Aim.remove : t \in At(mid.path)
    BY <2>3
  <2>5. up \in Above[mid.path] /\ Above[mid.path] = Above[up] \cup {up}
    BY <2>1, <2>2, FrontAbove
  <2> HIDE DEF up
  <2>6. t \in Below[up] /\ t \in At(up) /\ t \in DOMAIN run.base
    BY <1>3, <1>4, <2>1, <2>2, <2>4, <2>5, AtOrder, AboveOrder DEF At
  <2>7. fs[up].kind = "dir"
    BY <2>3, <2>5 DEF InRealDir, IsDir
  <2>8. \A r \in Path : fs'[r] = IF r = up THEN Absent ELSE fs[r]
    BY <1>3, <2>1 DEF Put, Tree
  <2>9. InRealDir(fs', up)
    <3>1. \A q \in Above[up] : q \in Path /\ q # up
      BY <2>1, AboveBelow, AboveOrder
    <3> QED BY <2>3, <2>5, <2>8, <3>1 DEF InRealDir, IsDir
  <2>10. mid'.step = "prune" /\ mid'.path = up /\ Busy' = {}
    BY <2>1 DEF Mid, Busy
  <2>11. Shrinks' /\ Ordered' /\ Midway' /\ Does(up)
    BY <1>1, <1>2, <1>4, <1>5, <2>4, <2>6, <2>9, <2>10 DEF Fits, Shrinks, Ordered, Midway, Does
  <2>12. up \notin Copies(run.next)
    BY <1>2, <2>6
  <2>13. up \notin SetNow
    <3>1. ASSUME up \in SetNow PROVE FALSE
      <4>1. Placed(up) /\ up \in Symlinks(run.next)
        BY <1>2, <1>4, <2>12, <3>1 DEF Fits, TreeFits
      <4>2. fs[up] = LinkTo(run.next[up].src)
        BY <4>1 DEF Placed, Symlinks
      <4> QED BY <2>7, <4>2 DEF LinkTo
    <3> QED BY <3>1
  <2>14. up \notin Rest
    <3>1. ASSUME up \in Rest PROVE FALSE
      <4>1. up \in DOMAIN run.next /\ up \in Symlinks(run.next) /\ fs[up] = before[up]
        BY <1>2, <1>3, <2>12, <3>1, ManifestTypes DEF Rest, Fits, TreeFits
      <4>2. before[up] = LinkTo(run.next[up].src)
        BY <1>2, <3>1, <4>1 DEF AimFits, Symlinks
      <4> QED BY <2>7, <4>1, <4>2 DEF LinkTo
    <3> QED BY <3>1
  <2>15. ASSUME NEW s \in SetNow, s # up PROVE Placed(s)'
    <3>1. ASSUME s \in Copies(run.next), run.next[s].src \in DirSrc PROVE fs'[LeafOf(s)] = fs[LeafOf(s)]
      <4>1. s \in Path /\ LeafOf(s) \in Path
        BY <1>4, <3>1
      <4>2. LeafOf(s) # up
        BY <1>2, <1>3, <1>4, <2>1, <2>6, <3>1, <4>1, LeafIs, AboveOrder
      <4> QED BY <2>8, <4>1, <4>2
    <3>2. Placed(s) /\ fs'[s] = fs[s]
      BY <1>2, <1>3, <1>4, <2>8, <2>15 DEF Fits, TreeFits
    <3> QED BY <1>1, <1>4, <3>1, <3>2, PlacedStays
  <2>16. \A s \in DOMAIN run.next : s # up => fs'[s] = fs[s]
    BY <1>2, <1>3, <2>8
  <2>17. \A s \in plan.remove : fs'[s] = fs[s]
    <3>1. \A s \in plan.remove : s \in Path /\ fs[s] = before[s] /\ before[s].kind = "link"
      BY <1>2, <1>3, <1>4, AimApart DEF Fits, TreeFits
    <3> QED BY <2>7, <2>8, <3>1
  <2>18. \A s \in Taken \ DOMAIN run.next : fs'[s] \in {fs[s], Absent}
    BY <1>3, <1>4, <2>8
  <2>19. SetNow' = SetNow /\ fs'[up] = Absent
    BY <1>1, <1>5, <2>1, <2>8 DEF SetNow
  <2> QED BY <1>1, <1>2, <1>4, <1>5, <2>11, <2>13, <2>14, <2>15, <2>16, <2>17, <2>18, <2>19, StepFits DEF Fits
<1> QED BY <1>6, <1>7

-----------------------------------------------------------------------------
(* The steps of a run.                                                      *)

\* Between the runs there is no tree a run has started from.
IdleFits == phase = "idle" => before = fs

LEMMA GroundedStays ==
  ASSUME Grounded, UNCHANGED <<run, before>>, UnderWay' => UnderWay
  PROVE  Grounded'
<1>1. Whole' = Whole
  BY AimStays
<1> QED BY <1>1 DEF Grounded

LEMMA StageStepRun ==
  ASSUME NamesApart, IInv, TreeInv, RecordFits, RunInv, StageStep
  PROVE  RunInv'
<1>1. phase \in {"stages", "teardown"} /\ (phase' = phase \/ phase' = "unwind")
  BY StageStarted, StagePhase
<1>2. CASE phase' # "stages"
  BY <1>1, <1>2 DEF RunInv, Grounded, UnderWay
<1>3. CASE phase' = "stages"
  <2>1. phase = "stages"
    BY <1>1, <1>3
  <2>2. UNCHANGED <<run, before>> /\ Fits'
    <3>1. CASE \E p \in plan.unlink : PreRemoveUnlink(p)
      BY <3>1, UnlinkFits DEF PreRemoveUnlink, Writes, ghostVars
    <3>2. CASE \E p \in plan.rmdir : PreRemoveRmdir(p)
      BY <3>2, RmdirFits DEF PreRemoveRmdir, Writes, ghostVars
    <3>3. CASE \E t \in plan.backup : BackUp(t)
      BY <3>3, BackUpFits DEF BackUp, Writes, ghostVars
    <3>4. CASE \E t \in plan.new : PlaceNew(t)
      BY <3>4, PlaceNewFits DEF PlaceNew, Writes, ghostVars
    <3>5. CASE \E t \in Relinks : RelinkUnlink(t) \/ RelinkSymlink(t)
      BY <3>5, RelinkFits DEF RelinkUnlink, RelinkSymlink, Writes, ghostVars
    <3>6. CASE \E t \in plan.copies : RecopyAside(t)
      BY <3>6, AsideFits DEF RecopyAside, Writes, ghostVars
    <3>7. CASE \E t \in plan.copies : CopyStart(t)
      BY <3>7, CopyStartFits DEF CopyStart, Writes, ghostVars
    <3>8. CASE \E t \in plan.copies : CopyFinish(t)
      BY <3>8, CopyFinishFits DEF CopyFinish, Writes, ghostVars
    <3>9. CASE \E t \in plan.copies : CopyStuck(t) \/ ResetCopy(t)
      BY <1>3, <2>1, <3>9 DEF CopyStuck, ResetCopy
    <3>10. CASE \E t \in plan.remove : RemoveStale(t)
      BY <2>1, <3>10, RemoveFits DEF RemoveStale, Writes, ghostVars
    <3>11. CASE PruneAncestor
      BY <2>1, <3>11, PruneFits DEF PruneAncestor, Writes, ghostVars
    <3>12. CASE \E p \in Path : StageStuck(p)
      BY <1>3, <3>12 DEF StageStuck, Fails
    <3> QED BY <3>1, <3>2, <3>3, <3>4, <3>5, <3>6, <3>7, <3>8, <3>9, <3>10, <3>11, <3>12 DEF StageStep
  <2>3. UnderWay /\ Grounded'
    BY <2>1, <2>2, GroundedStays DEF RunInv, UnderWay
  <2> QED BY <2>2, <2>3 DEF RunInv, Fits
<1> QED BY <1>2, <1>3

LEMMA BaselineApart ==
  ASSUME EntriesApart, IInv, RecordFits, NEW m \in Manifests
  PROVE  Apart(Baseline, m)
<1>1. HasBaseline => BaselineFarm \in Manifests /\ DOMAIN Baseline \subseteq DOMAIN BaselineFarm
  BY BaselineType, BaselineWithin DEF Within
<1>2. ~HasBaseline => DOMAIN Baseline = {}
  BY DEF HasBaseline, Baseline, NoEntries, IInv, TypeOK
<1>3. Apart(m, m) /\ (HasBaseline => Apart(BaselineFarm, m))
  BY <1>1 DEF EntriesApart
<1> QED BY <1>1, <1>2, <1>3 DEF Apart

\* What a run that begins its stages starts with.
Begun(m, backup, recopy, skip) ==
  LET k == WithRecopy(Compute(fs, Baseline, m, backup), m, recopy)
  IN /\ m \in Manifests /\ backup \in BOOLEAN /\ recopy \in BOOLEAN /\ skip \in BOOLEAN
     /\ run'.base = Baseline /\ run'.next = m
     /\ run'.backup = backup /\ run'.recopy = recopy /\ run'.skip = skip
     /\ k.conflicts = {}
     /\ plan' = IF skip THEN Repairs(k) ELSE k
     /\ skip => SkipsGeneration(m) /\ k.unlink \cup k.rmdir = {}
     /\ UNCHANGED <<fs, mid, before>>

LEMMA StartBegins ==
  ASSUME IInv, Start, phase' = "stages"
  PROVE  phase = "idle" /\ \E m, backup, recopy, skip : Begun(m, backup, recopy, skip)
<1>1. CASE \E m \in Manifests, mod \in Modifiers : StartApply(m, mod)
  <2>1. PICK m \in Manifests, mod \in Modifiers : StartApply(m, mod)
    BY <1>1
  <2> DEFINE k == WithRecopy(Compute(fs, Baseline, m, mod.backup), m, mod.recopy)
             skip == SkipsGeneration(m)
             r == [op |-> "apply", next |-> m, base |-> Baseline, farm |-> m,
                   backup |-> mod.backup, recopy |-> mod.recopy, skip |-> skip, selected |-> {}]
             C == IF mod.recopy THEN UNION {At(t) : t \in Copies(m)} ELSE {}
  <2>2. mod.backup \in BOOLEAN /\ mod.recopy \in BOOLEAN
    BY EngineAssumption
  <2>3. /\ phase = "idle" /\ k.conflicts = {}
        /\ IF ~skip THEN Begin(r, k, C, "stages")
           ELSE k.unlink \cup k.rmdir = {} /\ Begin(r, Repairs(k), C, "stages")
    BY <2>1 DEF StartApply, Refuse, End, Begin
  <2> HIDE DEF k
  <2>4. skip \in BOOLEAN
    BY DEF SkipsGeneration
  <2>5. /\ run' = r /\ UNCHANGED <<fs, mid, before>> /\ plan' = IF skip THEN Repairs(k) ELSE k
        /\ skip => k.unlink \cup k.rmdir = {}
    BY <2>3 DEF Begin
  <2>6. Begun(m, mod.backup, mod.recopy, skip)
    BY <2>2, <2>3, <2>4, <2>5 DEF Begun, k
  <2> QED BY <2>3, <2>6
<1>2. CASE StartRollback
  <2> DEFINE m == gens[cur - 1]
             p == Compute(fs, Baseline, m, FALSE)
             r == [op |-> "rollback", next |-> m, base |-> Baseline, farm |-> m,
                   backup |-> FALSE, recopy |-> FALSE, skip |-> FALSE, selected |-> {}]
  <2>1. phase = "idle" /\ cur > 1 /\ p.conflicts = {} /\ Begin(r, p, {}, "stages")
    BY <1>2 DEF StartRollback, Refuse, End, Begin
  <2>2. m \in Manifests
    BY <2>1 DEF IInv, TypeOK
  <2> HIDE DEF p
  <2>3. run' = r /\ UNCHANGED <<fs, mid, before>> /\ plan' = p
    BY <2>1 DEF Begin
  <2>4. WithRecopy(p, m, FALSE) = p
    BY DEF WithRecopy
  <2>5. Begun(m, FALSE, FALSE, FALSE)
    BY <2>1, <2>2, <2>3, <2>4 DEF Begun, p
  <2> QED BY <2>1, <2>5
<1>3. CASE \E T \in SUBSET DOMAIN Baseline : StartReset(T)
  BY <1>3 DEF StartReset, Refuse, End, Begin, Ask
<1> QED BY <1>1, <1>2, <1>3 DEF Start

LEMMA BegunFits ==
  ASSUME EntriesApart, IInv, IInv', TreeInv, RecordFits, IdleFits, phase = "idle", mid = NoMid,
         phase' = "stages", NEW m, NEW backup, NEW recopy, NEW skip, Begun(m, backup, recopy, skip)
  PROVE  RunInv' /\ fs' = before' /\ Touched' = {}
<1> DEFINE c == Compute(fs, Baseline, m, backup)
           k == WithRecopy(c, m, recopy)
<1>1. /\ m \in Manifests /\ run'.base = Baseline /\ run'.next = m
      /\ run'.backup = backup /\ run'.recopy = recopy /\ run'.skip = skip
      /\ k.conflicts = {} /\ plan' = (IF skip THEN Repairs(k) ELSE k)
      /\ skip => SkipsGeneration(m) /\ k.unlink \cup k.rmdir = {}
      /\ UNCHANGED <<fs, mid, before>> /\ before = fs
      /\ backup \in BOOLEAN
  BY DEF Begun, IdleFits
<1>2. Whole' = c
  BY <1>1 DEF Whole
<1>3. Aim' = plan'
  BY <1>1, <1>2 DEF Aim
<1>4. k.conflicts = c.conflicts /\ k.unlink = c.unlink /\ k.rmdir = c.rmdir
  <2>1. c \in Plan
    <3>1. fs \in Tree /\ IsManifest(Baseline) /\ IsManifest(m)
      BY <1>1, BaselineType, EngineAssumption DEF IInv, TypeOK
    <3> QED BY <1>1, <3>1, ComputeType
  <2> HIDE DEF c
  <2> QED BY <2>1 DEF WithRecopy, Plan
<1>5. Apart(Baseline, m)
  BY <1>1, BaselineApart
<1>6. skip => Within(Baseline, m)
  <2>1. ASSUME SkipsGeneration(m) PROVE Within(Baseline, m)
    <3>1. CASE record # NoRecord
      BY <2>1, <3>1 DEF SkipsGeneration, RecordFits, Baseline
    <3>2. CASE record = NoRecord
      BY <2>1, <3>2 DEF SkipsGeneration, Baseline, Within
    <3> QED BY <3>1, <3>2
  <2> QED BY <1>1, <2>1
<1>7. Grounded'
  BY <1>1, <1>2, <1>4, <1>5, <1>6 DEF Grounded, TreeInv
<1> HIDE DEF c, k
<1>8. /\ NoMid.step = "none" /\ plan' \in Plan /\ mid' = NoMid
      /\ Relinks' = (plan'.replace \cup plan'.foreign) /\ Busy' = {}
  BY <1>1 DEF NoMid, IInv, TypeOK, Relinks, Busy
<1>9. Shrinks' /\ Ordered' /\ Midway'
  BY <1>3, <1>8 DEF Shrinks, Ordered, Midway
<1>10. SetNow' = {} /\ BackedUp' = {} /\ Unlinks' = {} /\ Taken' = {}
  BY <1>3, <1>8 DEF SetNow, BackedUp, Unlinks, Taken
<1>11. TreeFits'
  BY <1>1, <1>10 DEF TreeFits, Pending
<1> QED BY <1>1, <1>7, <1>8, <1>9, <1>10, <1>11 DEF RunInv, Touched

LEMMA StartRun ==
  ASSUME EntriesApart, IInv, IInv', TreeInv, RecordFits, JournalInv, IdleFits, Start
  PROVE  RunInv' /\ (phase' = "stages" => fs' = before' /\ Touched' = {})
<1>1. phase = "idle" => mid = NoMid
  BY DEF JournalInv
<1>2. CASE phase' = "stages"
  BY <1>1, <1>2, StartBegins, BegunFits
<1>3. CASE phase' # "stages"
  <2>1. phase' \in {"idle", "teardown", "unwind"}
    BY <1>3, StartIs DEF StartFacts
  <2> QED BY <2>1 DEF RunInv, Grounded, UnderWay
<1> QED BY <1>2, <1>3

LEMMA FinishRun ==
  ASSUME RunInv, Finish
  PROVE  RunInv'
<1>1. CASE WriteRecord \/ Commit
  <2>1. /\ UNCHANGED <<fs, run, plan, mid, before>> /\ UnderWay /\ phase' \in {"commit", "discard"}
    BY <1>1 DEF WriteRecord, Commit, In, UnderWay, ghostVars
  <2>2. Shrinks /\ Ordered /\ Midway /\ TreeFits /\ Stage = "record" /\ mid = NoMid
    BY <1>1, <2>1 DEF RunInv, Ordered, WriteRecord, Commit, In
  <2>3. Busy' = Busy /\ Aim' = Aim /\ Relinks' = Relinks
    BY <2>1, AimStays DEF Busy, Relinks
  <2>4. Shrinks' /\ TreeFits'
    BY <2>1, <2>2, <2>3, FitsStays
  <2>5. Stage' = Stage
    BY <2>1, <2>3 DEF Stage
  <2>6. Ordered' /\ Midway'
    BY <2>1, <2>2, <2>3, <2>5 DEF Ordered, Midway, NoMid
  <2>7. Grounded'
    BY <2>1, GroundedStays DEF RunInv
  <2> QED BY <2>4, <2>6, <2>7 DEF RunInv
<1>2. CASE DiscardJournal \/ Unwound \/ RecordAfterReset
  BY <1>2 DEF DiscardJournal, Unwound, RecordAfterReset, End, RunInv, Grounded, UnderWay
<1>3. CASE UndoStep
  BY <1>3 DEF UndoStep, RunInv, Grounded, UnderWay
<1> QED BY <1>1, <1>2, <1>3 DEF Finish

LEMMA FailureRun ==
  ASSUME RunInv, Failure
  PROVE  RunInv'
<1>1. CASE StageFault
  BY <1>1 DEF StageFault, Fails, RunInv, Grounded, UnderWay
<1>2. CASE ResetFault
  BY <1>2 DEF ResetFault, RunInv, Grounded, UnderWay
<1>3. CASE CommitFault \/ ResetRecordFault
  BY <1>3 DEF CommitFault, ResetRecordFault, End, RunInv, Grounded, UnderWay
<1>4. CASE PruneFault
  <2>1. /\ UNCHANGED <<fs, run, plan, before, phase>> /\ mid.step = "prune" /\ mid' = NoMid
        /\ phase \in {"stages", "teardown"}
    BY <1>4 DEF PruneFault
  <2>2. CASE phase = "teardown"
    BY <2>1, <2>2 DEF RunInv, Grounded, UnderWay
  <2>3. CASE phase = "stages"
    <3>1. UnderWay /\ Shrinks /\ Ordered /\ Midway /\ TreeFits
      BY <2>3 DEF UnderWay, RunInv
    <3>2. Busy' = Busy /\ Aim' = Aim /\ Relinks' = Relinks
      BY <2>1, AimStays DEF Busy, Relinks, NoMid
    <3>3. Shrinks' /\ TreeFits'
      BY <2>1, <3>1, <3>2, FitsStays
    <3>4. Ordered' /\ Midway'
      BY <2>1, <2>3, <3>1, <3>2 DEF Ordered, Midway, NoMid
    <3>5. Grounded'
      BY <2>1, <3>1, GroundedStays DEF RunInv
    <3> QED BY <3>3, <3>4, <3>5 DEF RunInv
  <2> QED BY <2>1, <2>2, <2>3
<1> QED BY <1>1, <1>2, <1>3, <1>4 DEF Failure

LEMMA NextRun ==
  ASSUME NamesApart, EntriesApart
  PROVE  IInv /\ IInv' /\ RecordFits /\ TreeInv /\ JournalInv /\ RunInv /\ IdleFits /\ [Next]_vars
           => RunInv' /\ IdleFits'
<1> SUFFICES ASSUME IInv, IInv', RecordFits, TreeInv, JournalInv, RunInv, IdleFits, [Next]_vars
             PROVE  RunInv' /\ IdleFits'
  OBVIOUS
<1>1. CASE Start
  <2>1. Refuse => IdleFits'
    BY DEF Refuse, End, IdleFits
  <2>2. \A r, p, C, ph : Begin(r, p, C, ph) /\ ph # "idle" => IdleFits'
    BY DEF Begin, IdleFits
  <2>3. \A r, p : Ask(r, p) => IdleFits'
    BY DEF Ask, IdleFits
  <2>4. ASSUME NEW m \in Manifests, NEW mod \in Modifiers, StartApply(m, mod) PROVE IdleFits'
    BY <2>1, <2>2, <2>4 DEF StartApply
  <2>5. ASSUME StartRollback PROVE IdleFits'
    BY <2>1, <2>2, <2>5 DEF StartRollback
  <2>6. ASSUME NEW T \in SUBSET DOMAIN Baseline, StartReset(T) PROVE IdleFits'
    BY <2>1, <2>2, <2>3, <2>6 DEF StartReset
  <2>7. IdleFits'
    BY <1>1, <2>4, <2>5, <2>6 DEF Start
  <2> QED BY <1>1, <2>7, StartRun
<1>2. CASE StageStep
  <2>1. phase' # "idle"
    BY <1>2, StageStarted, StagePhase
  <2> QED BY <1>2, <2>1, StageStepRun DEF IdleFits
<1>3. CASE Finish
  <2>1. IdleFits'
    BY <1>3 DEF Finish, WriteRecord, Commit, DiscardJournal, UndoStep, Unwound, RecordAfterReset, End, IdleFits, In
  <2> QED BY <1>3, <2>1, FinishRun
<1>4. CASE Failure
  <2>1. IdleFits'
    BY <1>4 DEF Failure, StageFault, PruneFault, CommitFault, ResetFault, ResetRecordFault, Fails, End, IdleFits
  <2> QED BY <1>4, <2>1, FailureRun
<1>5. CASE Crash
  BY <1>5 DEF Crash, End, IdleFits, RunInv, Grounded, UnderWay
<1>6. CASE UserStep
  <2>1. UserDuringRun = FALSE
    BY DEF EntriesApart
  <2>2. phase = "idle" /\ phase' = "idle" /\ before' = fs'
    BY <1>6, <2>1 DEF UserStep, UserWrite, UserMkdir, UserRelink, UserDelete, UserMay, Edited
  <2> QED BY <2>2 DEF IdleFits, RunInv, Grounded, UnderWay
<1>7. CASE UNCHANGED vars
  <2>1. UNCHANGED <<fs, run, before, plan, phase, mid>>
    BY <1>7 DEF vars, engineVars, ghostVars
  <2>2. Aim' = Aim /\ Relinks' = Relinks /\ Busy' = Busy
    BY <2>1, AimStays DEF Relinks, Busy
  <2>3. Stage' = Stage
    BY <2>1, <2>2 DEF Stage
  <2>4. UnderWay' => Shrinks' /\ TreeFits' /\ Ordered' /\ Midway'
    BY <2>1, <2>2, <2>3, FitsStays DEF RunInv, UnderWay, Ordered, Midway, Copying
  <2>5. Grounded'
    BY <2>1, GroundedStays DEF RunInv, UnderWay
  <2> QED BY <2>1, <2>4, <2>5 DEF IdleFits, RunInv
<1>8. CASE AnswerReset
  BY <1>8 DEF AnswerReset, Refuse, End, IdleFits, RunInv, Grounded, UnderWay
<1> QED BY <1>1, <1>2, <1>3, <1>4, <1>5, <1>6, <1>7, <1>8 DEF Next, RunStep

LEMMA InitRun == Init => RunInv /\ IdleFits
BY DEF Init, RunInv, Grounded, UnderWay, IdleFits

\* All that the theorems below rest on, along a whole execution.
RunBasis == IInv /\ RecordFits /\ TreeInv /\ JournalInv /\ RunInv /\ IdleFits

LEMMA NextBasis ==
  ASSUME NamesApart, EntriesApart
  PROVE  RunBasis /\ [Next]_vars => RunBasis'
BY NextIInv, NextRecordFits, NextTree, NextOnce, NextRun DEF RunBasis

LEMMA InitBasis == Init => RunBasis
BY InitIInv, InitRecordFits, InitTree, InitLinks, InitRun DEF RunBasis

LEMMA BasisHolds ==
  ASSUME NamesApart, EntriesApart
  PROVE  Spec => []RunBasis
BY NextBasis, InitBasis, PTL DEF Spec

\* When the stages are over, all of the plan is done.
LEMMA AtRecord ==
  ASSUME RunBasis, In("record")
  PROVE  /\ AimFits /\ Fits /\ UnderWay /\ Busy = {}
         /\ plan.unlink = {} /\ plan.rmdir = {} /\ plan.backup = {} /\ plan.new = {} /\ Relinks = {}
         /\ plan.copies = {} /\ plan.remove = {}
         /\ SetNow = Aim.new \cup Aim.replace \cup Aim.foreign \cup Aim.copies
         /\ DOMAIN run.next = SetNow \cup Rest
<1>1. phase = "stages" /\ mid = NoMid /\ Stage = "record"
  BY DEF In
<1>2. AimFits /\ Fits /\ IsManifest(run.next) /\ IsManifest(run.base) /\ NoMid.step = "none"
  BY <1>1, StageBasis, StageFacts DEF RunBasis
<1>3. /\ plan.unlink = {} /\ plan.rmdir = {} /\ plan.backup = {} /\ plan.new = {} /\ Relinks = {}
      /\ plan.copies = {} /\ plan.remove = {}
  BY <1>1 DEF Stage
<1>4. SetNow = Aim.new \cup Aim.replace \cup Aim.foreign \cup Aim.copies
  BY <1>3 DEF SetNow
<1>5. DOMAIN run.next = SetNow \cup Rest
  <2>1. SetNow \subseteq DOMAIN run.next
    BY <1>2, <1>4, AimApart DEF Symlinks, Copies
  <2> QED BY <1>4, <2>1 DEF Rest
<1> QED BY <1>1, <1>2, <1>3, <1>4, <1>5 DEF Busy, UnderWay

\* A run of apply or rollback that reaches the record has put every entry of
\* its manifest in place: whatever the tree looked like, whatever it had to
\* make room for, and whichever of its options are set (engine.go Apply, the
\* stages before recordPlacement; place.go, copy.go).
THEOREM RecordedIsPlaced ==
  ASSUME NamesApart, EntriesApart
  PROVE  Spec => []PlacedWhenRecorded
<1>1. RunBasis => PlacedWhenRecorded
  <2> SUFFICES ASSUME RunBasis, In("record"), NEW t \in DOMAIN run.next
               PROVE  IF run.next[t].method = "symlink" THEN fs[t] = LinkTo(run.next[t].src)
                      ELSE Exists(fs, t) /\ (run.recopy => HoldsCopy(fs, run.next[t].src, t))
    BY DEF PlacedWhenRecorded
  <2>1. AimFits /\ Fits /\ (t \in SetNow \/ t \in Rest)
    BY AtRecord
  <2>2. CASE t \in SetNow
    <3>1. Placed(t)
      BY <2>1, <2>2 DEF Fits, TreeFits
    <3> QED BY <3>1 DEF Placed, HoldsCopy, Exists, IsDir, FileOf
  <2>3. CASE t \in Rest
    <3>1. fs[t] = before[t]
      BY <2>1, <2>3 DEF Fits, TreeFits
    <3>2. IF run.next[t].method = "symlink" THEN run.skip /\ before[t] = LinkTo(run.next[t].src)
          ELSE Exists(before, t) /\ ~run.recopy
      BY <2>1, <2>3 DEF AimFits
    <3> QED BY <3>1, <3>2 DEF Exists
  <2> QED BY <2>1, <2>2, <2>3
<1> QED BY <1>1, BasisHolds, PTL

-----------------------------------------------------------------------------
(* What the stages write.                                                   *)

ForeignLink(f, p) == IsLink(f, p) /\ f[p].val \in Foreign

\* What a step may do at p.
Writes1(p) ==
  \/ fs'[p] = fs[p]
  \/ fs[p].kind \in {"absent", "dir"} /\ fs'[p] \in {Absent, Dir}
  \/ \E t \in Touched' :
       /\ p \in At(t)
       /\ \/ ~ForeignLink(fs, p)
          \/ p \in Symlinks(run.next)
          \/ run.recopy /\ t \in Copies(run.next)
  \/ \E b \in BackedUp' : p \in At(b) /\ fs'[Rebase(BackupOf[b], b, p)] = fs[p]
  \/ \E b \in BackedUp' : p \in At(BackupOf[b]) /\ ~Exists(fs, p)
  \/ run.recopy /\ p \in AsidePath

\* What a step of the stages leaves of what has been done so far.
Progress ==
  /\ UNCHANGED <<run, before>> /\ Touched \subseteq Touched' /\ BackedUp \subseteq BackedUp'
  /\ \A p \in Path : Writes1(p)

LEMMA ProgressIs ==
  ASSUME UNCHANGED <<run, before>>, NEW t, Does(t), t \in Touched' \/ Busy = {},
         \A p \in Path : Writes1(p)
  PROVE  Progress
<1>1. Aim' = Aim
  BY AimStays
<1>2. /\ SetNow \subseteq SetNow' /\ Taken \subseteq Taken' /\ BackedUp \subseteq BackedUp'
      /\ Busy \subseteq Busy' \cup {t}
  BY <1>1 DEF SetNow, Taken, Unlinks, BackedUp, Does
<1> QED BY <1>2 DEF Progress, Touched

LEMMA UnlinkWrites ==
  ASSUME RunBasis, NEW p, PreRemoveUnlink(p)
  PROVE  Progress
<1>1. /\ phase = "stages" /\ mid = NoMid /\ p \in plan.unlink /\ UNCHANGED <<mid, run, before>>
      /\ fs' = Put(fs, p, Absent) /\ plan' = [plan EXCEPT !.unlink = @ \ {p}]
      /\ RecordedLink(fs, run.base, p)
  BY DEF PreRemoveUnlink, In, Writes, ghostVars
<1>2. plan \in Plan /\ fs \in Tree /\ IsManifest(run.base) /\ Fits /\ AimFits /\ NoMid.step = "none"
  BY <1>1, StageFacts, StageBasis DEF RunBasis
<1>3. /\ plan'.unlink = plan.unlink \ {p} /\ plan'.rmdir = plan.rmdir /\ plan'.backup = plan.backup
      /\ plan'.new = plan.new /\ plan'.copies = plan.copies /\ plan'.remove = plan.remove
      /\ Relinks' = Relinks /\ Busy' = Busy /\ Busy = {} /\ Aim' = Aim
  BY <1>1, <1>2, AimStays DEF Plan, Relinks, Busy
<1>4. p \in Touched'
  BY <1>1, <1>2, <1>3 DEF Touched, Taken, Unlinks, Fits, Shrinks
<1>5. ~ForeignLink(fs, p)
  BY <1>1, <1>2, ManifestTypes, DataAssumption DEF RecordedLink, ForeignLink, LinkTo
<1>6. \A r \in Path : r # p => fs'[r] = fs[r]
  BY <1>1, <1>2 DEF Put, Tree
<1>7. \A r \in Path : Writes1(r)
  BY <1>4, <1>5, <1>6 DEF Writes1, At
<1>8. Does(p)
  BY <1>3 DEF Does
<1> QED BY <1>1, <1>4, <1>7, <1>8, ProgressIs

LEMMA RmdirWrites ==
  ASSUME RunBasis, NEW p, PreRemoveRmdir(p)
  PROVE  Progress
<1>1. /\ phase = "stages" /\ mid = NoMid /\ p \in plan.rmdir /\ UNCHANGED <<mid, run, before>>
      /\ fs' \in {fs, Put(fs, p, Absent)} /\ plan' = [plan EXCEPT !.rmdir = @ \ {p}]
  BY DEF PreRemoveRmdir, In, Writes, ghostVars
<1>2. plan \in Plan /\ fs \in Tree /\ IsManifest(run.base) /\ IsManifest(run.next) /\ Fits /\ AimFits /\ NoMid.step = "none"
  BY <1>1, StageFacts, StageBasis DEF RunBasis
<1>3. /\ plan'.unlink = plan.unlink /\ plan'.rmdir = plan.rmdir \ {p} /\ plan'.backup = plan.backup
      /\ plan'.new = plan.new /\ plan'.copies = plan.copies /\ plan'.remove = plan.remove
      /\ Relinks' = Relinks /\ Busy' = Busy /\ Busy = {} /\ Aim' = Aim
  BY <1>1, <1>2, AimStays DEF Plan, Relinks, Busy
<1>4. fs[p].kind = "dir"
  BY <1>1, <1>2, AimApart DEF Fits, Shrinks, TreeFits
<1>5. \A r \in Path : fs'[r] = fs[r] \/ (r = p /\ fs'[r] = Absent)
  BY <1>1, <1>2 DEF Put, Tree
<1>6. \A r \in Path : Writes1(r)
  BY <1>4, <1>5 DEF Writes1
<1>7. Does(p)
  BY <1>3 DEF Does
<1> QED BY <1>1, <1>3, <1>6, <1>7, ProgressIs

LEMMA BackUpWrites ==
  ASSUME NamesApart, RunBasis, NEW b, BackUp(b)
  PROVE  Progress
<1>1. /\ phase = "stages" /\ mid = NoMid /\ b \in plan.backup /\ UNCHANGED <<mid, run, before>>
      /\ fs' = Rename(fs, b, BackupOf[b]) /\ plan' = [plan EXCEPT !.backup = @ \ {b}]
      /\ ~Exists(fs, BackupOf[b])
  BY DEF BackUp, In, Writes, ghostVars
<1>2. plan \in Plan /\ fs \in Tree /\ Fits /\ AimFits /\ NoMid.step = "none" /\ Closed(fs)
  BY <1>1, StageFacts, StageBasis DEF RunBasis, TreeInv
<1>3. /\ plan'.unlink = plan.unlink /\ plan'.rmdir = plan.rmdir /\ plan'.backup = plan.backup \ {b}
      /\ plan'.new = plan.new /\ plan'.copies = plan.copies /\ plan'.remove = plan.remove
      /\ Relinks' = Relinks /\ Busy' = Busy /\ Busy = {} /\ Aim' = Aim
  BY <1>1, <1>2, AimStays DEF Plan, Relinks, Busy
<1>4. b \in BackedUp' /\ b \in Target
  BY <1>1, <1>2, <1>3 DEF BackedUp, Fits, Shrinks, Plan
<1> DEFINE q == BackupOf[b]
<1>5. Movable(b, q) /\ q \in Path
  BY <1>4, TargetsMove DEF Movable
<1>6. \A r \in Path : fs'[r] = IF r \in At(q) THEN fs[Rebase(b, q, r)]
                               ELSE IF r \in At(b) THEN Absent ELSE fs[r]
  BY <1>1, <1>5, RenameIs
<1>7. ASSUME NEW r \in Path PROVE Writes1(r)
  <2>1. CASE r \in At(q)
    <3>1. ~Exists(fs, r)
      BY <1>1, <1>2, <1>5, <2>1, NothingUnder
    <3> QED BY <1>4, <2>1, <3>1 DEF Writes1
  <2>2. CASE r \in At(b)
    <3>1. fs'[Rebase(q, b, r)] = fs[r]
      BY <1>1, <1>5, <2>2, RenameMoves
    <3> QED BY <1>4, <2>2, <3>1 DEF Writes1
  <2>3. CASE r \notin At(q) /\ r \notin At(b)
    BY <1>6, <2>3 DEF Writes1
  <2> QED BY <2>1, <2>2, <2>3
<1>8. Does(b)
  BY <1>3 DEF Does
<1> QED BY <1>1, <1>3, <1>7, <1>8, ProgressIs

LEMMA PlaceNewWrites ==
  ASSUME RunBasis, NEW t, PlaceNew(t)
  PROVE  Progress
<1>1. /\ phase = "stages" /\ mid = NoMid /\ t \in plan.new /\ UNCHANGED <<mid, run, before>>
      /\ fs' = Put(Mkdirs(fs, t), t, LinkTo(run.next[t].src)) /\ plan' = [plan EXCEPT !.new = @ \ {t}]
      /\ ~Exists(fs, t)
  BY DEF PlaceNew, In, Writes, ghostVars
<1>2. plan \in Plan /\ fs \in Tree /\ Fits /\ AimFits /\ NoMid.step = "none"
  BY <1>1, StageFacts, StageBasis DEF RunBasis
<1>3. plan.new \cap Relinks = {}
  BY <1>1, PlaceStage DEF RunBasis
<1>4. /\ plan'.unlink = plan.unlink /\ plan'.rmdir = plan.rmdir /\ plan'.backup = plan.backup
      /\ plan'.new = plan.new \ {t} /\ plan'.copies = plan.copies /\ plan'.remove = plan.remove
      /\ Relinks' = Relinks /\ Busy' = Busy /\ Busy = {} /\ Aim' = Aim
  BY <1>1, <1>2, AimStays DEF Plan, Relinks, Busy
<1>5. t \in Touched'
  BY <1>1, <1>2, <1>4 DEF Touched, SetNow, Fits, Shrinks
<1>6. \A r \in Path : r # t => fs'[r] = fs[r] \/ (fs'[r] = Dir /\ ~Exists(fs, r))
  BY <1>1 DEF Put, Mkdirs
<1>7. ASSUME NEW r \in Path PROVE Writes1(r)
  <2>1. CASE r = t
    BY <1>1, <1>5, <2>1 DEF Writes1, At, ForeignLink, Exists, IsLink
  <2>2. CASE r # t
    BY <1>6, <2>2 DEF Writes1, Exists
  <2> QED BY <2>1, <2>2
<1>8. Does(t)
  BY <1>4 DEF Does
<1> QED BY <1>1, <1>5, <1>7, <1>8, ProgressIs

LEMMA RelinkWrites ==
  ASSUME RunBasis, NEW t \in Relinks, RelinkUnlink(t) \/ RelinkSymlink(t)
  PROVE  Progress
<1>1. /\ phase = "stages" /\ UNCHANGED <<run, before>>
      /\ \/ mid = NoMid /\ mid' = Mid("relink", t) /\ plan' = plan /\ fs' = Put(fs, t, Absent)
         \/ /\ mid = Mid("relink", t) /\ mid' = NoMid /\ fs' = Put(fs, t, LinkTo(run.next[t].src))
            /\ plan' = [plan EXCEPT !.replace = @ \ {t}, !.foreign = @ \ {t}]
  BY DEF RelinkUnlink, RelinkSymlink, In, Writes, ghostVars
<1>2. plan \in Plan /\ fs \in Tree /\ IsManifest(run.next) /\ IsManifest(run.base) /\ Fits /\ AimFits /\ NoMid.step = "none"
  BY <1>1, StageFacts, StageBasis DEF RunBasis
<1>3. Mid("relink", t).step = "relink" /\ Mid("relink", t).path = t
  BY DEF Mid
<1>4. /\ plan'.unlink = plan.unlink /\ plan'.rmdir = plan.rmdir /\ plan'.backup = plan.backup
      /\ plan'.new = plan.new /\ plan'.copies = plan.copies /\ plan'.remove = plan.remove
      /\ Relinks' = (IF mid = NoMid THEN Relinks ELSE Relinks \ {t})
      /\ Busy' = (IF mid = NoMid THEN {t} ELSE {}) /\ Busy \subseteq {t} /\ Aim' = Aim
  BY <1>1, <1>2, <1>3, AimStays DEF Plan, Relinks, Busy
<1>5. t \in Touched' /\ t \in Symlinks(run.next)
  BY <1>2, <1>4, AimApart DEF Touched, SetNow, Fits, Shrinks
<1>6. \A r \in Path : r # t => fs'[r] = fs[r]
  BY <1>1, <1>2 DEF Put, Tree
<1>7. \A r \in Path : Writes1(r)
  BY <1>5, <1>6 DEF Writes1, At
<1>8. Does(t)
  BY <1>4 DEF Does
<1> QED BY <1>1, <1>5, <1>7, <1>8, ProgressIs

LEMMA AsideWrites ==
  ASSUME NamesApart, RunBasis, NEW t, RecopyAside(t)
  PROVE  Progress
<1>1. /\ phase = "stages" /\ mid = NoMid /\ t \in plan.copies /\ UNCHANGED <<run, before, plan>>
      /\ fs' = Rename(fs, t, AsideOf[t]) /\ mid' = Mid("aside", t) /\ run.recopy
  BY DEF RecopyAside, In, Writes, ghostVars
<1>2. /\ plan \in Plan /\ IsManifest(run.next) /\ IsManifest(run.base) /\ Fits /\ AimFits
      /\ NoMid.step = "none" /\ mid'.step = "aside" /\ mid'.path = t
  BY <1>1, StageFacts, StageBasis DEF RunBasis
<1>3. Relinks' = Relinks /\ Busy = {} /\ Busy' = {t} /\ Aim' = Aim
  BY <1>1, <1>2, AimStays DEF Relinks, Busy
<1>4. t \in Touched' /\ t \in Copies(run.next) /\ t \in Target
  BY <1>1, <1>2, <1>3, AimApart DEF Touched, Fits, Shrinks, Plan
<1>5. \A r \in Path : fs'[r] = fs[r] \/ r \in At(AsideOf[t]) \/ r \in At(t)
  BY <1>1, <1>4, TargetsMove, RenameIs
<1>6. \A r \in Path : Writes1(r)
  BY <1>1, <1>4, <1>5 DEF Writes1, AsidePath
<1>7. Does(t)
  BY <1>1, <1>3 DEF Does
<1> QED BY <1>1, <1>4, <1>6, <1>7, ProgressIs

LEMMA CopyStartWrites ==
  ASSUME RunBasis, NEW t, CopyStart(t)
  PROVE  Progress
<1>1. /\ phase = "stages" /\ t \in plan.copies /\ UNCHANGED <<run, before, plan>>
      /\ fs' = BeginCopy(Mkdirs(fs, t), run.next[t].src, t) /\ mid' = Mid("copy", t)
      /\ mid = NoMid \/ mid = Mid("aside", t)
  BY DEF CopyStart, In, Writes, ghostVars
<1>2. NoMid.step = "none" /\ \A s : Mid(s, t).step = s /\ Mid(s, t).path = t
  BY DEF NoMid, Mid
<1>3. Relinks' = Relinks /\ Busy \subseteq {t} /\ Busy' = {t} /\ Aim' = Aim
  BY <1>1, <1>2, AimStays DEF Relinks, Busy
<1>4. t \in Touched'
  BY <1>3 DEF Touched
<1>5. ~Exists(fs, t)
  BY CopyFree DEF RunBasis
<1>6. \A r \in Path : r # t => fs'[r] = fs[r] \/ (fs'[r] = Dir /\ ~Exists(fs, r))
  BY <1>1 DEF BeginCopy, Put, Mkdirs
<1>7. ASSUME NEW r \in Path PROVE Writes1(r)
  <2>1. CASE r = t
    BY <1>4, <1>5, <2>1 DEF Writes1, At, ForeignLink, Exists, IsLink
  <2>2. CASE r # t
    BY <1>6, <2>2 DEF Writes1, Exists
  <2> QED BY <2>1, <2>2
<1>8. Does(t)
  BY <1>1, <1>3 DEF Does
<1> QED BY <1>1, <1>4, <1>7, <1>8, ProgressIs

LEMMA CopyFinishWrites ==
  ASSUME RunBasis, NEW t \in plan.copies, CopyFinish(t)
  PROVE  Progress
<1>1. /\ phase = "stages" /\ UNCHANGED <<run, before>> /\ mid = Mid("copy", t) /\ mid' = NoMid
      /\ plan' = [plan EXCEPT !.copies = @ \ {t}]
      /\ Copying(t) => fs' = EndCopy(fs, run.next[t].src, t)
  BY DEF CopyFinish, Writes, ghostVars
<1>2. /\ plan \in Plan /\ fs \in Tree /\ Fits /\ AimFits /\ NoMid.step = "none"
      /\ mid.step = "copy" /\ mid.path = t
  BY <1>1, StageFacts, StageBasis DEF RunBasis
<1>3. /\ plan'.unlink = plan.unlink /\ plan'.rmdir = plan.rmdir /\ plan'.backup = plan.backup
      /\ plan'.new = plan.new /\ plan'.copies = plan.copies \ {t} /\ plan'.remove = plan.remove
      /\ Relinks' = Relinks /\ Busy = {t} /\ Busy' = {} /\ Aim' = Aim
  BY <1>1, <1>2, AimStays DEF Plan, Relinks, Busy
<1>4. t \in Touched' /\ t \in Path
  BY <1>2, <1>3, TargetAssumption DEF Touched, SetNow, Fits, Shrinks, Plan
<1>5. Copying(t) /\ \A r \in Below[t] : ~Exists(fs, r)
  BY <1>2 DEF Fits, Midway
<1>6. ASSUME NEW r \in Path PROVE Writes1(r)
  <2>1. CASE run.next[t].src \in DirSrc
    <3>1. fs' = Put(fs, LeafOf(t), FileOf(run.next[t].src))
      BY <1>1, <1>5, <2>1 DEF EndCopy
    <3>2. CASE r = LeafOf(t)
      <4>1. r \in Below[t] /\ r \in At(t) /\ ~Exists(fs, r)
        BY <1>4, <1>5, <3>2, LeafIs DEF At
      <4> QED BY <1>4, <4>1 DEF Writes1, ForeignLink, Exists, IsLink
    <3>3. CASE r # LeafOf(t)
      BY <1>2, <3>1, <3>3 DEF Writes1, Put, Tree
    <3> QED BY <3>2, <3>3
  <2>2. CASE run.next[t].src \notin DirSrc
    <3>1. fs' = Put(fs, t, FileOf(run.next[t].src)) /\ fs[t].kind = "file"
      BY <1>1, <1>5, <2>2 DEF EndCopy, Copying, FileOf
    <3>2. CASE r = t
      BY <1>4, <3>1, <3>2 DEF Writes1, At, ForeignLink, IsLink
    <3>3. CASE r # t
      BY <1>2, <3>1, <3>3 DEF Writes1, Put, Tree
    <3> QED BY <3>2, <3>3
  <2> QED BY <2>1, <2>2
<1>7. Does(t)
  BY <1>3 DEF Does
<1> QED BY <1>1, <1>4, <1>6, <1>7, ProgressIs

LEMMA RemoveWrites ==
  ASSUME RunBasis, phase = "stages", NEW t, RemoveStale(t)
  PROVE  Progress
<1>1. /\ mid = NoMid /\ t \in plan.remove /\ UNCHANGED <<run, before>> /\ In("removeStale")
      /\ \/ StillStale(t) /\ fs' = Put(fs, t, Absent) /\ mid' = Mid("prune", t)
         \/ fs' = fs /\ mid' = mid
      /\ plan' = [plan EXCEPT !.remove = @ \ {t}]
  BY DEF RemoveStale, InStale, In, Writes, ghostVars
<1>2. /\ plan \in Plan /\ fs \in Tree /\ Fits /\ AimFits /\ IsManifest(run.base) /\ NoMid.step = "none"
      /\ Mid("prune", t).step = "prune"
  BY StageFacts, StageBasis DEF RunBasis
<1>3. /\ plan'.unlink = plan.unlink /\ plan'.rmdir = plan.rmdir /\ plan'.backup = plan.backup
      /\ plan'.new = plan.new /\ plan'.copies = plan.copies /\ plan'.remove = plan.remove \ {t}
      /\ Relinks' = Relinks /\ Busy = {} /\ Busy' = {} /\ Aim' = Aim
  BY <1>1, <1>2, AimStays DEF Plan, Relinks, Busy
<1>4. t \in Touched'
  BY <1>1, <1>2, <1>3 DEF Touched, Taken, Fits, Shrinks
<1>5. StillStale(t) => ~ForeignLink(fs, t)
  BY <1>2, ManifestTypes, DataAssumption DEF StillStale, RecordedLink, ForeignLink, LinkTo
<1>6. \A r \in Path : fs'[r] = fs[r] \/ (r = t /\ ~ForeignLink(fs, t))
  BY <1>1, <1>2, <1>5 DEF Put, Tree
<1>7. \A r \in Path : Writes1(r)
  BY <1>4, <1>6 DEF Writes1, At
<1>8. Does(t)
  BY <1>3 DEF Does
<1> QED BY <1>1, <1>4, <1>7, <1>8, ProgressIs

LEMMA PruneWrites ==
  ASSUME RunBasis, phase = "stages", PruneAncestor
  PROVE  Progress
<1> DEFINE up == Front(mid.path)
<1>1. /\ UNCHANGED <<run, before, plan>> /\ mid.step = "prune"
      /\ mid' = NoMid \/ mid' = Mid("prune", up)
      /\ fs' = fs \/ (up \in Path /\ fs' = Put(fs, up, Absent))
  BY DEF PruneAncestor, Writes, ghostVars
<1>2. fs \in Tree /\ Fits /\ NoMid.step = "none" /\ Mid("prune", up).step = "prune" /\ mid.path \in Path
  <2>1. fs \in Tree /\ Fits /\ NoMid.step = "none" /\ Mid("prune", up).step = "prune"
    BY StageFacts, StageBasis DEF RunBasis
  <2>2. mid.path \in Path
    BY <1>1, PrunedPath DEF RunBasis
  <2> QED BY <2>1, <2>2
<1>3. Relinks' = Relinks /\ Busy = {} /\ Busy' = {} /\ Aim' = Aim
  BY <1>1, <1>2, AimStays DEF Relinks, Busy
<1>4. up \in Path => fs[up].kind = "dir"
  <2>1. InRealDir(fs, mid.path)
    BY <1>1, <1>2 DEF Fits, Midway
  <2> QED BY <1>2, <2>1, FrontAbove DEF InRealDir, IsDir
<1> HIDE DEF up
<1>5. \A r \in Path : fs'[r] = fs[r] \/ (r = up /\ fs'[r] = Absent)
  BY <1>1, <1>2 DEF Put, Tree
<1>6. \A r \in Path : Writes1(r)
  BY <1>4, <1>5 DEF Writes1
<1>7. Does(up)
  BY <1>1, <1>3 DEF Does
<1> QED BY <1>1, <1>3, <1>6, <1>7, ProgressIs

LEMMA StageProgress ==
  ASSUME NamesApart, RunBasis, StageStep, phase = "stages", phase' = "stages"
  PROVE  Progress
<1>1. CASE \E p \in plan.unlink : PreRemoveUnlink(p)
  BY <1>1, UnlinkWrites
<1>2. CASE \E p \in plan.rmdir : PreRemoveRmdir(p)
  BY <1>2, RmdirWrites
<1>3. CASE \E t \in plan.backup : BackUp(t)
  BY <1>3, BackUpWrites
<1>4. CASE \E t \in plan.new : PlaceNew(t)
  BY <1>4, PlaceNewWrites
<1>5. CASE \E t \in Relinks : RelinkUnlink(t) \/ RelinkSymlink(t)
  BY <1>5, RelinkWrites
<1>6. CASE \E t \in plan.copies : RecopyAside(t)
  BY <1>6, AsideWrites
<1>7. CASE \E t \in plan.copies : CopyStart(t)
  BY <1>7, CopyStartWrites
<1>8. CASE \E t \in plan.copies : CopyFinish(t)
  BY <1>8, CopyFinishWrites
<1>9. CASE \E t \in plan.copies : CopyStuck(t) \/ ResetCopy(t)
  BY <1>9 DEF CopyStuck, ResetCopy
<1>10. CASE \E t \in plan.remove : RemoveStale(t)
  BY <1>10, RemoveWrites
<1>11. CASE PruneAncestor
  BY <1>11, PruneWrites
<1>12. CASE \E p \in Path : StageStuck(p)
  BY <1>12 DEF StageStuck, Fails
<1> QED BY <1>1, <1>2, <1>3, <1>4, <1>5, <1>6, <1>7, <1>8, <1>9, <1>10, <1>11, <1>12 DEF StageStep

\* Whatever a run under way has just done.
LEMMA NextKinds ==
  ASSUME NamesApart, EntriesApart, RunBasis, RunBasis', [Next]_vars, UnderWay'
  PROVE  \/ phase = "idle" /\ Start /\ fs' = before' /\ Touched' = {}
         \/ phase = "stages" /\ phase' = "stages" /\ StageStep /\ Progress
         \/ UnderWay /\ UNCHANGED <<fs, run, before, plan>> /\ Touched' = Touched /\ BackedUp' = BackedUp
<1>1. CASE Start
  <2>1. phase' = "stages" /\ phase = "idle"
    BY <1>1, StartIs DEF StartFacts, UnderWay
  <2> QED BY <1>1, <2>1, StartRun DEF RunBasis
<1>2. CASE StageStep
  <2>1. phase = "stages" /\ phase' = "stages"
    BY <1>2, StageStarted, StagePhase DEF UnderWay
  <2> QED BY <1>2, <2>1, StageProgress
<1>3. ASSUME UnderWay, UNCHANGED <<fs, run, before, plan>>, mid' = mid \/ (mid.step = "prune" /\ mid' = NoMid)
      PROVE  Touched' = Touched /\ BackedUp' = BackedUp
  <2>1. Aim' = Aim /\ Relinks' = Relinks
    BY <1>3, AimStays DEF Relinks
  <2>2. Busy' = Busy
    <3>1. CASE mid' = mid
      BY <3>1 DEF Busy
    <3>2. CASE mid.step = "prune" /\ mid' = NoMid
      BY <3>2 DEF Busy, NoMid
    <3> QED BY <1>3, <3>1, <3>2
  <2> QED BY <1>3, <2>1, <2>2 DEF Touched, SetNow, Taken, Unlinks, BackedUp
<1>4. CASE Finish
  <2>1. WriteRecord \/ Commit
    BY <1>4 DEF Finish, DiscardJournal, UndoStep, Unwound, RecordAfterReset, End, UnderWay
  <2>2. UNCHANGED <<fs, run, before, plan, mid>> /\ UnderWay
    BY <2>1 DEF WriteRecord, Commit, In, UnderWay, ghostVars
  <2> QED BY <1>3, <2>2
<1>5. CASE Failure
  <2>1. PruneFault
    BY <1>5 DEF Failure, StageFault, Fails, CommitFault, ResetFault, ResetRecordFault, End, UnderWay
  <2>2. UNCHANGED <<fs, run, before, plan, phase>> /\ mid.step = "prune" /\ mid' = NoMid
    BY <2>1 DEF PruneFault
  <2> QED BY <1>3, <2>2 DEF UnderWay
<1>6. CASE Crash
  BY <1>6 DEF Crash, End, UnderWay
<1>7. CASE UserStep
  <2>1. phase = "idle" /\ phase' = "idle"
    BY <1>7 DEF EntriesApart, UserStep, UserWrite, UserMkdir, UserRelink, UserDelete, UserMay, Edited
  <2> QED BY <2>1 DEF UnderWay
<1>8. CASE UNCHANGED vars
  BY <1>3, <1>8 DEF vars, engineVars, ghostVars, UnderWay
<1>9. CASE AnswerReset
  BY <1>9 DEF AnswerReset, Refuse, End, UnderWay
<1> QED BY <1>1, <1>2, <1>4, <1>5, <1>6, <1>7, <1>8, <1>9 DEF Next, RunStep

-----------------------------------------------------------------------------
(* Links that are not layat's.                                              *)

ForeignKept(p) ==
  \/ fs[p] = before[p]
  \/ p \in Symlinks(run.next)
  \/ run.recopy /\ p \in AsidePath \cup UNION {At(t) : t \in Copies(run.next)}
  \/ \E b \in BackedUp : p \in At(b) /\ fs[Rebase(BackupOf[b], b, p)] = before[p]

ForeignInv == UnderWay => \A p \in Path : ForeignLink(before, p) => ForeignKept(p)

\* A backup lies in no target of the manifest, and in no aside.
LEMMA BackupApart ==
  ASSUME NamesApart, NamesDiffer, IInv, RunInv, phase = "stages", NEW b \in DOMAIN run.next,
         NEW r \in At(BackupOf[b])
  PROVE  r \in Path /\ r \notin Target /\ r \notin AsidePath /\ \A t \in DOMAIN run.next : r \notin At(t)
<1>1. /\ DOMAIN run.next \subseteq Target /\ Target \subseteq Path
      /\ \A s, t \in DOMAIN run.next : s \notin Below[t] /\ t \notin Above[s]
  BY StageBasis, StageFacts
<1>2. b \in Target /\ BackupOf[b] \in Path /\ BackupOf[b] \notin Target /\ r \in Path
      /\ Above[BackupOf[b]] = Above[b] /\ At(BackupOf[b]) \cap Target = {}
  BY <1>1, TargetAssumption, AboveBelow DEF NamesApart
<1>3. \A t \in Target : r \notin At(AsideOf[t])
  BY <1>2, ScratchApart DEF NamesDiffer
<1>4. ASSUME NEW t \in DOMAIN run.next, r \in At(t) PROVE FALSE
  <2>1. BackupOf[b] \in At(t) \/ t \in At(BackupOf[b])
    BY <1>1, <1>2, <1>4, AtOrder
  <2>2. t \in Above[b]
    BY <1>1, <1>2, <2>1, AtOrder
  <2> QED BY <1>1, <1>4, <2>2
<1> QED BY <1>2, <1>3, <1>4 DEF AsidePath

LEMMA ForeignStep ==
  ASSUME NamesApart, NamesDiffer, RunBasis, ForeignInv, phase = "stages", Progress
  PROVE  \A p \in Path : ForeignLink(before, p) => ForeignKept(p)'
<1> SUFFICES ASSUME NEW p \in Path, ForeignLink(before, p) PROVE ForeignKept(p)'
  OBVIOUS
<1>1. /\ AimFits /\ IsManifest(run.next) /\ IsManifest(run.base) /\ Target \subseteq Path
      /\ Aim' = Aim /\ run' = run /\ before' = before /\ BackedUp \subseteq BackedUp'
      /\ Symlinks(run.next) \subseteq Target /\ Copies(run.next) \subseteq DOMAIN run.next
  BY StageBasis, StageFacts, AimStays, ManifestTypes DEF RunBasis, Progress
<1>2. \A b \in BackedUp' : b \in DOMAIN run.next /\ b \in Target
  BY <1>1, AimApart, ManifestTypes DEF BackedUp
<1>3. before[p].kind = "link"
  BY DEF ForeignLink, IsLink
<1>4. CASE fs[p] = before[p]
  <2>1. ForeignLink(fs, p) /\ fs[p].kind = "link"
    BY <1>3, <1>4 DEF ForeignLink, IsLink
  <2>2. Writes1(p)
    BY DEF Progress
  <2> QED BY <1>1, <1>4, <2>1, <2>2 DEF Writes1, ForeignKept, Exists
<1>5. ASSUME NEW b \in BackedUp, p \in At(b), fs[Rebase(BackupOf[b], b, p)] = before[p] PROVE ForeignKept(p)'
  <2> DEFINE r == Rebase(BackupOf[b], b, p)
  <2>1. b \in DOMAIN run.next /\ b \in Target /\ b \in BackedUp'
    BY <1>1, <1>2
  <2>2. Movable(b, BackupOf[b])
    BY <2>1, TargetsMove
  <2>3. r \in At(BackupOf[b]) /\ r \in Path
    BY <1>5, <2>2, RebaseAt, AboveBelow DEF Movable
  <2> HIDE DEF r
  <2>4. /\ r \notin Target /\ r \notin AsidePath /\ \A t \in DOMAIN run.next : r \notin At(t)
    BY <2>1, <2>3, BackupApart DEF RunBasis
  <2>5. Writes1(r)
    BY <2>3 DEF Progress
  <2>6. fs[r] = before[p] /\ ForeignLink(fs, r) /\ fs[r].kind = "link"
    BY <1>3, <1>5 DEF r, ForeignLink, IsLink
  <2>7. fs'[r] = fs[r]
    BY <1>1, <1>2, <2>4, <2>5, <2>6 DEF Writes1, Exists
  <2> QED BY <1>1, <1>5, <2>1, <2>6, <2>7 DEF ForeignKept, r
<1>6. ForeignKept(p)
  BY DEF ForeignInv, UnderWay
<1> QED BY <1>1, <1>4, <1>5, <1>6 DEF ForeignKept

LEMMA NextForeign ==
  ASSUME NamesApart, NamesDiffer, EntriesApart, RunBasis, RunBasis', ForeignInv, [Next]_vars
  PROVE  ForeignInv'
<1> SUFFICES ASSUME UnderWay' PROVE \A p \in Path : ForeignLink(before', p) => ForeignKept(p)'
  BY DEF ForeignInv, ForeignLink, IsLink
<1>1. CASE fs' = before'
  BY <1>1 DEF ForeignKept
<1>2. CASE phase = "stages" /\ Progress
  BY <1>2, ForeignStep DEF Progress
<1>3. CASE UnderWay /\ UNCHANGED <<fs, run, before>> /\ BackedUp' = BackedUp
  BY <1>3 DEF ForeignInv, ForeignKept
<1> QED BY <1>1, <1>2, <1>3, NextKinds

\* A symlink that is not layat's is only ever replaced by an entry of the
\* manifest that is a link itself, moved into a backup, or given up to --recopy:
\* no run of apply or rollback that reaches its record has taken one away
\* otherwise, pruning and the removal of stale links included (place.go,
\* backup.go, copy.go, stale.go).
THEOREM ForeignLinksStay ==
  ASSUME NamesApart, NamesDiffer, EntriesApart
  PROVE  Spec => []ForeignLinksKept
<1>1. Init => ForeignInv
  BY DEF Init, ForeignInv, UnderWay
<1>2. RunBasis /\ ForeignInv => ForeignLinksKept
  <2> SUFFICES ASSUME RunBasis, ForeignInv, In("record"), NEW p \in Path,
                      IsLink(before, p), before[p].val \in Foreign, fs[p] # before[p]
               PROVE  \/ p \in Symlinks(run.next)
                      \/ run.recopy /\ p \in AsidePath \cup UNION {At(t) : t \in Copies(run.next)}
                      \/ run.backup /\ \E q \in Path : q # p /\ fs[q] = before[p]
    BY DEF ForeignLinksKept
  <2>1. AimFits /\ UnderWay /\ IsManifest(run.next) /\ IsManifest(run.base)
    BY AtRecord, StageFacts DEF RunBasis
  <2>2. ForeignKept(p)
    BY <2>1 DEF ForeignInv, ForeignLink
  <2>3. ASSUME NEW b \in BackedUp, p \in At(b), fs[Rebase(BackupOf[b], b, p)] = before[p]
        PROVE  run.backup /\ \E q \in Path : q # p /\ fs[q] = before[p]
    <3>1. b \in Aim.backup /\ b \in Target /\ run.backup
      BY <2>1, AimApart, ManifestTypes DEF BackedUp, AimFits
    <3>2. Movable(b, BackupOf[b]) /\ At(b) \cap At(BackupOf[b]) = {}
      BY <3>1, TargetsMove, MovableApart
    <3>3. Rebase(BackupOf[b], b, p) \in At(BackupOf[b]) /\ Rebase(BackupOf[b], b, p) \in Path
      BY <2>3, <3>2, RebaseAt DEF Movable
    <3> QED BY <2>3, <3>1, <3>2, <3>3
  <2> QED BY <2>2, <2>3 DEF ForeignKept
<1> QED BY <1>1, <1>2, BasisHolds, NextForeign, PTL DEF Spec

-----------------------------------------------------------------------------
(* Where nothing or a directory is, a tree holds one node.                  *)

TidyNode(n) == (n.kind = "absent" => n = Absent) /\ (n.kind = "dir" => n = Dir)
TidyTree(f) == \A p \in Path : TidyNode(f[p])

LEMMA TidyNodes ==
  TidyNode(Absent) /\ TidyNode(Dir) /\ \A d : TidyNode(LinkTo(d)) /\ TidyNode(FileOf(d))
BY DEF TidyNode, Absent, Dir, LinkTo, FileOf

LEMMA TidyOps ==
  ASSUME NEW f \in Tree, TidyTree(f), NEW p
  PROVE  /\ \A n : TidyNode(n) => TidyTree(Put(f, p, n))
         /\ TidyTree(Mkdirs(f, p)) /\ TidyTree(Clear(f, p)) /\ \A q : TidyTree(Rename(f, p, q))
<1>1. TidyNode(Absent) /\ TidyNode(Dir) /\ \A r \in Path : TidyNode(f[r])
  BY TidyNodes DEF TidyTree
<1> HIDE DEF TidyNode
<1>2. ASSUME NEW n, TidyNode(n) PROVE TidyTree(Put(f, p, n))
  BY <1>1, <1>2 DEF TidyTree, Put, Tree
<1>3. TidyTree(Mkdirs(f, p)) /\ TidyTree(Clear(f, p))
  BY <1>1 DEF TidyTree, Mkdirs, Clear
<1>4. ASSUME NEW q PROVE TidyTree(Rename(f, p, q))
  BY <1>1 DEF TidyTree, Rename
<1> QED BY <1>2, <1>3, <1>4

LEMMA TidyUndo ==
  ASSUME NEW f \in Tree, TidyTree(f), NEW op \in UndoOp
  PROVE  TidyTree(Undo(f, op))
<1> DEFINE p == op.path
           removed == IF CanRemove(f, p) THEN Put(f, p, Absent) ELSE f
<1>1. removed \in Tree /\ TidyTree(removed)
  BY TidyOps, TidyNodes, PutTree, NodeTypes
<1>2. \A q : TidyTree(BringBack(f, q, p))
  <2> TAKE q
  <2>1. Clear(f, p) \in Tree /\ TidyTree(Clear(f, p))
    BY TidyOps, ClearTree
  <2> QED BY <2>1, TidyOps DEF BringBack
<1> HIDE DEF removed
<1>3. CASE op.kind = "unlinkNew"
  BY <1>1, <1>3 DEF Undo, removed
<1>4. CASE op.kind = "relinkOld"
  <2>1. TidyTree(Put(removed, p, LinkTo(op.dest)))
    BY <1>1, TidyOps, TidyNodes
  <2> QED BY <1>1, <1>4, <2>1 DEF Undo, removed
<1>5. CASE op.kind = "removeCopy"
  BY <1>5, TidyOps DEF Undo
<1>6. CASE op.kind = "restoreRename"
  BY <1>2, <1>6 DEF Undo
<1>7. CASE op.kind = "restoreBackup"
  BY <1>2, <1>7 DEF Undo
<1>8. CASE op.kind = "mkdir"
  BY <1>8, TidyOps, TidyNodes DEF Undo
<1> QED BY <1>3, <1>4, <1>5, <1>6, <1>7, <1>8 DEF UndoOp, UndoKind

TidyInv == TidyTree(fs) /\ TidyTree(before)

LEMMA StageTidy ==
  ASSUME IInv, TidyTree(fs), StageStep
  PROVE  TidyTree(fs')
<1>1. fs \in Tree
  BY StageFacts
<1>2. ASSUME NEW p PROVE TidyTree(Put(fs, p, Absent)) /\ \A d : TidyTree(Put(fs, p, LinkTo(d))) /\ TidyTree(Put(fs, p, FileOf(d)))
  BY <1>1, TidyOps, TidyNodes
<1>3. ASSUME NEW p
      PROVE  /\ Mkdirs(fs, p) \in Tree /\ TidyTree(Mkdirs(fs, p))
             /\ \A q, d : TidyTree(Put(Mkdirs(fs, p), q, LinkTo(d)))
             /\ \A q, s : TidyTree(BeginCopy(Mkdirs(fs, p), s, q))
  <2>1. Mkdirs(fs, p) \in Tree /\ TidyTree(Mkdirs(fs, p))
    BY <1>1, TidyOps, MkdirsTree
  <2>2. \A q, d : TidyTree(Put(Mkdirs(fs, p), q, LinkTo(d))) /\ TidyTree(Put(Mkdirs(fs, p), q, FileOf(d)))
                   /\ TidyTree(Put(Mkdirs(fs, p), q, Dir))
    BY <2>1, TidyOps, TidyNodes
  <2> QED BY <2>1, <2>2 DEF BeginCopy
<1>4. ASSUME NEW p \in Path, PreRemoveUnlink(p) \/ PreRemoveRmdir(p) PROVE TidyTree(fs')
  BY <1>2, <1>4 DEF PreRemoveUnlink, PreRemoveRmdir
<1>5. ASSUME NEW t, BackUp(t) \/ RecopyAside(t) PROVE TidyTree(fs')
  BY <1>1, <1>5, TidyOps DEF BackUp, RecopyAside
<1>6. ASSUME NEW t, PlaceNew(t) \/ CopyStart(t) PROVE TidyTree(fs')
  BY <1>3, <1>6 DEF PlaceNew, CopyStart
<1>7. ASSUME NEW t, RelinkUnlink(t) \/ RelinkSymlink(t) PROVE TidyTree(fs')
  BY <1>2, <1>7 DEF RelinkUnlink, RelinkSymlink
<1>8. ASSUME NEW t, CopyFinish(t) PROVE TidyTree(fs')
  BY <1>2, <1>8 DEF CopyFinish, EndCopy
<1>9. ASSUME NEW t, CopyStuck(t) PROVE TidyTree(fs')
  BY <1>3, <1>9 DEF CopyStuck
<1>10. ASSUME NEW t, ResetCopy(t) PROVE TidyTree(fs')
  BY <1>1, <1>10, TidyOps DEF ResetCopy
<1>11. ASSUME NEW t, RemoveStale(t) PROVE TidyTree(fs')
  BY <1>2, <1>11 DEF RemoveStale
<1>12. ASSUME PruneAncestor PROVE TidyTree(fs')
  BY <1>2, <1>12 DEF PruneAncestor
<1>13. ASSUME NEW p, StageStuck(p) PROVE TidyTree(fs')
  BY <1>13 DEF StageStuck
<1>14. plan.unlink \subseteq Path /\ plan.rmdir \subseteq Path
  BY StageFacts DEF Plan
<1> QED BY <1>4, <1>5, <1>6, <1>7, <1>8, <1>9, <1>10, <1>11, <1>12, <1>13, <1>14 DEF StageStep

LEMMA NextTidy == IInv /\ TidyInv /\ [Next]_vars => TidyInv'
<1> SUFFICES ASSUME IInv, TidyInv, [Next]_vars PROVE TidyInv'
  OBVIOUS
<1>1. fs \in Tree /\ TidyTree(fs) /\ TidyTree(before) /\ journal \in Seq(UndoOp)
  BY StageFacts DEF TidyInv
<1>2. TidyTree(fs')
  <2>1. CASE Start
    BY <1>1, <2>1, StartIs DEF StartFacts
  <2>2. CASE StageStep
    BY <1>1, <2>2, StageTidy
  <2>3. CASE Finish
    <3>1. CASE UndoStep
      <4>1. Last(journal) \in UndoOp
        BY <1>1, <3>1, FrontIs DEF UndoStep
      <4> QED BY <1>1, <3>1, <4>1, TidyUndo DEF UndoStep
    <3>2. CASE DiscardJournal
      BY <1>1, <3>2, TidyNodes DEF DiscardJournal, TidyTree
    <3> QED BY <1>1, <2>3, <3>1, <3>2 DEF Finish, WriteRecord, Commit, Unwound, RecordAfterReset
  <2>4. CASE Failure
    BY <1>1, <2>4, TidyOps DEF Failure, StageFault, PruneFault, CommitFault, ResetFault, ResetRecordFault
  <2>5. CASE Crash
    BY <1>1, <2>5 DEF Crash
  <2>6. CASE UserStep
    <3>1. ASSUME NEW p PROVE /\ TidyTree(Put(fs, p, Dir)) /\ TidyTree(Clear(fs, p))
                             /\ \A d : TidyTree(Put(fs, p, LinkTo(d))) /\ TidyTree(Put(fs, p, FileOf(d)))
      BY <1>1, TidyOps, TidyNodes
    <3> QED BY <2>6, <3>1 DEF UserStep, UserWrite, UserMkdir, UserRelink, UserDelete
  <2>7. CASE UNCHANGED vars
    BY <1>1, <2>7 DEF vars
  <2>8. CASE AnswerReset
    BY <1>1, <2>8 DEF AnswerReset, Refuse
  <2> QED BY <2>1, <2>2, <2>3, <2>4, <2>5, <2>6, <2>7, <2>8 DEF Next, RunStep
<1>3. before' \in {before, fs'}
  <2>1. CASE Start
    <3>1. Refuse \/ (\E r, p : Ask(r, p) \/ \E C, ph : Begin(r, p, C, ph)) => before' \in {before, fs'}
      BY DEF Refuse, End, Begin, Ask
    <3>2. Refuse \/ \E r, p : Ask(r, p) \/ \E C, ph : Begin(r, p, C, ph)
      BY <2>1, Zenon DEF Start, StartApply, StartRollback, StartReset
    <3> QED BY <3>1, <3>2
  <2>2. CASE StageStep
    BY <2>2 DEF StageStep, PreRemoveUnlink, PreRemoveRmdir, BackUp, PlaceNew, RelinkUnlink, RelinkSymlink,
                RecopyAside, CopyStart, CopyFinish, CopyStuck, ResetCopy, RemoveStale, PruneAncestor,
                StageStuck, Writes, Fails, ghostVars
  <2>3. CASE Finish
    BY <2>3 DEF Finish, WriteRecord, Commit, DiscardJournal, UndoStep, Unwound, RecordAfterReset, End, ghostVars
  <2>4. CASE Failure
    BY <2>4 DEF Failure, StageFault, PruneFault, CommitFault, ResetFault, ResetRecordFault, Fails, End
  <2>5. CASE Crash
    BY <2>5 DEF Crash, End
  <2>6. CASE UserStep
    BY <2>6 DEF UserStep, UserWrite, UserMkdir, UserRelink, UserDelete, Edited
  <2>7. CASE UNCHANGED vars
    BY <2>7 DEF vars, ghostVars
  <2>8. CASE AnswerReset
    BY <2>8 DEF AnswerReset, Refuse, End
  <2> QED BY <2>1, <2>2, <2>3, <2>4, <2>5, <2>6, <2>7, <2>8 DEF Next, RunStep
<1> QED BY <1>1, <1>2, <1>3 DEF TidyInv

LEMMA InitTidy == Init => TidyInv
BY TidyNodes DEF Init, TidyInv, TidyTree

-----------------------------------------------------------------------------
(* What unwinding comes back to. Each length of the journal has the tree    *)
(* the run had reached with it. Undoing an entry leads from the tree of one *)
(* length to that of the length before, but for directories that were made  *)
(* for an entry and never journaled, and for asides that are spent.         *)

\* No entry of n lies two levels or more below one of m.
Shallow(m, n) == \A t \in DOMAIN m, s \in DOMAIN n : Above[s] \cap Below[t] = {}

MigrationsShallow == \A m, n \in Manifests : Shallow(m, n)

\* The directories that entries of the run may need.
Parents == UNION {Above[t] : t \in DOMAIN run.next}

MadeFor(f, h, p) == p \in Parents /\ ~Exists(h, p) /\ f[p] = Dir

\* Outside S, h is g with directories made for entries.
Adds(g, h, S) == \A p \in Path \ S : h[p] = g[p] \/ MadeFor(h, g, p)

\* f is h, with directories made for entries, and without some of L.
OverAt(f, h, L, p) == f[p] = h[p] \/ MadeFor(f, h, p) \/ (p \in L /\ f[p] = Absent)
Over(f, h, L) == \A p \in Path : OverAt(f, h, L, p)

\* The write that op undoes made h of g.
Undoes(g, op, h) ==
  LET p == op.path
      q == Beside(op.kind, p)
  IN /\ op.kind = "unlinkNew" =>
          p \in Target /\ g[p] = Absent /\ IsLink(h, p) /\ Adds(g, h, {p})
     /\ op.kind = "relinkOld" =>
          /\ p \in Target /\ g[p] = LinkTo(op.dest) /\ h[p].kind \in {"absent", "link"}
          /\ Parents \cap Below[p] = {} /\ Adds(g, h, {p})
     /\ op.kind = "removeCopy" => (\A r \in At(p) : ~Exists(g, r)) /\ Adds(g, h, At(p))
     /\ op.kind \in Restores =>
          /\ p \in Target /\ Exists(g, p) /\ Adds(g, h, At(p) \cup At(q))
          /\ \A r \in At(p) : h[Rebase(q, p, r)] = g[r]
          /\ op.kind = "restoreBackup" => \A r \in At(q) : ~Exists(g, r)
     /\ op.kind = "mkdir" => g[p] = Dir /\ h[p] = Absent /\ Adds(g, h, {p})

LEMMA OverAdds ==
  ASSUME NEW f, NEW g, NEW h, NEW L, NEW M, L \subseteq M, NEW S, Over(f, h, L), Adds(g, h, S)
  PROVE  \A p \in Path \ S : OverAt(f, g, M, p)
BY DEF Over, OverAt, Adds, MadeFor, Exists, Dir

LEMMA OverRealDir ==
  ASSUME NEW f, NEW g, NEW M, NEW p \in Path, InRealDir(g, p), Above[p] \cap M = {},
         \A q \in Above[p] : OverAt(f, g, M, q)
  PROVE  InRealDir(f, p)
BY DEF OverAt, InRealDir, IsDir, MadeFor, Exists

LEMMA UndoLinkOver ==
  ASSUME NEW f \in Tree, NEW g \in Tree, NEW h \in Tree, Closed(g), Closed(h),
         NEW op \in UndoOp, op.kind \in {"unlinkNew", "relinkOld"}, NEW L, NEW M, L \subseteq M,
         M \cap Target = {}, \A q \in M : Below[q] \subseteq M, M \subseteq Path, Target \subseteq Path,
         Undoes(g, op, h), Over(f, h, L)
  PROVE  Over(Undo(f, op), g, M)
<1> DEFINE p == op.path
           removed == IF CanRemove(f, p) THEN Put(f, p, Absent) ELSE f
<1>1. p \in Path /\ p \in Target /\ Adds(g, h, {p}) /\ p \notin M /\ p \notin L
  BY DEF UndoOp, Undoes
<1>2. \A r \in Path : r # p => OverAt(f, g, M, r)
  BY <1>1, OverAdds
<1>3. f[p] = h[p] \/ MadeFor(f, h, p)
  BY <1>1 DEF Over, OverAt
<1>4. f \in [Path -> Node]
  BY DEF Tree
<1>5. \A r \in Path : r # p => removed[r] = f[r]
  BY <1>4 DEF Put
<1>6. CASE op.kind = "unlinkNew"
  <2>1. g[p] = Absent /\ IsLink(h, p) /\ f[p] = h[p]
    BY <1>3, <1>6 DEF Undoes, MadeFor, Exists, IsLink
  <2>2. CanRemove(f, p) /\ removed[p] = Absent
    BY <1>1, <1>4, <2>1 DEF CanRemove, Exists, IsLink, IsDir, Put
  <2>3. Undo(f, op) = removed
    BY <1>6 DEF Undo
  <2> QED BY <1>2, <1>5, <2>1, <2>2, <2>3 DEF Over, OverAt, MadeFor
<1>7. CASE op.kind = "relinkOld"
  <2>1. g[p] = LinkTo(op.dest) /\ h[p].kind \in {"absent", "link"} /\ Parents \cap Below[p] = {}
    BY <1>7 DEF Undoes
  <2>2. ~Exists(removed, p)
    <3>1. CASE f[p] = h[p]
      BY <1>1, <1>4, <2>1, <3>1 DEF CanRemove, Exists, IsDir, Put, Absent
    <3>2. CASE MadeFor(f, h, p)
      <4>1. ASSUME NEW r \in Below[p] PROVE ~Exists(f, r)
        <5>1. r \in Path /\ ~Exists(h, r)
          BY <1>1, <2>1, NothingBelow DEF IsDir
        <5> QED BY <2>1, <5>1 DEF Over, OverAt, MadeFor, Exists, Absent
      <4>2. CanRemove(f, p)
        BY <3>2, <4>1 DEF CanRemove, EmptyDir, Exists, IsDir, MadeFor, Dir
      <4> QED BY <1>1, <1>4, <4>2 DEF Put, Exists, Absent
    <3> QED BY <1>3, <3>1, <3>2
  <2>3. InRealDir(f, p)
    <3>1. InRealDir(g, p)
      BY <1>1, <2>1 DEF Closed, Exists, LinkTo
    <3>2. \A q \in Above[p] : q \in Path /\ q # p /\ q \notin M
      BY <1>1, AboveBelow, AboveOrder
    <3> QED BY <1>1, <1>2, <3>1, <3>2, OverRealDir
  <2>4. Undo(f, op) = Put(removed, p, LinkTo(op.dest))
    BY <1>7, <2>2, <2>3 DEF Undo
  <2>5. removed \in [Path -> Node]
    BY <1>4, NodeTypes DEF Put
  <2>6. Undo(f, op)[p] = g[p] /\ \A r \in Path : r # p => Undo(f, op)[r] = f[r]
    BY <1>1, <1>5, <2>1, <2>4, <2>5 DEF Put
  <2> QED BY <1>2, <2>6 DEF Over, OverAt, MadeFor
<1> QED BY <1>6, <1>7

LEMMA UndoCopyOver ==
  ASSUME NEW f \in Tree, NEW g \in Tree, TidyTree(g), NEW h \in Tree,
         NEW op \in UndoOp, op.kind = "removeCopy", NEW L, NEW M, L \subseteq M,
         Undoes(g, op, h), Over(f, h, L)
  PROVE  Over(Undo(f, op), g, M)
<1>1. /\ \A r \in At(op.path) : ~Exists(g, r)
      /\ Adds(g, h, At(op.path)) /\ Undo(f, op) = Clear(f, op.path)
  BY DEF Undoes, Undo
<1>2. \A r \in Path : r \notin At(op.path) => OverAt(f, g, M, r)
  BY <1>1, OverAdds
<1> QED BY <1>1, <1>2 DEF Over, OverAt, MadeFor, Clear, TidyTree, TidyNode, Exists

LEMMA UndoMkdirOver ==
  ASSUME NEW f \in Tree, NEW g \in Tree, Closed(g), NEW h \in Tree,
         NEW op \in UndoOp, op.kind = "mkdir", NEW L, NEW M, L \subseteq M, M \subseteq Path,
         \A q \in M : Below[q] \subseteq M, Undoes(g, op, h), Over(f, h, L)
  PROVE  Over(Undo(f, op), g, M)
<1> DEFINE p == op.path
<1>1. p \in Path /\ g[p] = Dir /\ h[p] = Absent /\ Adds(g, h, {p})
  BY DEF UndoOp, Undoes
<1>2. \A r \in Path : r # p => OverAt(f, g, M, r)
  BY <1>1, OverAdds
<1>3. f \in [Path -> Node] /\ Undo(f, op) = IF InRealDir(f, p) /\ ~Exists(f, p) THEN Put(f, p, Dir) ELSE f
  BY DEF Tree, Undo
<1>4. OverAt(Undo(f, op), g, M, p)
  <2>1. f[p] \in {Absent, Dir}
    BY <1>1 DEF Over, OverAt, MadeFor
  <2>2. CASE f[p] = Dir
    BY <1>1, <1>3, <2>2 DEF OverAt, Exists, Dir
  <2>3. CASE f[p] = Absent /\ InRealDir(f, p)
    BY <1>1, <1>3, <2>3 DEF OverAt, Exists, Absent, Put
  <2>4. CASE f[p] = Absent /\ ~InRealDir(f, p)
    <3>1. InRealDir(g, p)
      BY <1>1 DEF Closed, Exists, Dir
    <3>2. \A q \in Above[p] : q \in Path /\ q # p
      BY <1>1, AboveBelow, AboveOrder
    <3>3. PICK q \in Above[p] : q \in M
      BY <1>1, <1>2, <2>4, <3>1, <3>2, OverRealDir
    <3>4. p \in M
      BY <1>1, <3>2, <3>3, AboveOrder
    <3> QED BY <1>3, <2>4, <3>4 DEF OverAt
  <2> QED BY <2>1, <2>2, <2>3, <2>4
<1>5. \A r \in Path : r # p => Undo(f, op)[r] = f[r]
  BY <1>3 DEF Put
<1> QED BY <1>2, <1>4, <1>5 DEF Over, OverAt, MadeFor

LEMMA UndoMoveOver ==
  ASSUME NamesApart, NEW f \in Tree, NEW g \in Tree, Closed(g), TidyTree(g), NEW h \in Tree,
         NEW op \in UndoOp, op.kind \in Restores, NEW L, NEW M, L \subseteq M, M \subseteq Path,
         M \cap Target = {}, \A q \in M : Below[q] \subseteq M, Target \subseteq Path,
         DOMAIN run.next \subseteq Target,
         At(Beside(op.kind, op.path)) \cap L = {},
         op.kind = "restoreRename" => At(AsideOf[op.path]) \subseteq M,
         Undoes(g, op, h), Over(f, h, L)
  PROVE  Over(Undo(f, op), g, M)
<1> DEFINE p == op.path
           q == Beside(op.kind, op.path)
           c == Clear(f, p)
<1>1. /\ p \in Target /\ p \in Path /\ Exists(g, p) /\ Adds(g, h, At(p) \cup At(q))
      /\ \A r \in At(p) : h[Rebase(q, p, r)] = g[r]
  BY DEF UndoOp, Undoes
<1>2. q \in {BackupOf[p], AsideOf[p]} /\ Movable(p, q) /\ Movable(q, p)
  BY <1>1, TargetsMove, MovableApart DEF Beside
<1>3. q \in Path /\ At(p) \subseteq Path /\ At(q) \subseteq Path /\ At(p) \cap At(q) = {} /\ p \in At(p) /\ q \in At(q)
  BY <1>2, MovableApart DEF Movable, At
<1>4. \A r \in Path : r \notin At(p) \cup At(q) => OverAt(f, g, M, r)
  BY <1>1, OverAdds
<1>5. ASSUME NEW r \in At(p) PROVE Rebase(q, p, r) \in At(q) /\ f[Rebase(q, p, r)] = g[r]
  <2>1. Rebase(q, p, r) \in At(q) /\ Rebase(q, p, r) \in Path
    BY <1>2, <1>3, RenameMoves
  <2>2. Rebase(q, p, r) \notin Parents
    <3>1. ASSUME NEW t \in DOMAIN run.next, Rebase(q, p, r) \in Above[t] PROVE FALSE
      <4>1. t \in At(q)
        BY <1>3, <2>1, <3>1, AtOrder
      <4> QED BY <1>1, <1>2, <4>1 DEF NamesApart
    <3> QED BY <3>1 DEF Parents
  <2> QED BY <1>1, <2>1, <2>2 DEF Over, OverAt, MadeFor
<1>6. Undo(f, op) = (IF CanRename(c, q, p) THEN Rename(c, q, p) ELSE c)
  BY DEF Undo, BringBack, Beside, Restores
<1>7. CanRename(c, q, p)
  <2>1. c[q] = f[q] /\ f[q] = g[p] /\ ~Exists(c, p)
    <3>1. Rebase(q, p, p) = q
      BY <1>3, RebaseSelf
    <3> QED BY <1>1, <1>3, <1>5, <3>1 DEF Clear, Exists, Absent
  <2>2. \A a \in Above[p] : a \in Path /\ a \notin At(p) /\ a \notin At(q) /\ a \notin M
    <3> SUFFICES ASSUME NEW a \in Above[p] PROVE a \in Path /\ a \notin At(p) /\ a \notin At(q) /\ a \notin M
      OBVIOUS
    <3>1. a \in Path /\ p \in Below[a]
      BY <1>1, AboveBelow, AboveOrder
    <3>2. a \notin At(p)
      BY <1>1, <3>1, AboveOrder, AtOrder
    <3>3. a \notin At(q)
      BY <1>3, <3>1, AtOrder
    <3> QED BY <1>1, <3>1, <3>2, <3>3
  <2>3. InRealDir(f, p)
    <3>1. InRealDir(g, p)
      BY <1>1 DEF Closed
    <3> QED BY <1>1, <1>4, <2>2, <3>1, OverRealDir
  <2>4. InRealDir(c, p)
    BY <2>2, <2>3 DEF InRealDir, IsDir, Clear
  <2> QED BY <1>1, <2>1, <2>4 DEF CanRename, Exists
<1>8. \A r \in Path : Undo(f, op)[r] = IF r \in At(p) THEN c[Rebase(q, p, r)] ELSE IF r \in At(q) THEN Absent ELSE c[r]
  BY <1>2, <1>6, <1>7, RenameIs
<1> HIDE DEF p, q
<1>9. ASSUME NEW r \in Path PROVE OverAt(Undo(f, op), g, M, r)
  <2>1. CASE r \in At(p)
    <3>1. c[Rebase(q, p, r)] = g[r]
      BY <1>3, <1>5, <2>1 DEF Clear
    <3> QED BY <1>8, <2>1, <3>1 DEF OverAt
  <2>2. CASE r \in At(q)
    <3>1. Undo(f, op)[r] = Absent
      BY <1>3, <1>8, <2>2
    <3>2. CASE op.kind = "restoreRename"
      BY <2>2, <3>1, <3>2 DEF OverAt, Beside, q
    <3>3. CASE op.kind = "restoreBackup"
      <4>1. ~Exists(g, r)
        BY <2>2, <3>3 DEF Undoes, Restores, q
      <4> QED BY <3>1, <4>1 DEF OverAt, TidyTree, TidyNode, Exists
    <3> QED BY <3>2, <3>3 DEF Restores
  <2>3. CASE r \notin At(p) \cup At(q)
    <3>1. Undo(f, op)[r] = f[r]
      BY <1>8, <2>3 DEF Clear
    <3> QED BY <1>4, <2>3, <3>1 DEF OverAt, MadeFor
  <2> QED BY <2>1, <2>2, <2>3
<1> QED BY <1>9 DEF Over

\* The asides that none of the renames in j went to.
Loose(j) ==
  {r \in Path : \E t \in Target :
     r \in At(AsideOf[t]) /\ \A i \in DOMAIN j : ~(j[i].kind = "restoreRename" /\ j[i].path = t)}

LEMMA LooseIs ==
  ASSUME NamesApart, NamesDiffer, NEW j \in Seq(UndoOp),
         \A i \in DOMAIN j : j[i].kind \in Restores => j[i].path \in Target
  PROVE  /\ Loose(j) \subseteq Path /\ Loose(j) \cap Target = {}
         /\ \A q \in Loose(j) : Below[q] \subseteq Loose(j)
         /\ \A i \in DOMAIN j : j[i].kind \in Restores => At(Beside(j[i].kind, j[i].path)) \cap Loose(j) = {}
<1>1. Target \subseteq Path /\ AsideOf \in [Target -> Path] /\ BackupOf \in [Target -> Path]
  BY EngineAssumption, TargetAssumption
<1>2. Loose(j) \cap Target = {}
  BY DEF Loose, NamesApart
<1>3. ASSUME NEW q \in Loose(j), NEW r \in Below[q] PROVE r \in Loose(j)
  <2>1. PICK t \in Target : q \in At(AsideOf[t]) /\ \A i \in DOMAIN j : ~(j[i].kind = "restoreRename" /\ j[i].path = t)
    BY DEF Loose
  <2>2. q \in Path /\ r \in Path /\ AsideOf[t] \in Path
    BY <1>1, AboveBelow DEF Loose
  <2>3. r \in At(AsideOf[t])
    BY <2>1, <2>2, AtOrder DEF At
  <2> QED BY <2>1, <2>2, <2>3 DEF Loose
<1>4. ASSUME NEW i \in DOMAIN j, j[i].kind \in Restores, NEW r \in At(Beside(j[i].kind, j[i].path)), r \in Loose(j)
      PROVE  FALSE
  <2>1. j[i].path \in Target
    BY <1>4
  <2>2. PICK t \in Target : r \in At(AsideOf[t]) /\ \A k \in DOMAIN j : ~(j[k].kind = "restoreRename" /\ j[k].path = t)
    BY <1>4 DEF Loose
  <2>3. Beside(j[i].kind, j[i].path) = AsideOf[t]
    BY <1>4, <2>1, <2>2, ScratchApart DEF Beside
  <2> QED BY <1>4, <2>1, <2>2, <2>3 DEF NamesDiffer, Beside, Restores
<1> QED BY <1>2, <1>3, <1>4 DEF Loose

\* The trees that the run has come by, one for each length of the journal.
Rewinds(H) ==
  /\ H \in [0 .. Len(journal) -> Tree] /\ H[0] = before
  /\ \A i \in 0 .. Len(journal) : Closed(H[i]) /\ TidyTree(H[i])
  /\ \A i \in DOMAIN journal : Undoes(H[i - 1], journal[i], H[i])

LEMMA UndoesStays ==
  ASSUME UNCHANGED run, NEW g, NEW op, NEW h
  PROVE  Undoes(g, op, h)' <=> Undoes(g, op, h)
BY DEF Undoes, Adds, MadeFor, Parents

LEMMA RewindIs ==
  ASSUME journal \in Seq(UndoOp), NEW H, NEW n, n = Len(journal)
  PROVE  /\ n \in Nat /\ DOMAIN journal = 1 .. n
         /\ Rewinds(H) <=>
              /\ H \in [0 .. n -> Tree] /\ H[0] = before
              /\ \A i \in 0 .. n : Closed(H[i]) /\ TidyTree(H[i])
              /\ \A i \in 1 .. n : Undoes(H[i - 1], journal[i], H[i])
<1>1. n \in Nat /\ DOMAIN journal = 1 .. n
  OBVIOUS
<1> QED BY <1>1 DEF Rewinds

LEMMA RewindPush ==
  ASSUME journal \in Seq(UndoOp), NEW H, Rewinds(H), H[Len(journal)] = fs, NEW op \in UndoOp,
         journal' = Append(journal, op), UNCHANGED <<run, before>>,
         fs' \in Tree, Closed(fs'), TidyTree(fs'), Undoes(fs, op, fs')
  PROVE  \E G : Rewinds(G)' /\ G[Len(journal')] = fs'
<1>0. PICK n, G : n = Len(journal) /\ G = [i \in 0 .. n + 1 |-> IF i = n + 1 THEN fs' ELSE H[i]]
  OBVIOUS
<1>1. /\ n \in Nat /\ H \in [0 .. n -> Tree] /\ H[0] = before
      /\ \A i \in 0 .. n : Closed(H[i]) /\ TidyTree(H[i])
      /\ \A i \in 1 .. n : Undoes(H[i - 1], journal[i], H[i])
  BY <1>0, RewindIs
<1>2. /\ journal' \in Seq(UndoOp) /\ n + 1 = Len(journal')
      /\ (\A i \in 1 .. n : journal'[i] = journal[i]) /\ journal'[n + 1] = op
  BY <1>0, <1>1
<1>3. H[n] = fs
  BY <1>0
<1>4. G[n + 1] = fs' /\ \A i \in 0 .. n : G[i] = H[i]
  BY <1>0, <1>1
<1>5. G \in [0 .. n + 1 -> Tree] /\ G[0] = before'
  BY <1>0, <1>1
<1>6. \A i \in 0 .. n + 1 : Closed(G[i]) /\ TidyTree(G[i])
  BY <1>1, <1>4
<1>7. ASSUME NEW i \in 1 .. n + 1 PROVE Undoes(G[i - 1], journal[i], G[i])'
  <2>1. CASE i \in 1 .. n
    <3>1. i \in 0 .. n /\ i - 1 \in 0 .. n
      BY <1>1, <2>1
    <3>2. Undoes(H[i - 1], journal'[i], H[i]) /\ G[i] = H[i] /\ G[i - 1] = H[i - 1]
      BY <1>1, <1>2, <1>4, <2>1, <3>1
    <3>3. Undoes(G[i - 1], journal'[i], G[i])
      BY <3>2
    <3> QED BY <3>3, UndoesStays
  <2>2. CASE i = n + 1
    <3>1. i - 1 = n /\ i - 1 \in 0 .. n
      BY <1>1, <2>2
    <3>2. G[i - 1] = fs /\ G[i] = fs' /\ journal'[i] = op
      BY <1>2, <1>3, <1>4, <2>2, <3>1
    <3>3. Undoes(G[i - 1], journal'[i], G[i])
      BY <3>2
    <3> QED BY <3>3, UndoesStays
  <2>3. i \in 1 .. n \/ i = n + 1
    BY <1>1
  <2> QED BY <2>1, <2>2, <2>3
<1>8. Rewinds(G)'
  <2>1. DOMAIN journal' = 1 .. n + 1
    BY <1>2
  <2> QED BY <1>2, <1>5, <1>6, <1>7, <2>1 DEF Rewinds
<1> QED BY <1>2, <1>4, <1>8

\* The write that the last entry is about goes on.
LEMMA RewindTop ==
  ASSUME journal \in Seq(UndoOp), journal # << >>, NEW H, Rewinds(H),
         UNCHANGED <<journal, run, before>>, fs' \in Tree, Closed(fs'), TidyTree(fs'),
         Undoes(H[Len(journal) - 1], Last(journal), fs')
  PROVE  \E G : Rewinds(G)' /\ G[Len(journal')] = fs'
<1>0. PICK n, G : n = Len(journal) /\ G = [i \in 0 .. n |-> IF i = n THEN fs' ELSE H[i]]
  OBVIOUS
<1>1. /\ n \in Nat /\ H \in [0 .. n -> Tree] /\ H[0] = before
      /\ \A i \in 0 .. n : Closed(H[i]) /\ TidyTree(H[i])
      /\ \A i \in 1 .. n : Undoes(H[i - 1], journal[i], H[i])
  BY <1>0, RewindIs
<1>2. n # 0 /\ Last(journal) = journal[n] /\ n = Len(journal') /\ Undoes(H[n - 1], journal[n], fs')
  BY <1>0, <1>1, FrontIs
<1>3. G[n] = fs' /\ \A i \in 0 .. n : i # n => G[i] = H[i]
  BY <1>0, <1>1
<1>4. G \in [0 .. n -> Tree] /\ G[0] = before'
  BY <1>0, <1>1, <1>2
<1>5. \A i \in 0 .. n : Closed(G[i]) /\ TidyTree(G[i])
  BY <1>1, <1>3
<1>6. ASSUME NEW i \in 1 .. n PROVE Undoes(G[i - 1], journal[i], G[i])'
  <2>1. i - 1 \in 0 .. n /\ i - 1 # n /\ i \in 0 .. n
    BY <1>1
  <2>2. G[i - 1] = H[i - 1]
    BY <1>3, <2>1
  <2>3. Undoes(G[i - 1], journal'[i], G[i])
    BY <1>1, <1>2, <1>3, <2>1, <2>2
  <2> QED BY <2>3, UndoesStays
<1>7. Rewinds(G)'
  <2>1. DOMAIN journal' = 1 .. n
    BY <1>0, <1>2
  <2> QED BY <1>2, <1>4, <1>5, <1>6, <2>1 DEF Rewinds
<1> QED BY <1>2, <1>3, <1>7

LEMMA RewindStays ==
  ASSUME NEW H, Rewinds(H), UNCHANGED <<journal, run, before>>
  PROVE  Rewinds(H)'
BY UndoesStays DEF Rewinds

LEMMA RewindPop ==
  ASSUME NamesApart, NamesDiffer, journal \in Seq(UndoOp), journal # << >>, JournalFits,
         RestoresOnce(journal), Target \subseteq Path, DOMAIN run.next \subseteq Target,
         fs \in Tree, NEW H, Rewinds(H), Over(fs, H[Len(journal)], Loose(journal)),
         fs' = Undo(fs, Last(journal)), journal' = Front(journal), UNCHANGED <<run, before>>
  PROVE  \E G : Rewinds(G)' /\ Over(fs, G[Len(journal)], Loose(journal))'
<1> DEFINE op == Last(journal)
<1>0. PICK n, G : n = Len(journal) /\ G = [i \in 0 .. n - 1 |-> H[i]]
  OBVIOUS
<1>1. /\ n \in Nat /\ DOMAIN journal = 1 .. n /\ H \in [0 .. n -> Tree] /\ H[0] = before
      /\ \A i \in 0 .. n : Closed(H[i]) /\ TidyTree(H[i])
      /\ \A i \in 1 .. n : Undoes(H[i - 1], journal[i], H[i])
  BY <1>0, RewindIs
<1>2. /\ n # 0 /\ op = journal[n] /\ op \in UndoOp /\ Over(fs, H[n], Loose(journal))
      /\ journal' \in Seq(UndoOp) /\ Len(journal') = n - 1 /\ DOMAIN journal' = 1 .. n - 1
      /\ \A i \in 1 .. n - 1 : journal'[i] = journal[i]
  <2>1. journal' = SubSeq(journal, 1, n - 1) /\ n # 0 /\ n \in DOMAIN journal
    BY <1>0, FrontIs DEF Front
  <2> QED BY <1>0, <1>1, <2>1, FrontIs
<1>3. \A i \in 0 .. n - 1 : G[i] = H[i]
  BY <1>0
<1>4. G \in [0 .. n - 1 -> Tree] /\ G[0] = before'
  BY <1>0, <1>1, <1>2
<1>5. \A i \in 0 .. n - 1 : Closed(G[i]) /\ TidyTree(G[i])
  BY <1>1, <1>3
<1>6. ASSUME NEW i \in 1 .. n - 1 PROVE Undoes(G[i - 1], journal[i], G[i])'
  <2>1. i - 1 \in 0 .. n - 1 /\ i \in 0 .. n - 1 /\ i \in 1 .. n
    BY <1>1
  <2>2. Undoes(G[i - 1], journal'[i], G[i])
    BY <1>1, <1>2, <1>3, <2>1
  <2> QED BY <2>2, UndoesStays
<1>7. n - 1 \in 0 .. n - 1 /\ n \in 1 .. n /\ n \in 0 .. n /\ n - 1 \in 0 .. n /\ G[n - 1] = H[n - 1]
  BY <1>1, <1>2, <1>3
<1>8. Rewinds(G)'
  BY <1>2, <1>4, <1>5, <1>6 DEF Rewinds
<1>9. Over(Undo(fs, op), H[n - 1], Loose(journal'))
  <2>1. /\ H[n] \in Tree /\ H[n - 1] \in Tree /\ Closed(H[n]) /\ Closed(H[n - 1])
        /\ TidyTree(H[n - 1]) /\ Undoes(H[n - 1], op, H[n])
    BY <1>1, <1>2, <1>7
  <2>2. /\ \A i \in DOMAIN journal : journal[i].kind \in Restores => journal[i].path \in Target
        /\ \A i \in DOMAIN journal' : journal'[i].kind \in Restores => journal'[i].path \in Target
    BY <1>1, <1>2, <1>7 DEF JournalFits, Restores
  <2>3. /\ Loose(journal') \subseteq Path /\ Loose(journal') \cap Target = {}
        /\ \A q \in Loose(journal') : Below[q] \subseteq Loose(journal')
    BY <1>2, <2>2, LooseIs
  <2>4. op.kind \in Restores => At(Beside(op.kind, op.path)) \cap Loose(journal) = {}
    BY <1>1, <1>2, <1>7, <2>2, LooseIs
  <2>5. Loose(journal) \subseteq Loose(journal')
    BY <1>1, <1>2, <1>7 DEF Loose
  <2>6. ASSUME op.kind = "restoreRename" PROVE At(AsideOf[op.path]) \subseteq Loose(journal')
    <3>1. op.path \in Target /\ AsideOf[op.path] \in Path
      BY <1>1, <1>2, <1>7, <2>2, <2>6, EngineAssumption DEF Restores
    <3>2. \A i \in DOMAIN journal' : ~(journal'[i].kind = "restoreRename" /\ journal'[i].path = op.path)
      BY <1>1, <1>2, <1>7, <2>6 DEF RestoresOnce, Restores
    <3> QED BY <3>1, <3>2, AboveBelow DEF Loose
  <2>7. CASE op.kind \in {"unlinkNew", "relinkOld"}
    BY <1>2, <2>1, <2>3, <2>5, <2>7, UndoLinkOver
  <2>8. CASE op.kind = "removeCopy"
    BY <1>2, <2>1, <2>5, <2>8, UndoCopyOver
  <2>9. CASE op.kind = "mkdir"
    BY <1>2, <2>1, <2>3, <2>5, <2>9, UndoMkdirOver
  <2>10. CASE op.kind \in Restores
    BY <1>2, <2>1, <2>3, <2>4, <2>5, <2>6, <2>10, UndoMoveOver
  <2>11. op.kind \in UndoKind
    BY <1>2 DEF UndoOp
  <2> QED BY <2>7, <2>8, <2>9, <2>10, <2>11 DEF UndoKind, Restores
<1>10. Over(fs, G[Len(journal)], Loose(journal))'
  BY <1>1, <1>2, <1>7, <1>9 DEF Over, OverAt, MadeFor, Parents
<1> QED BY <1>8, <1>10

-----------------------------------------------------------------------------
(* The stages write what their journal undoes.                              *)

\* The copy under way is what the last entry is about.
Latest ==
  mid.step \in {"aside", "copy"} =>
    /\ journal # << >> /\ Last(journal).path = mid.path
    /\ Last(journal).kind \in {"removeCopy", "restoreRename"}
    /\ mid.step = "aside" => Last(journal).kind = "restoreRename"

RewindStage ==
  /\ Shallow(run.base, run.next) /\ Latest
  /\ \E H : Rewinds(H) /\ H[Len(journal)] = fs

LEMMA JournaledRewinds ==
  ASSUME RewindStage, Latest', journal \in Seq(UndoOp), UNCHANGED <<run, before>>,
         fs' \in Tree, Closed(fs'), TidyTree(fs'),
         NEW kind \in UndoKind, NEW p \in Path, NEW d \in Val, Journals(kind, p, d),
         Undoes(fs, [kind |-> kind, path |-> p, dest |-> d], fs')
  PROVE  RewindStage'
<1>1. PICK op : op = [kind |-> kind, path |-> p, dest |-> d]
  OBVIOUS
<1>2. op \in UndoOp /\ journal' = Append(journal, op) /\ Undoes(fs, op, fs')
  BY <1>1 DEF UndoOp, Journals
<1>3. PICK H : Rewinds(H) /\ H[Len(journal)] = fs
  BY DEF RewindStage
<1>4. \E G : Rewinds(G)' /\ G[Len(journal')] = fs'
  BY <1>2, <1>3, RewindPush
<1> QED BY <1>4 DEF RewindStage, Shallow

LEMMA ContinuedRewinds ==
  ASSUME RewindStage, Latest', journal \in Seq(UndoOp), journal # << >>, UNCHANGED <<journal, run, before>>,
         fs' \in Tree, Closed(fs'), TidyTree(fs'),
         \A g : Undoes(g, Last(journal), fs) => Undoes(g, Last(journal), fs')
  PROVE  RewindStage'
<1>1. PICK H : Rewinds(H) /\ H[Len(journal)] = fs
  BY DEF RewindStage
<1>2. Undoes(H[Len(journal) - 1], Last(journal), H[Len(journal)])
  <2>1. Len(journal) \in DOMAIN journal /\ Last(journal) = journal[Len(journal)]
    BY FrontIs
  <2> QED BY <1>1, <2>1 DEF Rewinds
<1>3. Undoes(H[Len(journal) - 1], Last(journal), fs')
  BY <1>1, <1>2
<1>4. \E G : Rewinds(G)' /\ G[Len(journal')] = fs'
  BY <1>1, <1>3, RewindTop
<1> QED BY <1>4 DEF RewindStage, Shallow

LEMMA StillRewinds ==
  ASSUME RewindStage, Latest', UNCHANGED <<fs, journal, run, before>>
  PROVE  RewindStage'
<1>1. PICK H : Rewinds(H) /\ H[Len(journal)] = fs
  BY DEF RewindStage
<1>2. Rewinds(H)' /\ H[Len(journal')] = fs'
  BY <1>1, RewindStays
<1> QED BY <1>2 DEF RewindStage, Shallow

LEMMA PutAdds ==
  ASSUME NEW f \in Tree, NEW p, NEW n
  PROVE  Adds(f, Put(f, p, n), {p}) /\ (p \in Path => Put(f, p, n)[p] = n)
BY DEF Adds, Put, Tree

LEMMA MkdirsAdds ==
  ASSUME NEW f, NEW p \in DOMAIN run.next, NEW r \in Path
  PROVE  Mkdirs(f, p)[r] = f[r] \/ MadeFor(Mkdirs(f, p), f, r)
BY DEF MadeFor, Mkdirs, Parents

LEMMA RenameUndoes ==
  ASSUME NamesApart, NEW f \in Tree, Closed(f), NEW t \in Target, NEW kind \in Restores, NEW d,
         Exists(f, t), kind = "restoreBackup" => ~Exists(f, BackupOf[t])
  PROVE  Undoes(f, [kind |-> kind, path |-> t, dest |-> d], Rename(f, t, Beside(kind, t)))
<1> DEFINE q == Beside(kind, t)
           h == Rename(f, t, q)
<1>1. Movable(t, q) /\ q \in Path /\ At(t) \subseteq Path /\ At(q) \subseteq Path
  BY TargetsMove, MovableApart DEF Beside, Movable
<1>2. \A r \in At(t) : h[Rebase(q, t, r)] = f[r]
  BY <1>1, RenameMoves
<1>3. Adds(f, h, At(t) \cup At(q))
  BY <1>1, RenameIs DEF Adds
<1>4. kind = "restoreBackup" => \A r \in At(q) : ~Exists(f, r)
  BY <1>1, NothingUnder DEF Beside
<1> HIDE DEF q, h
<1>5. kind \in {"restoreRename", "restoreBackup"}
  BY DEF Restores
<1>6. q = Beside(kind, t) /\ h = Rename(f, t, Beside(kind, t))
  BY DEF q, h
<1> QED BY <1>2, <1>3, <1>4, <1>5, <1>6 DEF Undoes

\* What is written at the target of the last entry is undone with it.
LEMMA UndoesOn ==
  ASSUME NEW g, NEW h, NEW k, NEW op, op.kind \in {"removeCopy", "restoreRename"}, Undoes(g, op, h),
         \A r \in Path : r \notin At(op.path) => k[r] = h[r] \/ MadeFor(k, h, r),
         op.kind = "restoreRename" => \A r \in At(AsideOf[op.path]) : k[r] = h[r],
         op.kind = "restoreRename" => \A r \in At(op.path) : Rebase(AsideOf[op.path], op.path, r) \in At(AsideOf[op.path])
  PROVE  Undoes(g, op, k)
<1>1. ASSUME NEW S, At(op.path) \subseteq S, Adds(g, h, S) PROVE Adds(g, k, S)
  BY <1>1 DEF Adds, MadeFor, Exists, Dir
<1>2. CASE op.kind = "removeCopy"
  BY <1>1, <1>2 DEF Undoes, Restores
<1>3. CASE op.kind = "restoreRename"
  BY <1>1, <1>3 DEF Undoes, Restores, Beside
<1> QED BY <1>2, <1>3

LEMMA NoParentBeside ==
  ASSUME NamesApart, DOMAIN run.next \subseteq Target, NEW t \in Target, NEW r \in At(AsideOf[t])
  PROVE  r \notin Parents
<1> SUFFICES ASSUME NEW s \in DOMAIN run.next, r \in Above[s] PROVE FALSE
  BY DEF Parents
<1>1. s \in Target /\ s \in Path /\ AsideOf[t] \in Path
  BY EngineAssumption, TargetAssumption
<1>2. r \in Path
  BY <1>1, AboveBelow
<1>3. s \in At(AsideOf[t])
  BY <1>1, <1>2, AtOrder
<1> QED BY <1>1, <1>3 DEF NamesApart

LEMMA UnlinkRewinds ==
  ASSUME RunBasis, RewindStage, TreeInv', TidyTree(fs'), fs' \in Tree, NEW p, PreRemoveUnlink(p)
  PROVE  RewindStage'
<1>1. /\ fs \in Tree /\ journal \in Seq(UndoOp) /\ IsManifest(run.base) /\ Target \subseteq Path
  BY StageFacts DEF RunBasis
<1>2. /\ p \in DOMAIN run.base /\ fs[p] = LinkTo(run.base[p].src) /\ fs' = Put(fs, p, Absent)
      /\ Journals("relinkOld", p, run.base[p].src) /\ mid' = NoMid /\ UNCHANGED <<run, before>>
  BY DEF PreRemoveUnlink, RecordedLink, In, Writes, ghostVars, JournalRelink, Journals
<1>3. p \in Target /\ p \in Path /\ run.base[p].src \in Val
  BY <1>1, <1>2, ManifestTypes
<1>4. Parents \cap Below[p] = {}
  BY <1>2 DEF RewindStage, Shallow, Parents
<1>5. fs'[p] = Absent /\ Adds(fs, fs', {p})
  BY <1>1, <1>2, <1>3, PutAdds
<1>6. Undoes(fs, [kind |-> "relinkOld", path |-> p, dest |-> run.base[p].src], fs')
  BY <1>2, <1>3, <1>4, <1>5 DEF Undoes, Restores, Absent
<1>7. Latest'
  BY <1>2 DEF Latest, NoMid
<1> QED BY <1>1, <1>2, <1>3, <1>6, <1>7, JournaledRewinds DEF TreeInv, UndoKind

LEMMA RmdirRewinds ==
  ASSUME RunBasis, RewindStage, TidyTree(fs), TreeInv', TidyTree(fs'), fs' \in Tree, NEW p, PreRemoveRmdir(p)
  PROVE  RewindStage'
<1>1. /\ fs \in Tree /\ journal \in Seq(UndoOp) /\ None \in Val /\ Fits /\ AimFits /\ plan \in Plan /\ phase = "stages"
  BY StageFacts, StageBasis DEF RunBasis, PreRemoveRmdir, In
<1>2. /\ p \in plan.rmdir /\ mid' = NoMid /\ UNCHANGED <<run, before>>
      /\ \/ fs' = Put(fs, p, Absent) /\ Journals("mkdir", p, None)
         \/ UNCHANGED <<fs, journal>>
  BY DEF PreRemoveRmdir, In, Writes, ghostVars, Journal, Journals
<1>3. p \in Path /\ fs[p] = Dir
  <2>1. p \in Path /\ fs[p] = before[p] /\ IsDir(before, p)
    BY <1>1, <1>2 DEF Plan, Fits, TreeFits, Shrinks, AimFits
  <2> QED BY <2>1 DEF TidyTree, TidyNode, IsDir
<1>4. Latest'
  BY <1>2 DEF Latest, NoMid
<1>5. CASE fs' = Put(fs, p, Absent) /\ Journals("mkdir", p, None)
  <2>1. fs'[p] = Absent /\ Adds(fs, fs', {p})
    BY <1>1, <1>3, <1>5, PutAdds
  <2>2. Undoes(fs, [kind |-> "mkdir", path |-> p, dest |-> None], fs')
    BY <1>3, <2>1 DEF Undoes, Restores
  <2> QED BY <1>1, <1>2, <1>3, <1>4, <1>5, <2>2, JournaledRewinds DEF TreeInv, UndoKind
<1> QED BY <1>2, <1>4, <1>5, StillRewinds

LEMMA BackUpRewinds ==
  ASSUME NamesApart, RunBasis, RewindStage, TreeInv', TidyTree(fs'), fs' \in Tree, NEW t \in plan.backup, BackUp(t)
  PROVE  RewindStage'
<1>1. /\ fs \in Tree /\ journal \in Seq(UndoOp) /\ None \in Val /\ plan \in Plan /\ Target \subseteq Path /\ Closed(fs)
  BY StageFacts DEF RunBasis, TreeInv
<1>2. /\ mid' = NoMid /\ UNCHANGED <<run, before>> /\ Exists(fs, t) /\ ~Exists(fs, BackupOf[t])
      /\ fs' = Rename(fs, t, BackupOf[t]) /\ Journals("restoreBackup", t, None) /\ t \in Target
  BY <1>1 DEF BackUp, In, Writes, ghostVars, Journal, Journals, CanRename, Plan
<1>3. Undoes(fs, [kind |-> "restoreBackup", path |-> t, dest |-> None], fs')
  BY <1>1, <1>2, RenameUndoes DEF Restores, Beside
<1>4. Latest'
  BY <1>2 DEF Latest, NoMid
<1> QED BY <1>1, <1>2, <1>3, <1>4, JournaledRewinds DEF TreeInv, UndoKind

LEMMA PlaceNewRewinds ==
  ASSUME RunBasis, RewindStage, TidyTree(fs), TreeInv', TidyTree(fs'), fs' \in Tree, NEW t \in plan.new, PlaceNew(t)
  PROVE  RewindStage'
<1>1. /\ fs \in Tree /\ journal \in Seq(UndoOp) /\ None \in Val /\ Fits /\ AimFits /\ phase = "stages"
      /\ Target \subseteq Path /\ IsManifest(run.next)
  BY StageFacts, StageBasis DEF RunBasis, PlaceNew, In
<1>2. /\ mid' = NoMid /\ UNCHANGED <<run, before>> /\ ~Exists(fs, t)
      /\ fs' = Put(Mkdirs(fs, t), t, LinkTo(run.next[t].src)) /\ Journals("unlinkNew", t, None)
  BY DEF PlaceNew, In, Writes, ghostVars, Journal, Journals
<1>3. t \in DOMAIN run.next /\ t \in Target /\ t \in Path
  BY <1>1, ManifestTypes DEF Fits, Shrinks, AimFits
<1>4. fs[t] = Absent
  BY <1>2, <1>3 DEF TidyTree, TidyNode, Exists
<1>5. fs'[t] = LinkTo(run.next[t].src) /\ \A r \in Path : r # t => fs'[r] = Mkdirs(fs, t)[r]
  BY <1>1, <1>2, <1>3, MkdirsTree DEF Put, Tree
<1>6. Adds(fs, fs', {t})
  BY <1>3, <1>5, MkdirsAdds DEF Adds, MadeFor
<1>7. Undoes(fs, [kind |-> "unlinkNew", path |-> t, dest |-> None], fs')
  BY <1>3, <1>4, <1>5, <1>6 DEF Undoes, Restores, IsLink, LinkTo
<1>8. Latest'
  BY <1>2 DEF Latest, NoMid
<1> QED BY <1>1, <1>2, <1>3, <1>7, <1>8, JournaledRewinds DEF TreeInv, UndoKind

LEMMA RelinkRewinds ==
  ASSUME RunBasis, RewindStage, TreeInv', TidyTree(fs'), fs' \in Tree,
         NEW t \in Relinks, RelinkUnlink(t) \/ RelinkSymlink(t)
  PROVE  RewindStage'
<1>1. /\ fs \in Tree /\ journal \in Seq(UndoOp) /\ Fits /\ AimFits /\ phase = "stages"
      /\ Target \subseteq Path /\ IsManifest(run.next) /\ UNCHANGED <<run, before>>
      /\ \A s, r \in DOMAIN run.next : s \notin Below[r]
      /\ \A s, p : Mid(s, p).step = s /\ Mid(s, p).path = p
  BY StageFacts, StageBasis DEF RunBasis, RelinkUnlink, RelinkSymlink, In, Writes, ghostVars
<1>2. t \in DOMAIN run.next /\ t \in Target /\ t \in Path
  BY <1>1, ManifestTypes DEF Fits, Shrinks, AimFits
<1>3. CASE RelinkUnlink(t)
  <2>1. /\ IsLink(fs, t) /\ fs' = Put(fs, t, Absent) /\ Journals("relinkOld", t, fs[t].val)
        /\ mid' = Mid("relink", t)
    BY <1>3 DEF RelinkUnlink, JournalRelink, Journals
  <2>2. fs[t] = LinkTo(fs[t].val) /\ fs[t].val \in Val
    BY <1>1, <1>2, <2>1 DEF Tree, Node, IsLink, LinkTo
  <2>3. Parents \cap Below[t] = {}
    <3> SUFFICES ASSUME NEW s \in DOMAIN run.next, NEW a \in Above[s], a \in Below[t] PROVE FALSE
      BY DEF Parents
    <3>1. s \in Path /\ a \in Path
      BY <1>1, ManifestTypes, AboveBelow
    <3>2. s \in Below[t]
      BY <1>2, <3>1, AboveOrder
    <3> QED BY <1>1, <1>2, <3>2
  <2>4. fs'[t] = Absent /\ Adds(fs, fs', {t})
    BY <1>1, <1>2, <2>1, PutAdds
  <2>5. Undoes(fs, [kind |-> "relinkOld", path |-> t, dest |-> fs[t].val], fs')
    BY <1>2, <2>2, <2>3, <2>4 DEF Undoes, Restores, Absent
  <2>6. Latest'
    BY <1>1, <2>1 DEF Latest
  <2> QED BY <1>1, <1>2, <2>1, <2>2, <2>5, <2>6, JournaledRewinds DEF TreeInv, UndoKind
<1>4. CASE RelinkSymlink(t)
  <2>1. /\ mid = Mid("relink", t) /\ fs' = Put(fs, t, LinkTo(run.next[t].src)) /\ mid' = NoMid /\ UNCHANGED journal
    BY <1>4 DEF RelinkSymlink
  <2>2. journal # << >> /\ Last(journal).kind = "relinkOld" /\ Last(journal).path = t
    BY <1>1, <2>1 DEF RunBasis, JournalInv
  <2>3. fs'[t].kind = "link" /\ \A r \in Path : r # t => fs'[r] = fs[r]
    BY <1>1, <1>2, <2>1 DEF Put, Tree, LinkTo
  <2>4. \A g : Undoes(g, Last(journal), fs) => Undoes(g, Last(journal), fs')
    BY <2>2, <2>3 DEF Undoes, Restores, Adds, MadeFor
  <2>5. Latest'
    BY <2>1 DEF Latest, NoMid
  <2> QED BY <1>1, <2>1, <2>2, <2>4, <2>5, ContinuedRewinds DEF TreeInv
<1> QED BY <1>3, <1>4

LEMMA AsideRewinds ==
  ASSUME NamesApart, RunBasis, RewindStage, TreeInv', TidyTree(fs'), fs' \in Tree, NEW t \in plan.copies, RecopyAside(t)
  PROVE  RewindStage'
<1>1. /\ fs \in Tree /\ journal \in Seq(UndoOp) /\ None \in Val /\ plan \in Plan /\ Target \subseteq Path /\ Closed(fs)
      /\ \A s, p : Mid(s, p).step = s /\ Mid(s, p).path = p
  BY StageFacts DEF RunBasis, TreeInv
<1>2. /\ mid' = Mid("aside", t) /\ UNCHANGED <<run, before>> /\ Exists(fs, t) /\ t \in Target
      /\ fs' = Rename(fs, t, AsideOf[t]) /\ Journals("restoreRename", t, None)
  BY <1>1 DEF RecopyAside, Writes, ghostVars, Journal, Journals, Plan
<1>3. Undoes(fs, [kind |-> "restoreRename", path |-> t, dest |-> None], fs')
  BY <1>1, <1>2, RenameUndoes DEF Restores, Beside
<1>4. Latest'
  <2>1. [kind |-> "restoreRename", path |-> t, dest |-> None] \in UndoOp
    BY <1>1, <1>2 DEF UndoOp, UndoKind
  <2>2. journal' # << >> /\ Last(journal') = [kind |-> "restoreRename", path |-> t, dest |-> None]
    BY <1>1, <1>2, <2>1, AppendLast DEF Journals
  <2> QED BY <1>1, <1>2, <2>2 DEF Latest
<1> QED BY <1>1, <1>2, <1>3, <1>4, JournaledRewinds DEF TreeInv, UndoKind

LEMMA CopyStartRewinds ==
  ASSUME NamesApart, RunBasis, RewindStage, TreeInv', TidyTree(fs'), fs' \in Tree, NEW t \in plan.copies, CopyStart(t)
  PROVE  RewindStage'
<1>1. /\ fs \in Tree /\ journal \in Seq(UndoOp) /\ None \in Val /\ Closed(fs) /\ Target \subseteq Path
      /\ \A s, p : Mid(s, p).step = s /\ Mid(s, p).path = p
      /\ UNCHANGED <<run, before>> /\ mid' = Mid("copy", t) /\ DOMAIN run.next \subseteq Target
  BY StageFacts, StageBasis DEF RunBasis, TreeInv, CopyStart, Writes, ghostVars
<1>2. t \in DOMAIN run.next /\ t \in Target /\ t \in Path
  BY CopyStage DEF RunBasis, CopyStart
<1>3. fs' = BeginCopy(Mkdirs(fs, t), run.next[t].src, t)
  BY DEF CopyStart
<1>4. \A r \in Path : r # t => fs'[r] = Mkdirs(fs, t)[r]
  BY <1>1, <1>2, <1>3, MkdirsTree DEF BeginCopy, Put, Tree
<1>5. t \in At(t) /\ \A r \in Path : r \notin At(t) => fs'[r] = fs[r] \/ MadeFor(fs', fs, r)
  BY <1>2, <1>4, MkdirsAdds DEF MadeFor, At
<1>6. CASE Journals("removeCopy", t, None)
  <2>1. \A r \in At(t) : ~Exists(fs, r)
    BY <1>1, <1>2, CopyFree, NothingUnder DEF RunBasis
  <2>2. Undoes(fs, [kind |-> "removeCopy", path |-> t, dest |-> None], fs')
    BY <1>5, <2>1 DEF Undoes, Restores, Adds
  <2>3. Latest'
    <3>1. [kind |-> "removeCopy", path |-> t, dest |-> None] \in UndoOp
      BY <1>1, <1>2 DEF UndoOp, UndoKind
    <3>2. journal' # << >> /\ Last(journal') = [kind |-> "removeCopy", path |-> t, dest |-> None]
      BY <1>1, <1>6, <3>1, AppendLast DEF Journals
    <3> QED BY <1>1, <3>2 DEF Latest
  <2> QED BY <1>1, <1>2, <1>6, <2>2, <2>3, JournaledRewinds DEF TreeInv, UndoKind
<1>7. CASE mid = Mid("aside", t) /\ UNCHANGED journal
  <2>1. journal # << >> /\ Last(journal).path = t /\ Last(journal).kind = "restoreRename"
    BY <1>1, <1>7 DEF RewindStage, Latest
  <2>2. \A r \in At(AsideOf[t]) : fs'[r] = fs[r]
    <3> SUFFICES ASSUME NEW r \in At(AsideOf[t]) PROVE fs'[r] = fs[r]
      OBVIOUS
    <3>1. r \in Path /\ r \notin At(t)
      BY <1>2, TargetsMove, MovableApart
    <3> QED BY <1>1, <1>2, <1>5, <3>1, NoParentBeside DEF MadeFor
  <2>3. \A r \in At(t) : Rebase(AsideOf[t], t, r) \in At(AsideOf[t])
    BY <1>2, TargetsMove, RenameMoves
  <2>4. \A g : Undoes(g, Last(journal), fs) => Undoes(g, Last(journal), fs')
    BY <1>5, <2>1, <2>2, <2>3, UndoesOn
  <2>5. Latest'
    BY <1>1, <1>7, <2>1 DEF Latest
  <2> QED BY <1>1, <1>7, <2>1, <2>4, <2>5, ContinuedRewinds DEF TreeInv
<1> QED BY <1>6, <1>7 DEF CopyStart, Journal, Journals

LEMMA CopyFinishRewinds ==
  ASSUME NamesApart, RunBasis, RewindStage, TreeInv', TidyTree(fs'), fs' \in Tree, NEW t \in plan.copies, CopyFinish(t)
  PROVE  RewindStage'
<1>1. /\ fs \in Tree /\ journal \in Seq(UndoOp) /\ Target \subseteq Path
      /\ \A s, p : Mid(s, p).step = s /\ Mid(s, p).path = p
      /\ UNCHANGED <<journal, run, before>> /\ mid = Mid("copy", t) /\ mid' = NoMid
  BY StageFacts DEF RunBasis, CopyFinish, Writes, ghostVars
<1>2. /\ t \in DOMAIN run.next /\ t \in Target /\ t \in Path /\ t \in Copies(run.next)
      /\ \A s \in Copies(run.next) : run.next[s].src \in DirSrc => LeafOf(s) \in Path
  BY CopyStage DEF RunBasis, CopyFinish
<1>3. journal # << >> /\ Last(journal).path = t /\ Last(journal).kind \in {"removeCopy", "restoreRename"}
  BY <1>1 DEF RewindStage, Latest
<1>4. \A r \in Path : r \notin At(t) => fs'[r] = fs[r]
  <2>1. t \in At(t) /\ (run.next[t].src \in DirSrc => LeafOf(t) \in At(t))
    BY <1>2, LeafIs DEF At
  <2>2. fs' = fs \/ fs' = EndCopy(fs, run.next[t].src, t)
    BY DEF CopyFinish
  <2> QED BY <1>1, <2>1, <2>2 DEF EndCopy, Put, Tree
<1>5. /\ \A r \in At(AsideOf[t]) : fs'[r] = fs[r]
      /\ \A r \in At(t) : Rebase(AsideOf[t], t, r) \in At(AsideOf[t])
  BY <1>2, <1>4, TargetsMove, MovableApart, RenameMoves
<1>6. \A g : Undoes(g, Last(journal), fs) => Undoes(g, Last(journal), fs')
  BY <1>3, <1>4, <1>5, UndoesOn
<1>7. Latest'
  BY <1>1 DEF Latest, NoMid
<1> QED BY <1>1, <1>3, <1>6, <1>7, ContinuedRewinds DEF TreeInv

LEMMA RemoveRewinds ==
  ASSUME RunBasis, RewindStage, TreeInv', TidyTree(fs'), fs' \in Tree, NEW t \in plan.remove, RemoveStale(t)
  PROVE  RewindStage'
<1>1. /\ fs \in Tree /\ journal \in Seq(UndoOp) /\ IsManifest(run.base) /\ Target \subseteq Path
      /\ UNCHANGED <<run, before>> /\ mid = NoMid /\ \A p : Mid("prune", p).step = "prune"
  BY StageFacts DEF RunBasis, RemoveStale, InStale, In, Writes, ghostVars
<1>2. \/ /\ t \in DOMAIN run.base /\ fs[t] = LinkTo(run.base[t].src) /\ fs' = Put(fs, t, Absent)
         /\ Journals("relinkOld", t, run.base[t].src) /\ mid' = Mid("prune", t)
      \/ UNCHANGED <<fs, journal, mid>>
  BY DEF RemoveStale, StillStale, RecordedLink, JournalRelink, Journals
<1>3. Latest'
  BY <1>1, <1>2 DEF Latest, NoMid
<1>4. CASE UNCHANGED <<fs, journal, mid>>
  BY <1>1, <1>3, <1>4, StillRewinds
<1>5. CASE ~UNCHANGED <<fs, journal, mid>>
  <2>1. /\ t \in DOMAIN run.base /\ fs[t] = LinkTo(run.base[t].src) /\ fs' = Put(fs, t, Absent)
        /\ Journals("relinkOld", t, run.base[t].src)
    BY <1>2, <1>5
  <2>2. t \in Target /\ t \in Path /\ run.base[t].src \in Val
    BY <1>1, <2>1, ManifestTypes
  <2>3. Parents \cap Below[t] = {}
    BY <2>1 DEF RewindStage, Shallow, Parents
  <2>4. fs'[t] = Absent /\ Adds(fs, fs', {t})
    BY <1>1, <2>1, <2>2, PutAdds
  <2>5. Undoes(fs, [kind |-> "relinkOld", path |-> t, dest |-> run.base[t].src], fs')
    BY <2>1, <2>2, <2>3, <2>4 DEF Undoes, Restores, Absent
  <2> QED BY <1>1, <1>3, <2>1, <2>2, <2>5, JournaledRewinds DEF TreeInv, UndoKind
<1> QED BY <1>4, <1>5

LEMMA PruneRewinds ==
  ASSUME RunBasis, RewindStage, TidyTree(fs), TreeInv', TidyTree(fs'), fs' \in Tree, phase = "stages", PruneAncestor
  PROVE  RewindStage'
<1> DEFINE up == Front(mid.path)
<1>1. /\ fs \in Tree /\ journal \in Seq(UndoOp) /\ None \in Val /\ Fits /\ NoMid.step = "none"
      /\ UNCHANGED <<run, before>> /\ mid.step = "prune" /\ \A p : Mid("prune", p).step = "prune"
  BY StageFacts, StageBasis DEF RunBasis, PruneAncestor, Writes, ghostVars
<1>2. \/ /\ up \in Path /\ fs' = Put(fs, up, Absent) /\ Journals("mkdir", up, None) /\ mid' = Mid("prune", up)
      \/ mid' = NoMid /\ UNCHANGED <<fs, journal>>
  BY DEF PruneAncestor, Journal, Journals
<1>3. Latest'
  BY <1>1, <1>2 DEF Latest
<1>4. CASE UNCHANGED <<fs, journal>>
  BY <1>1, <1>3, <1>4, StillRewinds
<1>5. CASE ~UNCHANGED <<fs, journal>>
  <2>1. up \in Path /\ fs' = Put(fs, up, Absent) /\ Journals("mkdir", up, None)
    BY <1>2, <1>5
  <2>2. fs[up] = Dir
    <3>1. mid.path \in Path /\ InRealDir(fs, mid.path)
      BY <1>1, PrunedPath DEF RunBasis, Fits, Midway
    <3>2. IsDir(fs, up)
      BY <2>1, <3>1, FrontAbove DEF InRealDir
    <3> QED BY <2>1, <3>2 DEF TidyTree, TidyNode, IsDir
  <2>3. fs'[up] = Absent /\ Adds(fs, fs', {up})
    BY <1>1, <2>1, PutAdds
  <2> HIDE DEF up
  <2>4. Undoes(fs, [kind |-> "mkdir", path |-> up, dest |-> None], fs')
    BY <2>1, <2>2, <2>3 DEF Undoes, Restores
  <2> QED BY <1>1, <1>3, <2>1, <2>4, JournaledRewinds DEF TreeInv, UndoKind
<1> QED BY <1>4, <1>5

-----------------------------------------------------------------------------
(* The invariant of a run and of its unwinding.                             *)

\* Undoing what is left of the journal leads back from here.
Unwinds == \E H : Rewinds(H) /\ Over(fs, H[Len(journal)], Loose(journal))

RewindInv ==
  /\ phase = "stages" => RewindStage
  /\ phase = "unwind" => Unwinds

\* A run begins with nothing to undo.
LEMMA BeginRewinds ==
  ASSUME journal = << >>, UNCHANGED <<fs, journal>>, before' = fs, fs \in Tree, Closed(fs), TidyTree(fs)
  PROVE  \E H : Rewinds(H)' /\ H[Len(journal')] = fs'
<1>1. PICK H : H = [i \in {0} |-> fs]
  OBVIOUS
<1>2. Len(journal') = 0 /\ DOMAIN journal' = {} /\ 0 .. 0 = {0}
  OBVIOUS
<1>3. H \in [{0} -> Tree] /\ H[0] = fs
  BY <1>1
<1>4. Rewinds(H)'
  BY <1>2, <1>3 DEF Rewinds
<1> QED BY <1>2, <1>3, <1>4

LEMMA BaselineShallow ==
  ASSUME MigrationsShallow, IInv, RecordFits, NEW m \in Manifests
  PROVE  Shallow(Baseline, m)
<1>1. HasBaseline => BaselineFarm \in Manifests /\ DOMAIN Baseline \subseteq DOMAIN BaselineFarm
  BY BaselineType, BaselineWithin DEF Within
<1>2. ~HasBaseline => DOMAIN Baseline = {}
  BY DEF HasBaseline, Baseline, NoEntries, IInv, TypeOK
<1>3. HasBaseline => Shallow(BaselineFarm, m)
  BY <1>1 DEF MigrationsShallow
<1> QED BY <1>1, <1>2, <1>3 DEF Shallow

\* A failing stage leaves at most parent directories its journal does not name.
LEMMA FailedUnwinds ==
  ASSUME RewindStage, UNCHANGED <<journal, run, before>>,
         fs' = fs \/ \E t \in DOMAIN run.next : fs' = Mkdirs(fs, t)
  PROVE  Unwinds'
<1>1. PICK H : Rewinds(H) /\ H[Len(journal)] = fs
  BY DEF RewindStage
<1>2. \A p \in Path : fs'[p] = fs[p] \/ MadeFor(fs', fs, p)
  BY MkdirsAdds
<1>3. Rewinds(H)'
  BY <1>1, RewindStays
<1>4. Over(fs, H[Len(journal)], Loose(journal))'
  BY <1>1, <1>2 DEF Over, OverAt, MadeFor, Parents
<1> QED BY <1>3, <1>4 DEF Unwinds

LEMMA StuckUnwinds ==
  ASSUME NamesApart, RunBasis, RewindStage, TreeInv', TidyTree(fs'), fs' \in Tree,
         NEW t \in plan.copies, CopyStuck(t)
  PROVE  Unwinds'
<1>1. UNCHANGED <<run, before>> /\ journal \in Seq(UndoOp) /\ fs \in Tree /\ None \in Val /\ Closed(fs)
  BY StageFacts DEF RunBasis, TreeInv, CopyStuck, ghostVars
<1>2. CASE UNCHANGED <<fs, journal>>
  BY <1>1, <1>2, FailedUnwinds
<1>3. CASE ~UNCHANGED <<fs, journal>>
  <2>1. In("copy") /\ fs' = Mkdirs(fs, t) /\ journal' = Journal("removeCopy", t)
    BY <1>3 DEF CopyStuck
  <2>2. phase = "stages" /\ ~Exists(fs, t)
    BY <2>1, CopyFree DEF RunBasis, In
  <2>3. t \in DOMAIN run.next /\ t \in Path
    BY <2>1, <2>2, CopyStage DEF RunBasis
  <2>4. \A r \in At(t) : ~Exists(fs, r)
    BY <1>1, <2>2, <2>3, NothingUnder
  <2>5. PICK op : op = [kind |-> "removeCopy", path |-> t, dest |-> None]
    OBVIOUS
  <2>6. Adds(fs, fs', At(t))
    BY <2>1, <2>3, MkdirsAdds DEF Adds
  <2>7. op \in UndoOp /\ journal' = Append(journal, op) /\ Undoes(fs, op, fs')
    BY <1>1, <2>1, <2>3, <2>4, <2>5, <2>6 DEF UndoOp, UndoKind, Journal, Undoes, Restores
  <2>8. PICK H : Rewinds(H) /\ H[Len(journal)] = fs
    BY DEF RewindStage
  <2>9. PICK G : Rewinds(G)' /\ G[Len(journal')] = fs'
    BY <1>1, <2>7, <2>8, RewindPush DEF TreeInv
  <2>10. Over(fs, G[Len(journal)], Loose(journal))'
    BY <2>9 DEF Over, OverAt
  <2> QED BY <2>9, <2>10 DEF Unwinds
<1> QED BY <1>2, <1>3

LEMMA StageRewinds ==
  ASSUME NamesApart, RunBasis, RunBasis', TidyInv, TidyInv', RewindInv, StageStep
  PROVE  RewindInv'
<1>1. phase \in {"stages", "teardown"} /\ (phase' = phase \/ phase' = "unwind")
  BY StageStarted, StagePhase
<1>2. TidyTree(fs) /\ TidyTree(fs') /\ TreeInv' /\ fs' \in Tree
  BY DEF TidyInv, RunBasis, IInv, TypeOK
<1>3. CASE phase = "teardown"
  <2>1. ASSUME NEW p, PreRemoveUnlink(p) \/ PreRemoveRmdir(p) \/ BackUp(p) \/ PlaceNew(p) \/ RelinkUnlink(p)
               \/ RelinkSymlink(p) \/ RecopyAside(p) \/ CopyStart(p) \/ CopyFinish(p) \/ CopyStuck(p)
        PROVE FALSE
    BY <1>3, <2>1 DEF PreRemoveUnlink, PreRemoveRmdir, BackUp, PlaceNew, RelinkUnlink, RelinkSymlink, RecopyAside,
                      CopyStart, CopyFinish, CopyStuck, In
  <2>2. ASSUME NEW p, StageStuck(p) PROVE FALSE
    BY <1>3, <2>2 DEF StageStuck, Refuses, In
  <2>3. ASSUME NEW p, ResetCopy(p) \/ RemoveStale(p) \/ PruneAncestor PROVE phase' = "teardown"
    BY <1>3, <2>3 DEF ResetCopy, RemoveStale, PruneAncestor, Writes
  <2>4. phase' = "teardown"
    BY <2>1, <2>2, <2>3 DEF StageStep
  <2> QED BY <2>4 DEF RewindInv
<1>4. CASE phase = "stages"
  <2>1. RewindStage
    BY <1>4 DEF RewindInv
  <2>2. CASE \E p \in plan.unlink : PreRemoveUnlink(p)
    BY <1>2, <2>1, <2>2, UnlinkRewinds, <1>4 DEF RewindInv, PreRemoveUnlink, Writes
  <2>3. CASE \E p \in plan.rmdir : PreRemoveRmdir(p)
    BY <1>2, <1>4, <2>1, <2>3, RmdirRewinds DEF RewindInv, PreRemoveRmdir, Writes
  <2>4. CASE \E t \in plan.backup : BackUp(t)
    BY <1>2, <1>4, <2>1, <2>4, BackUpRewinds DEF RewindInv, BackUp, Writes
  <2>5. CASE \E t \in plan.new : PlaceNew(t)
    BY <1>2, <1>4, <2>1, <2>5, PlaceNewRewinds DEF RewindInv, PlaceNew, Writes
  <2>6. CASE \E t \in Relinks : RelinkUnlink(t) \/ RelinkSymlink(t)
    BY <1>2, <1>4, <2>1, <2>6, RelinkRewinds DEF RewindInv, RelinkUnlink, RelinkSymlink, Writes
  <2>7. CASE \E t \in plan.copies : RecopyAside(t)
    BY <1>2, <1>4, <2>1, <2>7, AsideRewinds DEF RewindInv, RecopyAside, Writes
  <2>8. CASE \E t \in plan.copies : CopyStart(t)
    BY <1>2, <1>4, <2>1, <2>8, CopyStartRewinds DEF RewindInv, CopyStart, Writes
  <2>9. CASE \E t \in plan.copies : CopyFinish(t)
    BY <1>2, <1>4, <2>1, <2>9, CopyFinishRewinds DEF RewindInv, CopyFinish, Writes
  <2>10. CASE \E t \in plan.copies : CopyStuck(t)
    BY <1>2, <2>1, <2>10, StuckUnwinds DEF RewindInv, CopyStuck
  <2>11. CASE \E t \in plan.copies : ResetCopy(t)
    BY <1>4, <2>11 DEF ResetCopy
  <2>12. CASE \E t \in plan.remove : RemoveStale(t)
    BY <1>2, <1>4, <2>1, <2>12, RemoveRewinds DEF RewindInv, RemoveStale, Writes
  <2>13. CASE PruneAncestor
    BY <1>2, <1>4, <2>1, <2>13, PruneRewinds DEF RewindInv, PruneAncestor, Writes
  <2>14. CASE \E p \in Path : StageStuck(p)
    BY <2>1, <2>14, FailedUnwinds DEF RewindInv, StageStuck, Fails
  <2> QED BY <2>2, <2>3, <2>4, <2>5, <2>6, <2>7, <2>8, <2>9, <2>10, <2>11, <2>12, <2>13, <2>14 DEF StageStep
<1> QED BY <1>1, <1>3, <1>4

LEMMA StartRewinds ==
  ASSUME MigrationsShallow, RunBasis, TidyInv, Start
  PROVE  RewindInv'
<1>1. /\ phase = "idle" /\ fs' = fs /\ before = fs /\ journal = << >> /\ mid = NoMid /\ NoMid.step = "none"
      /\ fs \in Tree /\ Closed(fs) /\ TidyTree(fs)
      /\ phase' \in {"stages", "unwind"} => UNCHANGED <<journal, mid>> /\ run'.base = Baseline
  BY StartIs, StageFacts DEF StartFacts, RunBasis, JournalInv, IdleFits, TreeInv, TidyInv, NoMid
<1>2. phase' # "idle" => before' = before
  <2>1. ASSUME Refuse PROVE phase' = "idle"
    BY <2>1 DEF Refuse, End
  <2>2. ASSUME NEW r, NEW p, NEW C, NEW ph, Begin(r, p, C, ph) PROVE before' = before
    BY <2>2 DEF Begin
  <2>3. ASSUME NEW r, NEW p, Ask(r, p) PROVE before' = before
    BY <2>3 DEF Ask
  <2>4. ASSUME NEW m \in Manifests, NEW mod \in Modifiers, StartApply(m, mod) PROVE phase' # "idle" => before' = before
    BY <2>1, <2>2, <2>4 DEF StartApply
  <2>5. ASSUME StartRollback PROVE phase' # "idle" => before' = before
    BY <2>1, <2>2, <2>5 DEF StartRollback
  <2>6. ASSUME NEW T \in SUBSET DOMAIN Baseline, StartReset(T) PROVE phase' # "idle" => before' = before
    BY <2>1, <2>2, <2>3, <2>6 DEF StartReset
  <2> QED BY <2>4, <2>5, <2>6 DEF Start
<1>3. CASE phase' = "stages"
  <2>1. PICK m, backup, recopy, skip : Begun(m, backup, recopy, skip)
    BY <1>3, StartBegins DEF RunBasis
  <2>2. m \in Manifests /\ run'.base = Baseline /\ run'.next = m
    BY <2>1 DEF Begun
  <2>3. Shallow(run.base, run.next)'
    BY <2>2, BaselineShallow DEF RunBasis, Shallow
  <2>4. Latest'
    BY <1>1, <1>3 DEF Latest
  <2>5. \E H : Rewinds(H)' /\ H[Len(journal')] = fs'
    BY <1>1, <1>2, <1>3, BeginRewinds
  <2> QED BY <1>3, <2>3, <2>4, <2>5 DEF RewindInv, RewindStage
<1>4. CASE phase' = "unwind"
  <2>1. PICK H : Rewinds(H)' /\ H[Len(journal')] = fs'
    BY <1>1, <1>2, <1>4, BeginRewinds
  <2>2. Over(fs, H[Len(journal)], Loose(journal))'
    BY <2>1 DEF Over, OverAt
  <2>3. Unwinds'
    BY <2>1, <2>2 DEF Unwinds
  <2> QED BY <1>4, <2>3 DEF RewindInv
<1> QED BY <1>3, <1>4 DEF RewindInv

LEMMA UndoRewinds ==
  ASSUME NamesApart, NamesDiffer, RunBasis, RewindInv, UndoStep
  PROVE  RewindInv'
<1>1. /\ phase = "unwind" /\ phase' = "unwind" /\ journal # << >> /\ UNCHANGED <<run, before>>
      /\ fs' = Undo(fs, Last(journal)) /\ journal' = Front(journal)
  BY DEF UndoStep, ghostVars
<1>2. /\ journal \in Seq(UndoOp) /\ JournalFits /\ RestoresOnce(journal) /\ Target \subseteq Path
      /\ DOMAIN run.next \subseteq Target /\ fs \in Tree
  BY StageFacts, ManifestTypes DEF RunBasis, TreeInv, JournalInv
<1>3. PICK H : Rewinds(H) /\ Over(fs, H[Len(journal)], Loose(journal))
  BY <1>1 DEF RewindInv, Unwinds
<1>4. Unwinds'
  BY <1>1, <1>2, <1>3, RewindPop DEF Unwinds
<1> QED BY <1>1, <1>4 DEF RewindInv

LEMMA FailureRewinds ==
  ASSUME RunBasis, RewindInv, Failure
  PROVE  RewindInv'
<1>1. CASE StageFault
  <2>1. RewindStage /\ phase' = "unwind" /\ UNCHANGED <<journal, run, before>> /\ AimFits /\ Fits
    BY <1>1, StageBasis DEF StageFault, Fails, RewindInv, RunBasis
  <2>2. plan.new \cup plan.copies \subseteq DOMAIN run.next
    BY <2>1, StageFacts, AimApart DEF RunBasis, Fits, Shrinks, Symlinks, Copies
  <2>3. fs' = fs \/ \E t \in DOMAIN run.next : fs' = Mkdirs(fs, t)
    BY <1>1, <2>2 DEF StageFault
  <2> QED BY <2>1, <2>3, FailedUnwinds DEF RewindInv
<1>2. CASE PruneFault
  <2>1. UNCHANGED <<fs, journal, run, before, phase>> /\ mid' = NoMid /\ phase \in {"stages", "teardown"}
    BY <1>2 DEF PruneFault
  <2>2. Latest'
    BY <2>1 DEF Latest, NoMid
  <2> QED BY <2>1, <2>2, StillRewinds DEF RewindInv
<1>3. CASE ResetFault
  BY <1>3 DEF ResetFault, RewindInv
<1>4. CASE CommitFault \/ ResetRecordFault
  BY <1>4 DEF CommitFault, ResetRecordFault, End, RewindInv
<1> QED BY <1>1, <1>2, <1>3, <1>4 DEF Failure

LEMMA NextRewinds ==
  ASSUME NamesApart, NamesDiffer, EntriesApart, MigrationsShallow
  PROVE  RunBasis /\ RunBasis' /\ TidyInv /\ TidyInv' /\ RewindInv /\ [Next]_vars => RewindInv'
<1> SUFFICES ASSUME RunBasis, RunBasis', TidyInv, TidyInv', RewindInv, [Next]_vars PROVE RewindInv'
  OBVIOUS
<1>1. CASE Finish
  <2>1. CASE UndoStep
    BY <2>1, UndoRewinds
  <2>2. CASE WriteRecord \/ Commit \/ DiscardJournal \/ Unwound \/ RecordAfterReset
    BY <2>2 DEF WriteRecord, Commit, DiscardJournal, Unwound, RecordAfterReset, End, RewindInv
  <2> QED BY <1>1, <2>1, <2>2 DEF Finish
<1>2. CASE Crash
  BY <1>2 DEF Crash, End, RewindInv
<1>3. CASE UserStep
  <2>1. phase' = "idle"
    BY <1>3 DEF EntriesApart, UserStep, UserWrite, UserMkdir, UserRelink, UserDelete, UserMay, Edited
  <2> QED BY <2>1 DEF RewindInv
<1>4. CASE UNCHANGED vars
  <2>1. UNCHANGED <<fs, journal, run, before, phase, mid>>
    BY <1>4 DEF vars, engineVars, ghostVars
  <2>2. CASE phase = "stages"
    BY <2>1, <2>2, StillRewinds DEF RewindInv, RewindStage, Latest
  <2>3. CASE phase = "unwind"
    <3>1. PICK H : Rewinds(H) /\ Over(fs, H[Len(journal)], Loose(journal))
      BY <2>3 DEF RewindInv, Unwinds
    <3>2. Rewinds(H)'
      BY <2>1, <3>1, RewindStays
    <3>3. Over(fs, H[Len(journal)], Loose(journal))'
      BY <2>1, <3>1 DEF Over, OverAt, MadeFor, Parents
    <3> QED BY <2>1, <2>3, <3>2, <3>3 DEF RewindInv, Unwinds
  <2> QED BY <2>1, <2>2, <2>3 DEF RewindInv
<1>5. CASE AnswerReset
  BY <1>5 DEF AnswerReset, Refuse, End, RewindInv
<1> QED BY <1>1, <1>2, <1>3, <1>4, <1>5, StageRewinds, StartRewinds, FailureRewinds DEF Next, RunStep

\* When a failed run has unwound its journal, everything that was there before
\* it is there again, and what it leaves are empty parent directories and spent
\* asides: of two manifests of the profile, none has an entry two or more levels
\* below an entry of the other (undo.go unwind, engine.go runJournaled).
THEOREM UnwindingRestores ==
  ASSUME NamesApart, NamesDiffer, EntriesApart, MigrationsShallow
  PROVE  Spec => []UnwindRestores
<1>1. Init => RunBasis /\ TidyInv /\ RewindInv
  BY InitBasis, InitTidy DEF Init, RewindInv
<1>2. RunBasis /\ TidyInv /\ RewindInv /\ [Next]_vars => (RunBasis /\ TidyInv /\ RewindInv)'
  <2>1. RunBasis => IInv
    BY DEF RunBasis
  <2> QED BY <2>1, NextBasis, NextTidy, NextRewinds
<1>3. TidyInv /\ RewindInv => UnwindRestores
  <2> SUFFICES ASSUME TidyInv, RewindInv, phase = "unwind", journal = << >>, NEW p \in Path \ AsidePath
               PROVE  IF Exists(before, p) THEN fs[p] = before[p] ELSE fs[p] \in {Absent, Dir}
    BY DEF UnwindRestores
  <2>1. PICK H : Rewinds(H) /\ Over(fs, H[Len(journal)], Loose(journal))
    BY DEF RewindInv, Unwinds
  <2>2. Len(journal) = 0 /\ H[0] = before
    BY <2>1 DEF Rewinds
  <2>3. p \notin Loose(journal)
    BY DEF Loose, AsidePath
  <2>4. fs[p] = before[p] \/ (~Exists(before, p) /\ fs[p] = Dir)
    BY <2>1, <2>2, <2>3 DEF Over, OverAt, MadeFor
  <2>5. ~Exists(before, p) => before[p] = Absent
    BY DEF TidyInv, TidyTree, TidyNode, Exists
  <2> QED BY <2>4, <2>5
<1> QED BY <1>1, <1>2, <1>3, PTL DEF Spec

-----------------------------------------------------------------------------
(* What an interrupted apply leaves can be applied to again. Until the run  *)
(* is over, each path has what it had, or what the new manifest wants, or   *)
(* something on the way from one to the other that no plan objects to.      *)

MayHold(p, n) ==
  \/ n \in {before[p], Absent}
  \/ p \in Parents /\ n = Dir
  \/ p \in Symlinks(run.next) /\ n.kind = "link"
  \/ p \in Copies(run.next) /\ n.kind = (IF run.next[p].src \in DirSrc THEN "dir" ELSE "file")
  \/ \E s \in Copies(run.next) : p \in Below[s] \cup At(AsideOf[s])

\* Undoing op on f brings nothing else.
Brings(f, op) ==
  /\ op.kind = "relinkOld" => op.path \in Target /\ MayHold(op.path, LinkTo(op.dest))
  /\ op.kind = "mkdir" => MayHold(op.path, Dir) /\ \A s \in Copies(run.next) : op.path # AsideOf[s]
  /\ op.kind = "restoreRename" => op.path \in Copies(run.next) /\ MayHold(op.path, f[AsideOf[op.path]])
  /\ op.kind # "restoreBackup"

HalfWay ==
  /\ \A p \in Path : MayHold(p, fs[p])
  /\ \A i \in DOMAIN journal : Brings(fs, journal[i])

\* The plan the run set out with was accepted.
Sound ==
  /\ Closed(before) /\ Apart(run.base, run.next)
  /\ Whole.conflicts = {} /\ ~Whole.failed

LEMMA SoundBefore ==
  ASSUME IInv, Sound, ~run.backup
  PROVE  /\ \A t \in DOMAIN run.next : \A q \in Above[t] :
              ~IsFile(before, q) /\ (IsLink(before, q) => Dropped(before, run.base, run.next, q))
         /\ \A t \in Symlinks(run.next) :
              ~IsFile(before, t) /\ (IsDir(before, t) => Migratable(before, run.base, run.next, t))
         /\ \A t \in Copies(run.next) :
              Exists(before, t) /\ t \notin Swapped(before, run.base, run.next)
                => ~StructureMismatch(before, run.next, t)
         /\ \A t \in Symlinks(run.base) \ DOMAIN run.next : \A q \in Above[t] : ~IsFile(before, q)
<1>1. /\ before \in Tree /\ Closed(before) /\ IsManifest(run.next) /\ IsManifest(run.base) /\ run.backup = FALSE
      /\ Whole.conflicts = {} /\ ~Whole.failed
  BY DEF IInv, TypeOK, IsRun, Sound
<1>2. /\ DOMAIN run.next \subseteq Path /\ DOMAIN run.base \subseteq Path
      /\ Symlinks(run.next) \subseteq DOMAIN run.next /\ Copies(run.next) \subseteq DOMAIN run.next
      /\ Symlinks(run.base) \subseteq DOMAIN run.base
  BY <1>1, ManifestTypes
<1>3. /\ UnderLink(before, run.next) \subseteq Beneath(before, run.base, run.next)
      /\ Blocked(before, run.base, run.next) = {}
      /\ \A t \in DOMAIN run.next \cup Stale(before, run.base, run.next, FALSE) : ~NotDirAbove(before, t)
  BY <1>1 DEF Whole, Compute, Stuck
<1>4. ASSUME NEW t \in DOMAIN run.next, Exists(before, t) PROVE t \notin UnderLink(before, run.next)
  BY <1>1, <1>2, <1>4 DEF Closed, InRealDir, UnderLink, SymlinksAbove, IsLink, IsDir
<1>5. ASSUME NEW t \in DOMAIN run.next, NEW q \in Above[t]
      PROVE  ~IsFile(before, q) /\ (IsLink(before, q) => Dropped(before, run.base, run.next, q))
  BY <1>3 DEF NotDirAbove, UnderLink, Beneath, SymlinksAbove
<1>6. ASSUME NEW t \in Symlinks(run.next)
      PROVE  ~IsFile(before, t) /\ (IsDir(before, t) => Migratable(before, run.base, run.next, t))
  BY <1>2, <1>3, <1>4 DEF Blocked, Links, Occupied, Migrated, IsFile, IsDir, Exists
<1>7. ASSUME NEW t \in Copies(run.next), Exists(before, t), t \notin Swapped(before, run.base, run.next)
      PROVE  ~StructureMismatch(before, run.next, t)
  BY <1>2, <1>3, <1>4, <1>7 DEF Blocked, Mismatched, Present
<1>8. ASSUME NEW t \in Symlinks(run.base) \ DOMAIN run.next, NEW q \in Above[t], IsFile(before, q) PROVE FALSE
  <2>1. t \in Path /\ ~Exists(before, t)
    BY <1>1, <1>2, <1>8 DEF Closed, InRealDir, IsFile, IsDir
  <2>2. t \notin Unlinked(before, run.base, run.next)
    BY <2>1 DEF Unlinked, Ancestors, SymlinksAbove, Swapped, RecordedLink, LinkTo, IsLink, Exists
  <2>3. t \in Stale(before, run.base, run.next, FALSE)
    BY <2>2 DEF Stale, Leaving
  <2> QED BY <1>3, <1>8, <2>3 DEF NotDirAbove
<1> QED BY <1>5, <1>6, <1>7, <1>8

LEMMA AsidesApart ==
  ASSUME NamesApart, NEW m, IsManifest(m), Unnested(m), NEW s \in DOMAIN m, NEW t \in DOMAIN m
  PROVE  /\ AsideOf[s] \in Path /\ AsideOf[s] \notin Target /\ AsideOf[s] \notin At(t)
         /\ t \notin At(AsideOf[s])
         /\ \A q \in Above[t] : q \notin At(AsideOf[s])
         /\ \A q \in Below[t] : q \notin At(AsideOf[s])
<1>1. s \in Target /\ t \in Target /\ s \in Path /\ t \in Path /\ AsideOf[s] \in Path \ Target
  BY ManifestTypes, EngineAssumption
<1>2. Above[AsideOf[s]] = Above[s] /\ At(AsideOf[s]) \cap Target = {}
  BY <1>1 DEF NamesApart
<1>3. AsideOf[s] \notin At(t)
  <2>1. t \notin Above[s]
    BY <1>1, AboveOrder DEF Unnested
  <2> QED BY <1>1, <1>2, <2>1, AtOrder
<1>4. ASSUME NEW q \in Above[t], q \in At(AsideOf[s]) PROVE FALSE
  <2>1. q \in Path
    BY <1>1, AboveBelow
  <2> QED BY <1>1, <1>2, <1>4, <2>1, AtOrder
<1>5. ASSUME NEW q \in Below[t], q \in At(AsideOf[s]) PROVE FALSE
  <2>1. q \in Path /\ q \in At(t)
    BY <1>1, AboveBelow DEF At
  <2> QED BY <1>1, <1>2, <1>3, <1>5, <2>1, AtOrder
<1> QED BY <1>1, <1>2, <1>3, <1>4, <1>5

\* The plan made of a tree that is half-way has no conflicts.
LEMMA HalfWayAccepted ==
  ASSUME NamesApart, IInv, Sound, ~run.backup, HalfWay
  PROVE  LET p == Compute(fs, run.base, run.next, run.backup) IN p.conflicts = {} /\ ~p.failed
<1> DEFINE prev == run.base
           next == run.next
<1>1. /\ fs \in Tree /\ before \in Tree /\ Closed(before) /\ IsManifest(next) /\ IsManifest(prev)
      /\ run.backup = FALSE /\ Unnested(next) /\ \A s \in Copies(next), t \in DOMAIN prev : t \notin Below[s]
  BY DEF IInv, TypeOK, IsRun, Sound, Apart
<1>2. /\ DOMAIN next \subseteq Path /\ DOMAIN prev \subseteq Path /\ DOMAIN prev \subseteq Target
      /\ Symlinks(next) \subseteq DOMAIN next /\ Copies(next) \subseteq DOMAIN next
      /\ Symlinks(next) \cap Copies(next) = {} /\ Symlinks(prev) \subseteq DOMAIN prev
  BY <1>1, ManifestTypes DEF Symlinks, Copies
<1>3. ASSUME NEW t \in DOMAIN next, NEW q \in Above[t]
      PROVE  q \in Path /\ fs[q] \in {before[q], Absent, Dir}
  <2>1. q \in Path /\ t \in Path /\ t \in Below[q]
    BY <1>2, AboveBelow, AboveOrder
  <2>2. q \notin DOMAIN next
    BY <1>1, <2>1 DEF Unnested
  <2>3. \A s \in Copies(next) : q \notin Below[s] /\ q \notin At(AsideOf[s])
    <3> SUFFICES ASSUME NEW s \in Copies(next) PROVE q \notin Below[s] /\ q \notin At(AsideOf[s])
      OBVIOUS
    <3>1. q \in Below[s] => t \in Below[s]
      BY <1>2, <2>1, AboveOrder
    <3> QED BY <1>1, <1>2, <3>1, AsidesApart DEF Unnested
  <2> QED BY <1>2, <2>1, <2>2, <2>3 DEF HalfWay, MayHold
<1>4. ASSUME NEW t \in DOMAIN next
      PROVE  /\ t \notin Parents
             /\ \A s \in Copies(next) : t \notin Below[s] \cup At(AsideOf[s])
  <2>1. t \notin Parents
    BY <1>1, <1>2, AboveOrder DEF Parents, Unnested
  <2>2. \A s \in Copies(next) : t \notin Below[s] \cup At(AsideOf[s])
    BY <1>1, <1>2, AsidesApart DEF Unnested
  <2> QED BY <2>1, <2>2
<1>5. ASSUME NEW t \in Symlinks(next) PROVE fs[t] \in {before[t], Absent} \/ fs[t].kind = "link"
  BY <1>2, <1>4 DEF HalfWay, MayHold
<1>6. ASSUME NEW t \in Copies(next)
      PROVE  \/ fs[t] \in {before[t], Absent}
             \/ fs[t].kind = (IF next[t].src \in DirSrc THEN "dir" ELSE "file")
  BY <1>2, <1>4 DEF HalfWay, MayHold
<1>7. ASSUME NEW t \in Symlinks(next), NEW q \in Below[t]
      PROVE  q \in Path /\ fs[q] \in {before[q], Absent, Dir}
  <2>1. q \in Path /\ t \in Path /\ t \in DOMAIN next
    BY <1>2, AboveBelow
  <2>2. q \notin DOMAIN next
    BY <1>1, <2>1 DEF Unnested
  <2>3. \A s \in Copies(next) : q \notin Below[s] /\ q \notin At(AsideOf[s])
    <3> SUFFICES ASSUME NEW s \in Copies(next) PROVE q \notin Below[s] /\ q \notin At(AsideOf[s])
      OBVIOUS
    <3>1. s \in Path /\ s # t /\ s \notin Below[t] /\ t \notin Below[s]
      BY <1>1, <1>2, <2>1 DEF Unnested
    <3>2. q \in Below[s] => FALSE
      BY <2>1, <3>1, AboveOrder
    <3> QED BY <1>1, <1>2, <3>2, AsidesApart
  <2> QED BY <1>2, <2>1, <2>2, <2>3 DEF HalfWay, MayHold
<1>8. ASSUME NEW t \in DOMAIN prev, NEW q \in Above[t], IsFile(fs, q) PROVE IsFile(before, q)
  <2>1. q \in Path /\ t \in Path /\ t \in Target /\ t \in Below[q]
    BY <1>2, AboveBelow, AboveOrder
  <2>2. ASSUME NEW s \in Copies(next) PROVE q # s /\ q \notin Below[s] /\ q \notin At(AsideOf[s])
    <3>1. q \in Below[s] => t \in Below[s]
      BY <1>2, <2>1, AboveOrder
    <3>2. AsideOf[s] \in Path /\ At(AsideOf[s]) \cap Target = {}
      BY <1>1, <1>2, ManifestTypes, EngineAssumption DEF NamesApart
    <3>3. q \in At(AsideOf[s]) => t \in At(AsideOf[s])
      BY <2>1, <3>2, AtOrder
    <3> QED BY <1>1, <2>1, <3>1, <3>2, <3>3
  <2>3. fs[q].kind = "file" /\ MayHold(q, fs[q])
    BY <1>8, <2>1 DEF IsFile, HalfWay
  <2> QED BY <2>2, <2>3 DEF MayHold, IsFile, Absent, Dir
<1>9. ASSUME NEW q, fs[q] = before[q], Dropped(before, prev, next, q) PROVE Dropped(fs, prev, next, q)
  BY <1>9 DEF Dropped, RecordedLink
<1> HIDE DEF prev, next
<1>10. UnderLink(fs, next) \subseteq Beneath(fs, prev, next)
  <2> SUFFICES ASSUME NEW t \in DOMAIN next, NEW q \in Above[t], IsLink(fs, q)
               PROVE  Dropped(fs, prev, next, q)
    BY DEF UnderLink, Beneath, SymlinksAbove
  <2>1. fs[q] = before[q]
    BY <1>3 DEF IsLink, Absent, Dir
  <2> QED BY <1>9, <2>1, SoundBefore DEF IsLink, prev, next
<1>11. ASSUME NEW t \in Symlinks(next)
       PROVE  ~IsFile(fs, t) /\ (IsDir(fs, t) => Migratable(fs, prev, next, t))
  <2>1. IsFile(fs, t) \/ IsDir(fs, t) => fs[t] = before[t]
    BY <1>5 DEF IsFile, IsDir, Absent
  <2>2. ~IsFile(fs, t)
    BY <2>1, SoundBefore DEF IsFile, next
  <2>3. ASSUME IsDir(fs, t) PROVE Migratable(fs, prev, next, t)
    <3>1. Migratable(before, prev, next, t)
      BY <2>1, <2>3, SoundBefore DEF IsDir, prev, next
    <3>2. ASSUME NEW q \in Below[t] PROVE ~IsFile(fs, q) /\ (IsLink(fs, q) => Dropped(fs, prev, next, q))
      <4>1. fs[q] = before[q] \/ fs[q] \in {Absent, Dir}
        BY <1>7
      <4> QED BY <1>9, <3>1, <4>1 DEF Migratable, IsFile, IsLink, Absent, Dir
    <3> QED BY <3>2 DEF Migratable
  <2> QED BY <2>2, <2>3
<1>12. ASSUME NEW t \in Copies(next), Exists(fs, t), t \notin Swapped(fs, prev, next), t \notin UnderLink(fs, next)
       PROVE  ~StructureMismatch(fs, next, t)
  <2>1. CASE fs[t] = before[t]
    <3>1. Exists(before, t)
      BY <1>12, <2>1 DEF Exists
    <3>2. t \notin Swapped(before, prev, next)
      BY <1>12, <2>1 DEF Swapped, RecordedLink
    <3> QED BY <2>1, <3>1, <3>2, SoundBefore DEF StructureMismatch, IsDir, prev, next
  <2>2. CASE fs[t].kind = (IF next[t].src \in DirSrc THEN "dir" ELSE "file")
    BY <2>2 DEF StructureMismatch, IsDir
  <2> QED BY <1>6, <1>12, <2>1, <2>2 DEF Exists, Absent
<1>13. Blocked(fs, prev, next) = {}
  BY <1>11, <1>12 DEF Blocked, Occupied, Migrated, Links, Mismatched, Present
<1>14. ASSUME NEW t \in DOMAIN next \cup Stale(fs, prev, next, FALSE), NotDirAbove(fs, t) PROVE FALSE
  <2>1. PICK q \in Above[t] : IsFile(fs, q)
    BY <1>14 DEF NotDirAbove
  <2>2. CASE t \in DOMAIN next
    <3>1. fs[q] = before[q]
      BY <1>3, <2>1, <2>2 DEF IsFile, Absent, Dir
    <3> QED BY <2>1, <2>2, <3>1, SoundBefore DEF IsFile, next
  <2>3. CASE t \in Symlinks(prev) \ DOMAIN next
    <3>1. IsFile(before, q)
      BY <1>2, <1>8, <2>1, <2>3 DEF prev
    <3> QED BY <2>1, <2>3, <3>1, SoundBefore DEF prev, next
  <2> QED BY <1>14, <2>2, <2>3 DEF Stale
<1>15. Compute(fs, prev, next, FALSE).conflicts = {} /\ ~Compute(fs, prev, next, FALSE).failed
  BY <1>10, <1>13, <1>14 DEF Compute, Stuck
<1> QED BY <1>1, <1>15 DEF prev, next

\* What a step does to the tree on the way.
Reaches ==
  /\ UNCHANGED <<run, before>>
  /\ \A p \in Path : fs'[p] = fs[p] \/ MayHold(p, fs'[p])
  /\ \A s \in Copies(run.next) : fs'[AsideOf[s]] = fs[AsideOf[s]] \/ MayHold(s, fs'[AsideOf[s]])

LEMMA HalfStep ==
  ASSUME HalfWay, Reaches,
         \A i \in DOMAIN journal' :
           (\E j \in DOMAIN journal : journal'[i] = journal[j]) \/ Brings(fs', journal'[i])
  PROVE  HalfWay'
<1>1. UNCHANGED <<run, before>>
  BY DEF Reaches
<1>2. \A p, n : MayHold(p, n)' <=> MayHold(p, n)
  BY <1>1 DEF MayHold, Parents
<1>3. \A p \in Path : MayHold(p, fs'[p])
  BY DEF HalfWay, Reaches
<1>4. ASSUME NEW op, Brings(fs, op) PROVE Brings(fs', op)
  BY <1>4 DEF Brings, Reaches
<1>5. \A i \in DOMAIN journal' : Brings(fs', journal'[i])
  BY <1>4 DEF HalfWay
<1>6. ASSUME NEW op, Brings(fs', op) PROVE Brings(fs, op)'
  BY <1>1, <1>2, <1>6 DEF Brings
<1> QED BY <1>2, <1>3, <1>5, <1>6 DEF HalfWay

LEMMA HalfPush ==
  ASSUME HalfWay, Reaches, journal \in Seq(UndoOp),
         NEW kind \in UndoKind, NEW p \in Path, NEW d \in Val, Journals(kind, p, d),
         Brings(fs', [kind |-> kind, path |-> p, dest |-> d])
  PROVE  HalfWay'
<1>1. [kind |-> kind, path |-> p, dest |-> d] \in UndoOp
  BY DEF UndoOp
<1> QED BY <1>1, AppendIs, HalfStep DEF Journals

LEMMA HalfKeep ==
  ASSUME HalfWay, Reaches, UNCHANGED journal
  PROVE  HalfWay'
BY HalfStep

\* Taking things away is always allowed.
LEMMA RemovingReaches ==
  ASSUME UNCHANGED <<run, before>>, \A p \in Path : fs'[p] \in {fs[p], Absent}, Target \subseteq Path,
         DOMAIN run.next \subseteq Target
  PROVE  Reaches
<1>1. \A s \in Copies(run.next) : AsideOf[s] \in Path
  BY EngineAssumption DEF Copies
<1> QED BY <1>1 DEF Reaches, MayHold

\* So is placing an entry, with the directories above it.
LEMMA PlacingReaches ==
  ASSUME NamesApart, IsManifest(run.next), Unnested(run.next), UNCHANGED <<run, before>>,
         NEW t \in DOMAIN run.next,
         \A p \in Path \ At(t) : fs'[p] = fs[p] \/ MadeFor(fs', fs, p),
         \A p \in At(t) : fs'[p] = fs[p] \/ MayHold(p, fs'[p])
  PROVE  Reaches
<1>1. \A p \in Path : fs'[p] = fs[p] \/ MayHold(p, fs'[p])
  BY DEF MadeFor, MayHold
<1>2. ASSUME NEW s \in Copies(run.next) PROVE fs'[AsideOf[s]] = fs[AsideOf[s]]
  <2>1. s \in DOMAIN run.next /\ s \in Target /\ DOMAIN run.next \subseteq Target
    BY <1>2, ManifestTypes
  <2>2. AsideOf[s] \in Path \ At(t)
    BY <2>1, AsidesApart
  <2>3. AsideOf[s] \notin Parents
    BY <2>1, NoParentBeside DEF At
  <2> QED BY <2>2, <2>3 DEF MadeFor
<1> QED BY <1>1, <1>2 DEF Reaches

\* A recorded or foreign link that goes may come back.
LEMMA UnlinkHalf ==
  ASSUME HalfWay, UNCHANGED <<run, before>>, fs \in Tree, journal \in Seq(UndoOp), Target \subseteq Path,
         DOMAIN run.next \subseteq Target, NEW p \in Target, NEW d \in Val, fs[p] = LinkTo(d),
         fs' = Put(fs, p, Absent), Journals("relinkOld", p, d)
  PROVE  HalfWay'
<1>1. \A r \in Path : fs'[r] \in {fs[r], Absent}
  BY DEF Put, Tree
<1>2. MayHold(p, LinkTo(d))
  BY DEF HalfWay
<1>3. Brings(fs', [kind |-> "relinkOld", path |-> p, dest |-> d])
  BY <1>2 DEF Brings
<1> QED BY <1>1, <1>3, HalfPush, RemovingReaches DEF UndoKind

\* So may a directory that is no aside.
LEMMA RmdirHalf ==
  ASSUME HalfWay, UNCHANGED <<run, before>>, fs \in Tree, journal \in Seq(UndoOp), Target \subseteq Path,
         DOMAIN run.next \subseteq Target, NEW p \in Path, fs[p] = Dir,
         \A s \in Copies(run.next) : p # AsideOf[s],
         fs' = Put(fs, p, Absent), Journals("mkdir", p, None)
  PROVE  HalfWay'
<1>1. \A r \in Path : fs'[r] \in {fs[r], Absent}
  BY DEF Put, Tree
<1>2. MayHold(p, Dir) /\ None \in Val
  BY DEF HalfWay, Val
<1>3. Brings(fs', [kind |-> "mkdir", path |-> p, dest |-> None])
  BY <1>2 DEF Brings
<1> QED BY <1>1, <1>2, <1>3, HalfPush, RemovingReaches DEF UndoKind

LEMMA PreRemoveHalf ==
  ASSUME NamesApart, RunBasis, HalfWay, TidyTree(fs), NEW p, PreRemoveUnlink(p) \/ PreRemoveRmdir(p)
  PROVE  HalfWay'
<1>1. /\ fs \in Tree /\ journal \in Seq(UndoOp) /\ IsManifest(run.base) /\ IsManifest(run.next)
      /\ Target \subseteq Path /\ DOMAIN run.next \subseteq Target /\ phase = "stages"
      /\ UNCHANGED <<run, before>> /\ plan \in Plan
  BY StageFacts, ManifestTypes
     DEF RunBasis, PreRemoveUnlink, PreRemoveRmdir, In, Writes, ghostVars
<1>2. AimFits /\ Fits /\ Unnested(run.next)
  BY <1>1, StageBasis DEF RunBasis
<1>3. CASE PreRemoveUnlink(p)
  <2>1. /\ p \in DOMAIN run.base /\ fs[p] = LinkTo(run.base[p].src) /\ fs' = Put(fs, p, Absent)
        /\ Journals("relinkOld", p, run.base[p].src)
    BY <1>3 DEF PreRemoveUnlink, RecordedLink, JournalRelink, Journals
  <2>2. p \in Target /\ run.base[p].src \in Val
    BY <1>1, <2>1, ManifestTypes
  <2> QED BY <1>1, <2>1, <2>2, UnlinkHalf
<1>4. CASE PreRemoveRmdir(p)
  <2>1. /\ p \in plan.rmdir
        /\ \/ fs' = Put(fs, p, Absent) /\ Journals("mkdir", p, None)
           \/ UNCHANGED <<fs, journal>>
    BY <1>4 DEF PreRemoveRmdir, Journal, Journals
  <2>2. CASE UNCHANGED <<fs, journal>>
    BY <1>1, <2>2, HalfKeep, RemovingReaches
  <2>3. CASE fs' = Put(fs, p, Absent) /\ Journals("mkdir", p, None)
    <3>1. p \in Path /\ fs[p] = before[p] /\ IsDir(before, p) /\ p \in Aim.rmdir
      BY <1>1, <1>2, <2>1 DEF Plan, Fits, TreeFits, Shrinks, AimFits
    <3>2. fs[p] = Dir
      BY <3>1 DEF TidyTree, TidyNode, IsDir
    <3>3. p \in Whole.rmdir
      BY <3>1, AimParts DEF RunBasis
    <3>4. PICK m \in DOMAIN run.next : p \in At(m)
      BY <3>3 DEF Whole, Compute, InMigrated, Migrated, Occupied, Links, Symlinks
    <3>5. \A s \in Copies(run.next) : p # AsideOf[s]
      BY <1>1, <1>2, <3>4, AsidesApart, ManifestTypes
    <3> QED BY <1>1, <2>3, <3>1, <3>2, <3>5, RmdirHalf
  <2> QED BY <2>1, <2>2, <2>3
<1> QED BY <1>3, <1>4

LEMMA PlaceHalf ==
  ASSUME NamesApart, RunBasis, HalfWay, NEW t,
         (t \in plan.new /\ PlaceNew(t)) \/ (t \in Relinks /\ (RelinkUnlink(t) \/ RelinkSymlink(t)))
  PROVE  HalfWay'
<1>1. /\ fs \in Tree /\ journal \in Seq(UndoOp) /\ IsManifest(run.next) /\ None \in Val
      /\ Target \subseteq Path /\ DOMAIN run.next \subseteq Target /\ phase = "stages"
      /\ UNCHANGED <<run, before>>
  BY StageFacts, ManifestTypes
     DEF RunBasis, PlaceNew, RelinkUnlink, RelinkSymlink, In, Writes, ghostVars
<1>2. AimFits /\ Fits /\ Unnested(run.next)
  BY <1>1, StageBasis DEF RunBasis
<1>3. t \in Symlinks(run.next) /\ t \in DOMAIN run.next /\ t \in Target /\ t \in Path
  <2>1. t \in Symlinks(run.next)
    BY <1>2 DEF Fits, Shrinks, AimFits
  <2> QED BY <1>1, <2>1, ManifestTypes
<1>4. \A d : MayHold(t, LinkTo(d))
  BY <1>3 DEF MayHold, LinkTo
<1>5. CASE t \in plan.new /\ PlaceNew(t)
  <2>1. fs' = Put(Mkdirs(fs, t), t, LinkTo(run.next[t].src)) /\ Journals("unlinkNew", t, None)
    BY <1>5 DEF PlaceNew, Journal, Journals
  <2>2. fs'[t] = LinkTo(run.next[t].src) /\ \A r \in Path : r # t => fs'[r] = Mkdirs(fs, t)[r]
    BY <1>1, <1>3, <2>1, MkdirsTree DEF Put, Tree
  <2>3. \A p \in Path \ At(t) : fs'[p] = fs[p] \/ MadeFor(fs', fs, p)
    BY <1>3, <2>2, MkdirsAdds DEF MadeFor, At
  <2>4. \A p \in At(t) : fs'[p] = fs[p] \/ MayHold(p, fs'[p])
    <3> SUFFICES ASSUME NEW p \in At(t), p # t PROVE fs'[p] = fs[p]
      BY <1>4, <2>2
    <3>1. p \in Path /\ p \notin Above[t]
      BY <1>3, AboveBelow, AboveOrder DEF At
    <3> QED BY <2>2, <3>1 DEF Mkdirs
  <2>5. Brings(fs', [kind |-> "unlinkNew", path |-> t, dest |-> None])
    BY DEF Brings
  <2> QED BY <1>1, <1>2, <1>3, <2>1, <2>3, <2>4, <2>5, PlacingReaches, HalfPush DEF UndoKind
<1>6. CASE RelinkUnlink(t)
  <2>1. IsLink(fs, t) /\ fs' = Put(fs, t, Absent) /\ Journals("relinkOld", t, fs[t].val)
    BY <1>6 DEF RelinkUnlink, JournalRelink, Journals
  <2>2. fs[t] = LinkTo(fs[t].val) /\ fs[t].val \in Val
    BY <1>1, <1>3, <2>1 DEF Tree, Node, IsLink, LinkTo
  <2> QED BY <1>1, <1>3, <2>1, <2>2, UnlinkHalf
<1>7. CASE RelinkSymlink(t)
  <2>1. fs' = Put(fs, t, LinkTo(run.next[t].src)) /\ UNCHANGED journal
    BY <1>7 DEF RelinkSymlink
  <2>2. fs'[t] = LinkTo(run.next[t].src) /\ \A r \in Path : r # t => fs'[r] = fs[r]
    BY <1>1, <1>3, <2>1 DEF Put, Tree
  <2>3. /\ \A p \in Path \ At(t) : fs'[p] = fs[p] \/ MadeFor(fs', fs, p)
        /\ \A p \in At(t) : fs'[p] = fs[p] \/ MayHold(p, fs'[p])
    BY <1>3, <1>4, <2>2, AboveBelow DEF At
  <2> QED BY <1>1, <1>2, <1>3, <2>1, <2>3, PlacingReaches, HalfKeep
<1> QED BY <1>5, <1>6, <1>7

LEMMA AsideHalf ==
  ASSUME NamesApart, NamesDiffer, RunBasis, HalfWay, NEW t \in plan.copies, RecopyAside(t)
  PROVE  HalfWay'
<1> DEFINE q == AsideOf[t]
<1>1. /\ fs \in Tree /\ journal \in Seq(UndoOp) /\ IsManifest(run.next) /\ None \in Val
      /\ Target \subseteq Path /\ DOMAIN run.next \subseteq Target
      /\ UNCHANGED <<run, before>> /\ fs' = Rename(fs, t, q)
      /\ Journals("restoreRename", t, None)
  BY StageFacts, ManifestTypes DEF RunBasis, RecopyAside, Writes, ghostVars, Journal, Journals
<1>2. t \in Copies(run.next) /\ t \in DOMAIN run.next /\ t \in Target /\ t \in Path /\ Unnested(run.next)
  BY CopyStage, StageBasis DEF RunBasis, RecopyAside, In
<1>3. /\ Movable(t, q) /\ At(t) \cap At(q) = {} /\ q \in At(q) /\ q \in Path
      /\ \A r \in Path : fs'[r] = IF r \in At(q) THEN fs[Rebase(t, q, r)] ELSE IF r \in At(t) THEN Absent ELSE fs[r]
  <2>1. Movable(t, q)
    BY <1>2, TargetsMove
  <2> HIDE DEF q
  <2>2. At(t) \cap At(q) = {} /\ q \in At(q) /\ q \in Path
    BY <2>1, MovableApart DEF At, Movable
  <2>3. \A r \in Path : Rename(fs, t, q)[r] = IF r \in At(q) THEN fs[Rebase(t, q, r)] ELSE IF r \in At(t) THEN Absent ELSE fs[r]
    BY <2>1, RenameIs
  <2> QED BY <1>1, <2>1, <2>2, <2>3
<1>4. fs'[q] = fs[t]
  <2>1. t \in At(t)
    BY DEF At
  <2>2. Rebase(q, t, t) = q
    BY <1>2, <1>3, RebaseSelf
  <2> QED BY <1>1, <1>3, <2>1, <2>2, RenameMoves
<1> HIDE DEF q
<1>5. \A r \in Path : fs'[r] = fs[r] \/ MayHold(r, fs'[r])
  BY <1>2, <1>3 DEF MayHold, q
<1>6. ASSUME NEW s \in Copies(run.next) PROVE fs'[AsideOf[s]] = fs[AsideOf[s]] \/ MayHold(s, fs'[AsideOf[s]])
  <2>1. s \in DOMAIN run.next /\ s \in Target /\ AsideOf[s] \in Path
    BY <1>1, <1>6, ManifestTypes, EngineAssumption
  <2>2. CASE s = t
    BY <1>2, <1>4, <2>2 DEF HalfWay, q
  <2>3. CASE s # t
    <3>1. AsideOf[s] # q
      BY <1>2, <2>1, <2>3 DEF NamesDiffer, q
    <3>2. AsideOf[s] \notin At(q)
      <4>1. Above[AsideOf[s]] = Above[s] /\ s \in Path /\ At(q) \cap Target = {}
        BY <1>1, <1>2, <2>1 DEF NamesApart, q
      <4>2. ASSUME q \in Above[AsideOf[s]] PROVE FALSE
        BY <1>3, <2>1, <4>1, <4>2, AtOrder
      <4> QED BY <1>3, <2>1, <3>1, <4>2, AtOrder
    <3> QED BY <1>3, <2>1, <3>2 DEF MayHold
  <2> QED BY <2>2, <2>3
<1>7. Reaches
  BY <1>1, <1>5, <1>6 DEF Reaches
<1>8. Brings(fs', [kind |-> "restoreRename", path |-> t, dest |-> None])
  BY <1>2, <1>4 DEF Brings, HalfWay, q
<1> QED BY <1>1, <1>2, <1>7, <1>8, HalfPush DEF UndoKind

\* A copy under way is of the kind of its source.
LEMMA CopyHalf ==
  ASSUME NamesApart, RunBasis, HalfWay, NEW t \in plan.copies, CopyStart(t) \/ CopyFinish(t) \/ CopyStuck(t)
  PROVE  HalfWay'
<1>1. /\ fs \in Tree /\ journal \in Seq(UndoOp) /\ IsManifest(run.next) /\ None \in Val
      /\ UNCHANGED <<run, before>> /\ phase = "stages" /\ Unnested(run.next)
      /\ \A r \in Path : Mkdirs(fs, t)[r] = IF r \in Above[t] /\ ~Exists(fs, r) THEN Dir ELSE fs[r]
  BY StageFacts, StageBasis
     DEF RunBasis, CopyStart, CopyFinish, CopyStuck, Writes, ghostVars, Mkdirs
<1>2. t \in Copies(run.next) /\ t \in DOMAIN run.next /\ t \in Target /\ t \in Path
  <2>1. t \in Copies(run.next)
    BY <1>1, StageBasis DEF RunBasis, Fits, Shrinks, AimFits
  <2> QED BY <1>1, <2>1, ManifestTypes
<1>3. t \in At(t) /\ \A p \in At(t) : p \in Path /\ p \notin Above[t]
  BY <1>2, AboveBelow, AboveOrder DEF At
<1>4. CASE fs' = Mkdirs(fs, t) \/ fs' = BeginCopy(Mkdirs(fs, t), run.next[t].src, t)
  <2>1. \A p \in Path : p # t => fs'[p] = Mkdirs(fs, t)[p]
    BY <1>1, <1>2, <1>4, MkdirsTree DEF BeginCopy, Put, Tree
  <2>2. fs'[t] = Mkdirs(fs, t)[t] \/ fs'[t] = IF run.next[t].src \in DirSrc THEN Dir ELSE FileOf(Partial)
    BY <1>1, <1>2, <1>4, MkdirsTree DEF BeginCopy, Put, Tree
  <2>3. \A p \in Path \ At(t) : fs'[p] = fs[p] \/ MadeFor(fs', fs, p)
    BY <1>2, <1>3, <2>1, MkdirsAdds DEF MadeFor
  <2>4. \A p \in At(t) : fs'[p] = fs[p] \/ MayHold(p, fs'[p])
    <3>1. \A p \in At(t) : p # t => fs'[p] = fs[p]
      BY <1>1, <1>3, <2>1
    <3>2. fs'[t] = fs[t] \/ fs'[t] = IF run.next[t].src \in DirSrc THEN Dir ELSE FileOf(Partial)
      BY <1>1, <1>3, <2>2
    <3> QED BY <1>2, <3>1, <3>2 DEF MayHold, Dir, FileOf
  <2>5. Reaches
    BY <1>1, <1>2, <2>3, <2>4, PlacingReaches
  <2>6. UNCHANGED journal \/ Journals("removeCopy", t, None)
    BY <1>4 DEF CopyStart, CopyFinish, CopyStuck, Journal, Journals
  <2>7. Brings(fs', [kind |-> "removeCopy", path |-> t, dest |-> None])
    BY DEF Brings
  <2> QED BY <1>1, <1>2, <2>5, <2>6, <2>7, HalfKeep, HalfPush DEF UndoKind
<1>5. CASE fs' = EndCopy(fs, run.next[t].src, t) /\ CopyFinish(t)
  <2>1. UNCHANGED journal /\ mid = Mid("copy", t)
    BY <1>5 DEF CopyFinish
  <2>2. run.next[t].src \in DirSrc => LeafOf(t) \in Below[t]
    <3>1. run.next[t].src \in DirSrc => LeafOf(t) \in Path
      BY <1>1, <1>2, <2>1, CopyStage DEF RunBasis
    <3> QED BY <1>2, <3>1, LeafIs DEF At
  <2>3. \A p \in Path : p # t /\ (run.next[t].src \in DirSrc => p # LeafOf(t)) => fs'[p] = fs[p]
    BY <1>1, <1>5 DEF EndCopy, Put, Tree
  <2>4. run.next[t].src \notin DirSrc => fs'[t] = FileOf(run.next[t].src)
    BY <1>1, <1>2, <1>5 DEF EndCopy, Put, Tree
  <2>5. run.next[t].src \in DirSrc => fs'[t] = fs[t] \/ t = LeafOf(t)
    BY <1>1, <1>2, <1>5 DEF EndCopy, Put, Tree
  <2>6. \A p \in Path \ At(t) : fs'[p] = fs[p] \/ MadeFor(fs', fs, p)
    BY <2>2, <2>3 DEF At
  <2>7. \A p \in At(t) : fs'[p] = fs[p] \/ MayHold(p, fs'[p])
    <3>1. \A p \in Below[t] : MayHold(p, fs'[p])
      BY <1>2 DEF MayHold
    <3>2. fs'[t] = fs[t] \/ MayHold(t, fs'[t])
      BY <1>2, <2>2, <2>4, <2>5, <3>1 DEF MayHold, FileOf
    <3> QED BY <3>1, <3>2 DEF At
  <2> QED BY <1>1, <1>2, <2>1, <2>6, <2>7, PlacingReaches, HalfKeep
<1>6. CASE UNCHANGED <<fs, journal>>
  <2>1. Reaches
    BY <1>1, <1>6 DEF Reaches
  <2> QED BY <1>6, <2>1, HalfKeep
<1> QED BY <1>4, <1>5, <1>6 DEF CopyStart, CopyFinish, CopyStuck

LEMMA RemoveHalf ==
  ASSUME NamesApart, RunBasis, HalfWay, TidyTree(fs), phase = "stages",
         (\E t \in plan.remove : RemoveStale(t)) \/ PruneAncestor
  PROVE  HalfWay'
<1>1. /\ fs \in Tree /\ journal \in Seq(UndoOp) /\ IsManifest(run.next) /\ IsManifest(run.base)
      /\ Target \subseteq Path /\ DOMAIN run.next \subseteq Target /\ DOMAIN run.base \subseteq Target
      /\ UNCHANGED <<run, before>>
  BY StageFacts, ManifestTypes DEF RunBasis, RemoveStale, PruneAncestor, Writes, ghostVars
<1>2. CASE UNCHANGED <<fs, journal>>
  BY <1>1, <1>2, HalfKeep, RemovingReaches
<1>3. CASE ~UNCHANGED <<fs, journal>> /\ \E t \in plan.remove : RemoveStale(t)
  <2>1. PICK t \in plan.remove : /\ t \in DOMAIN run.base /\ fs[t] = LinkTo(run.base[t].src)
                                 /\ fs' = Put(fs, t, Absent) /\ Journals("relinkOld", t, run.base[t].src)
    BY <1>3 DEF RemoveStale, StillStale, RecordedLink, JournalRelink, Journals
  <2>2. t \in Target /\ run.base[t].src \in Val
    BY <1>1, <2>1, ManifestTypes
  <2> QED BY <1>1, <2>1, <2>2, UnlinkHalf
<1>4. CASE ~UNCHANGED <<fs, journal>> /\ PruneAncestor
  <2> DEFINE up == Front(mid.path)
  <2>1. up \in Path /\ fs' = Put(fs, up, Absent) /\ Journals("mkdir", up, None) /\ mid.step = "prune"
    BY <1>4 DEF PruneAncestor, Journal, Journals
  <2>2. /\ mid.path \in Path /\ InRealDir(fs, mid.path)
        /\ \E t \in Aim.remove : t \in At(mid.path)
    BY <2>1, StageBasis, PrunedPath DEF RunBasis, Fits, Midway
  <2>3. up \in Above[mid.path] /\ fs[up] = Dir
    <3>1. up \in Above[mid.path]
      BY <2>1, <2>2, FrontAbove
    <3>2. IsDir(fs, up)
      BY <2>2, <3>1 DEF InRealDir
    <3> QED BY <2>1, <3>1, <3>2 DEF TidyTree, TidyNode, IsDir
  <2> HIDE DEF up
  <2>4. PICK t \in Aim.remove : t \in At(mid.path)
    BY <2>2
  <2>5. t \in Target /\ t \in Path
    BY <1>1, <2>4, AimApart, StageBasis DEF RunBasis
  <2>6. t \in At(up)
    BY <2>1, <2>2, <2>3, <2>4, <2>5, AtOrder
  <2>7. \A s \in Copies(run.next) : up # AsideOf[s]
    BY <1>1, <2>5, <2>6, ManifestTypes DEF NamesApart
  <2> QED BY <1>1, <2>1, <2>3, <2>7, RmdirHalf
<1> QED BY <1>2, <1>3, <1>4

LEMMA FailHalf ==
  ASSUME NamesApart, RunBasis, HalfWay,
         (\E p \in Path : StageStuck(p)) \/ StageFault \/ (PruneFault /\ phase = "stages")
  PROVE  HalfWay'
<1>1. /\ UNCHANGED <<run, before, journal>> /\ phase = "stages" /\ IsManifest(run.next)
  BY StageFacts
     DEF RunBasis, StageStuck, Refuses, In, StageFault, Fails, PruneFault
<1>2. AimFits /\ Fits /\ Unnested(run.next)
  BY <1>1, StageBasis DEF RunBasis
<1>3. plan.new \cup plan.copies \subseteq DOMAIN run.next
  BY <1>2 DEF Fits, Shrinks, AimFits, Symlinks, Copies
<1>4. CASE UNCHANGED fs
  <2>1. Reaches
    BY <1>1, <1>4 DEF Reaches
  <2> QED BY <1>1, <2>1, HalfKeep
<1>5. CASE \E t \in plan.new \cup plan.copies : fs' = Mkdirs(fs, t)
  <2>1. PICK t \in DOMAIN run.next : fs' = Mkdirs(fs, t)
    BY <1>3, <1>5
  <2>2. \A p \in Path : fs'[p] = fs[p] \/ MadeFor(fs', fs, p)
    BY <2>1, MkdirsAdds
  <2>3. \A p \in At(t) : p \in Path
    BY <1>1, ManifestTypes, AboveBelow
  <2>4. \A p \in At(t) : fs'[p] = fs[p] \/ MayHold(p, fs'[p])
    BY <2>2, <2>3 DEF MadeFor, MayHold
  <2> QED BY <1>1, <1>2, <2>2, <2>4, PlacingReaches, HalfKeep
<1> QED BY <1>4, <1>5 DEF StageStuck, StageFault, PruneFault

\* Undoing a change brings back nothing else.
LEMMA UndoHalf ==
  ASSUME NamesApart, RunBasis, Unnested(run.next), HalfWay, UndoStep
  PROVE  HalfWay'
<1> DEFINE op == Last(journal)
           p == op.path
           removed == IF CanRemove(fs, p) THEN Put(fs, p, Absent) ELSE fs
<1>1. /\ fs \in Tree /\ journal \in Seq(UndoOp) /\ IsManifest(run.next) /\ Target \subseteq Path
      /\ DOMAIN run.next \subseteq Target /\ UNCHANGED <<run, before>> /\ journal # << >>
      /\ fs' = Undo(fs, op) /\ journal' = Front(journal)
  BY StageFacts, ManifestTypes DEF RunBasis, UndoStep, ghostVars
<1>2. /\ Len(journal) \in DOMAIN journal /\ op = journal[Len(journal)] /\ op \in UndoOp
      /\ \A i \in DOMAIN journal' : \E j \in DOMAIN journal : journal'[i] = journal[j]
  BY <1>1, FrontIs
<1>3. Brings(fs, op)
  BY <1>2 DEF HalfWay
<1> HIDE DEF op
<1>4. p \in Path /\ op.kind \in UndoKind
  BY <1>2 DEF UndoOp
<1>5. \A r \in Path : removed[r] \in {fs[r], Absent}
  BY <1>1 DEF Put, Tree
<1>6. removed \in Tree
  BY <1>1, PutTree, NodeTypes
<1> HIDE DEF removed
<1>7. ASSUME op.kind \in {"unlinkNew", "removeCopy"} PROVE Reaches
  <2>1. \A r \in Path : fs'[r] \in {fs[r], Absent}
    BY <1>1, <1>5, <1>7 DEF Undo, removed, Clear
  <2> QED BY <1>1, <2>1, RemovingReaches
<1>8. ASSUME NEW n, MayHold(p, n), \A s \in Copies(run.next) : p # AsideOf[s],
             \A r \in Path : fs'[r] \in {fs[r], Absent} \/ (r = p /\ fs'[r] = n)
      PROVE  Reaches
  <2>1. \A s \in Copies(run.next) : AsideOf[s] \in Path
    BY <1>1, EngineAssumption DEF Copies
  <2> QED BY <1>1, <1>8, <2>1 DEF Reaches, MayHold
<1>9. ASSUME op.kind = "relinkOld" PROVE Reaches
  <2>1. \A r \in Path : fs'[r] \in {fs[r], Absent} \/ (r = p /\ fs'[r] = LinkTo(op.dest))
    <3>1. fs' = removed \/ fs' = Put(removed, p, LinkTo(op.dest))
      BY <1>1, <1>9 DEF Undo, removed
    <3> QED BY <1>5, <1>6, <3>1 DEF Put, Tree
  <2>2. MayHold(p, LinkTo(op.dest)) /\ p \in Target
    BY <1>3, <1>9 DEF Brings
  <2>3. \A s \in Copies(run.next) : p # AsideOf[s]
    BY <1>1, <2>2, EngineAssumption DEF Copies
  <2> QED BY <1>8, <2>1, <2>2, <2>3
<1>10. ASSUME op.kind = "mkdir" PROVE Reaches
  <2>1. \A r \in Path : fs'[r] \in {fs[r], Absent} \/ (r = p /\ fs'[r] = Dir)
    <3>1. fs' = fs \/ fs' = Put(fs, p, Dir)
      BY <1>1, <1>10 DEF Undo
    <3> QED BY <1>1, <3>1 DEF Put, Tree
  <2>2. MayHold(p, Dir) /\ \A s \in Copies(run.next) : p # AsideOf[s]
    BY <1>3, <1>10 DEF Brings
  <2> QED BY <1>8, <2>1, <2>2
<1>11. ASSUME op.kind = "restoreRename" PROVE Reaches
  <2> DEFINE q == AsideOf[p]
             g == Clear(fs, p)
  <2>1. p \in Copies(run.next) /\ MayHold(p, fs[q])
    BY <1>3, <1>11 DEF Brings
  <2>2. p \in DOMAIN run.next /\ p \in Target
    BY <1>1, <2>1 DEF Copies
  <2>3. Movable(q, p) /\ q \in Path /\ q \notin At(p) /\ At(q) \subseteq Path
    BY <2>2, TargetsMove, MovableApart DEF Movable
  <2>4. fs' = g \/ fs' = Rename(g, q, p)
    BY <1>1, <1>11 DEF Undo, BringBack
  <2>5. \A r \in Path : g[r] = IF r \in At(p) THEN Absent ELSE fs[r]
    BY DEF Clear
  <2> HIDE DEF q, g
  <2>6. \A r \in Path : Rename(g, q, p)[r] = IF r \in At(p) THEN g[Rebase(q, p, r)] ELSE IF r \in At(q) THEN Absent ELSE g[r]
    BY <2>3, RenameIs
  <2>7. \A r \in Path : r \notin At(p) => fs'[r] \in {fs[r], Absent}
    BY <2>4, <2>5, <2>6
  <2>8. fs'[p] = Absent \/ fs'[p] = fs[q]
    <3>1. p \in At(p) /\ Rebase(q, p, p) = q
      BY <1>4, <2>3, RebaseSelf DEF At
    <3> QED BY <1>4, <2>3, <2>4, <2>5, <2>6, <3>1
  <2>9. \A r \in Path : fs'[r] = fs[r] \/ MayHold(r, fs'[r])
    <3>1. \A r \in Below[p] : MayHold(r, fs'[r])
      BY <2>1 DEF MayHold
    <3>2. MayHold(p, fs'[p])
      BY <2>1, <2>8 DEF MayHold
    <3> QED BY <2>7, <3>1, <3>2 DEF MayHold, At
  <2>10. ASSUME NEW s \in Copies(run.next) PROVE fs'[AsideOf[s]] = fs[AsideOf[s]] \/ MayHold(s, fs'[AsideOf[s]])
    <3>1. AsideOf[s] \in Path /\ AsideOf[s] \notin At(p)
      BY <1>1, <2>2, AsidesApart, ManifestTypes
    <3> QED BY <2>7, <3>1 DEF MayHold
  <2> QED BY <1>1, <2>9, <2>10 DEF Reaches
<1>12. op.kind # "restoreBackup"
  BY <1>3 DEF Brings
<1>13. Reaches
  BY <1>4, <1>7, <1>9, <1>10, <1>11, <1>12 DEF UndoKind
<1> QED BY <1>2, <1>13, HalfStep

-----------------------------------------------------------------------------
(* Once the record is written, everything is in place.                      *)

InPlace ==
  \A t \in DOMAIN run.next :
    IF run.next[t].method = "symlink" THEN IsLink(fs, t)
    ELSE Exists(fs, t) /\ ~StructureMismatch(fs, run.next, t)

LEMMA InPlaceAccepted ==
  ASSUME fs \in Tree, Closed(fs), IsManifest(run.next), InPlace, run.backup \in BOOLEAN
  PROVE  LET p == Compute(fs, run.next, run.next, run.backup) IN p.conflicts = {} /\ ~p.failed
<1> DEFINE next == run.next
<1>1. ASSUME NEW t \in DOMAIN next PROVE Exists(fs, t) /\ InRealDir(fs, t)
  <2>1. Exists(fs, t)
    BY DEF InPlace, IsLink, Exists
  <2> QED BY <2>1, ManifestTypes DEF Closed
<1>2. UnderLink(fs, next) = {}
  BY <1>1 DEF UnderLink, SymlinksAbove, InRealDir, IsDir, IsLink
<1>3. \A t \in Symlinks(next) : ~IsDir(fs, t) /\ ~IsFile(fs, t)
  BY DEF InPlace, Symlinks, IsLink, IsDir, IsFile
<1>4. \A t \in Copies(next) : ~StructureMismatch(fs, next, t)
  BY DEF InPlace, Copies
<1>5. Blocked(fs, next, next) = {} /\ Unknown(fs, next, next) = {}
  BY <1>3, <1>4 DEF Blocked, Unknown, Occupied, Links, Mismatched, Present
<1>6. Stale(fs, next, next, run.backup) = {}
  BY DEF Stale, Symlinks
<1>7. \A t \in DOMAIN next : ~NotDirAbove(fs, t)
  BY <1>1 DEF NotDirAbove, InRealDir, IsDir, IsFile
<1> QED BY <1>2, <1>5, <1>6, <1>7 DEF Compute, Stuck

LEMMA RecordInPlace ==
  ASSUME RunBasis, In("record")
  PROVE  InPlace
<1> SUFFICES ASSUME NEW t \in DOMAIN run.next
             PROVE  IF run.next[t].method = "symlink" THEN IsLink(fs, t)
                    ELSE Exists(fs, t) /\ ~StructureMismatch(fs, run.next, t)
  BY DEF InPlace
<1>1. AimFits /\ Fits /\ (t \in SetNow \/ t \in Rest) /\ phase = "stages"
  BY AtRecord DEF In
<1>2. CASE t \in SetNow
  <2>1. Placed(t)
    BY <1>1, <1>2 DEF Fits, TreeFits
  <2> QED BY <2>1 DEF Placed, HoldsCopy, Exists, IsDir, IsLink, FileOf, LinkTo, StructureMismatch
<1>3. CASE t \in Rest
  <2>1. fs[t] = before[t]
    BY <1>1, <1>3 DEF Fits, TreeFits
  <2>2. IF run.next[t].method = "symlink" THEN run.skip /\ before[t] = LinkTo(run.next[t].src)
        ELSE Exists(before, t) /\ ~run.recopy
    BY <1>1, <1>3 DEF AimFits
  <2>3. CASE run.next[t].method = "symlink"
    BY <2>1, <2>2, <2>3 DEF IsLink, LinkTo
  <2>4. CASE run.next[t].method # "symlink"
    <3>1. /\ t \in Copies(run.next) /\ Exists(before, t) /\ t \notin Whole.copies
          /\ Closed(before) /\ before \in Tree /\ Whole.conflicts = {} /\ IsManifest(run.next)
      <4>1. Closed(before) /\ Whole.conflicts = {}
        BY <1>1 DEF RunBasis, RunInv, Grounded, UnderWay
      <4>2. IsManifest(run.next) /\ before \in Tree
        BY DEF RunBasis, IInv, TypeOK, IsRun
      <4>3. t \in Copies(run.next)
        BY <2>4, <4>2, ManifestTypes DEF Symlinks
      <4>4. t \notin Whole.copies
        BY <1>3, <2>2, <2>4, AimParts DEF RunBasis, Rest
      <4> QED BY <2>2, <2>4, <4>1, <4>2, <4>3, <4>4
    <3>2. t \notin UnderLink(before, run.next)
      <4>1. InRealDir(before, t)
        BY <3>1, ManifestTypes DEF Closed
      <4> QED BY <4>1 DEF UnderLink, SymlinksAbove, InRealDir, IsDir, IsLink
    <3>3. t \notin Mismatched(before, run.base, run.next)
      <4>1. ASSUME t \in Blocked(before, run.base, run.next) PROVE FALSE
        <5>1. run.backup /\ t \in Moved(before, run.base, run.next)
          BY <3>1, <4>1 DEF Whole, Compute, Stuck
        <5>2. t \in Whole.copies
          BY <3>1, <5>1 DEF Whole, Compute, Cleared, SetAside
        <5> QED BY <3>1, <5>2
      <4> QED BY <4>1 DEF Blocked
    <3>4. t \notin Swapped(before, run.base, run.next)
      BY <3>1 DEF Whole, Compute
    <3>5. ~StructureMismatch(before, run.next, t)
      BY <3>1, <3>2, <3>3, <3>4 DEF Mismatched, Present
    <3> QED BY <2>1, <2>4, <3>1, <3>5 DEF StructureMismatch, IsDir, Exists
  <2> QED BY <2>3, <2>4
<1> QED BY <1>1, <1>2, <1>3

-----------------------------------------------------------------------------
(* The invariant.                                                           *)

\* --backup is no option, or no run crashes: what a backup moved away and the
\* copy that was begun in its place are more than a plan can tell apart.
Unbacked == MaxCrashes = 0 \/ \A mod \in Modifiers : ~mod.backup

Accepted ==
  LET p == Compute(fs, Baseline, run.next, run.backup) IN p.conflicts = {} /\ ~p.failed

Opened == Sound /\ run.base = Baseline /\ (~run.backup => HalfWay)

ReapplyInv ==
  /\ phase \in {"stages", "unwind"} => Opened
  /\ phase \in {"commit", "discard"} => record # NoRecord /\ record.man = run.next /\ InPlace
  /\ phase = "teardown" => run.op = "reset"
  /\ run.backup => \E mod \in Modifiers : mod.backup
  /\ ReapplyNotRefused

LEMMA StillOpened ==
  ASSUME Opened, UNCHANGED <<run, before, record, gens, cur>>, ~run.backup => HalfWay'
  PROVE  Opened'
<1>1. Sound'
  BY DEF Opened, Sound, Whole
<1> QED BY <1>1 DEF Opened, Baseline

LEMMA OpensSound ==
  ASSUME EntriesApart, RunBasis, phase = "idle", NEW m \in Manifests, NEW backup \in BOOLEAN,
         Compute(fs, Baseline, m, backup).conflicts = {}, ~Compute(fs, Baseline, m, backup).failed,
         run'.next = m, run'.base = Baseline, run'.backup = backup,
         UNCHANGED <<fs, record, gens, cur, before, journal>>
  PROVE  Opened'
<1>1. before = fs /\ journal = << >> /\ Closed(fs)
  BY DEF RunBasis, IdleFits, JournalInv, TreeInv
<1>2. Whole' = Compute(fs, Baseline, m, backup)
  BY <1>1 DEF Whole
<1>3. Sound'
  BY <1>1, <1>2, BaselineApart DEF Sound, RunBasis
<1>4. Baseline' = Baseline
  BY DEF Baseline
<1>5. HalfWay'
  BY <1>1 DEF HalfWay, MayHold
<1> QED BY <1>3, <1>4, <1>5 DEF Opened

LEMMA BeginReapply ==
  ASSUME phase' # "idle",
         phase' \in {"stages", "unwind"} => Opened',
         phase' \notin {"commit", "discard"},
         phase' = "teardown" => run'.op = "reset",
         run'.backup => \E mod \in Modifiers : mod.backup
  PROVE  ReapplyInv'
BY DEF ReapplyInv, ReapplyNotRefused

LEMMA EndReapply ==
  ASSUME phase' = "idle", outcome' # "interrupted" \/ run'.op # "apply", ~run'.backup
  PROVE  ReapplyInv'
BY DEF ReapplyInv, ReapplyNotRefused

LEMMA StartReapply ==
  ASSUME EntriesApart, RunBasis, Start
  PROVE  ReapplyInv'
<1>1. ASSUME Refuse PROVE ReapplyInv'
  BY <1>1, EndReapply DEF Refuse, End, NoRun
<1>2. ASSUME NEW m \in Manifests, NEW mod \in Modifiers, StartApply(m, mod) PROVE ReapplyInv'
  <2> DEFINE c == Compute(fs, Baseline, m, mod.backup)
             k == WithRecopy(c, m, mod.recopy)
             r == [op |-> "apply", next |-> m, base |-> Baseline, farm |-> m,
                   backup |-> mod.backup, recopy |-> mod.recopy, skip |-> SkipsGeneration(m), selected |-> {}]
             C == IF mod.recopy THEN UNION {At(t) : t \in Copies(m)} ELSE {}
  <2>1. mod.backup \in BOOLEAN
    BY EngineAssumption
  <2>2. \/ Refuse
        \/ /\ ~k.failed /\ k.conflicts = {} /\ phase = "idle" /\ UNCHANGED <<record, gens, cur>>
           /\ \E p, A : Begin(r, p, A, "unwind") \/ Begin(r, p, A, "stages")
    BY <1>2 DEF StartApply
  <2>3. k.conflicts = c.conflicts /\ k.failed = c.failed
    <3>1. c \in Plan
      <4>1. fs \in Tree /\ IsManifest(Baseline) /\ IsManifest(m)
        BY BaselineType, EngineAssumption DEF RunBasis, IInv, TypeOK
      <4> QED BY <2>1, <4>1, ComputeType
    <3> HIDE DEF c
    <3> QED BY <3>1 DEF WithRecopy, Plan
  <2> HIDE DEF c, k
  <2>4. ASSUME ~k.failed, k.conflicts = {}, phase = "idle", UNCHANGED <<record, gens, cur>>,
               NEW p, NEW A, Begin(r, p, A, "unwind") \/ Begin(r, p, A, "stages")
        PROVE  ReapplyInv'
    <3>1. /\ run' = r /\ phase' \in {"unwind", "stages"} /\ UNCHANGED <<fs, before, journal>>
      BY <2>4 DEF Begin
    <3>2. run'.next = m /\ run'.base = Baseline /\ run'.backup = mod.backup
      BY <3>1
    <3>3. Opened'
      BY <2>1, <2>3, <2>4, <3>1, <3>2, OpensSound DEF c
    <3> QED BY <3>1, <3>2, <3>3, BeginReapply
  <2> QED BY <1>1, <2>2, <2>4
<1>3. ASSUME StartRollback PROVE ReapplyInv'
  <2> DEFINE m == gens[cur - 1]
             r == [op |-> "rollback", next |-> m, base |-> Baseline, farm |-> m,
                   backup |-> FALSE, recopy |-> FALSE, skip |-> FALSE, selected |-> {}]
  <2>1. \/ Refuse
        \/ /\ Compute(fs, Baseline, m, FALSE).conflicts = {} /\ ~Compute(fs, Baseline, m, FALSE).failed
           /\ phase = "idle" /\ cur > 1 /\ UNCHANGED <<record, gens, cur>>
           /\ \E p : Begin(r, p, {}, "stages")
    BY <1>3 DEF StartRollback, profileVars
  <2>2. ASSUME ~Refuse PROVE ReapplyInv'
    <3>1. /\ run' = r /\ phase' = "stages" /\ UNCHANGED <<fs, before, journal>>
      BY <2>1, <2>2 DEF Begin
    <3>2. run'.next = m /\ run'.base = Baseline /\ run'.backup = FALSE
      BY <3>1
    <3>3. m \in Manifests
      <4>1. cur > 1 /\ cur \in 0 .. Len(gens) /\ gens \in Seq(Manifests)
        BY <2>1, <2>2 DEF RunBasis, IInv, TypeOK
      <4> QED BY <4>1
    <3> HIDE DEF m
    <3>4. Opened'
      BY <2>1, <2>2, <3>1, <3>2, <3>3, OpensSound
    <3> QED BY <3>1, <3>2, <3>4, BeginReapply
  <2> QED BY <1>1, <2>2
<1>4. ASSUME NEW T \in SUBSET DOMAIN Baseline, StartReset(T) PROVE ReapplyInv'
  <2> DEFINE r == [op |-> "reset", next |-> NoEntries, base |-> Baseline, farm |-> BaselineFarm,
                   backup |-> FALSE, recopy |-> FALSE, skip |-> FALSE, selected |-> T]
  <2>1. Refuse \/ \E p : Ask(r, p) \/ \E A : Begin(r, p, A, "teardown")
    BY <1>4 DEF StartReset
  <2>2. ASSUME NEW p, Ask(r, p) \/ \E A : Begin(r, p, A, "teardown") PROVE ReapplyInv'
    <3>1. phase' = "teardown" /\ run' = r
      BY <2>2 DEF Begin, Ask
    <3>2. run'.op = "reset" /\ run'.backup = FALSE
      BY <3>1
    <3> QED BY <3>1, <3>2, BeginReapply
  <2> QED BY <1>1, <2>1, <2>2
<1> QED BY <1>2, <1>3, <1>4 DEF Start

LEMMA StageKeepsRun ==
  ASSUME StageStep
  PROVE  UNCHANGED <<run, before, record, gens, cur>>
<1>1. ASSUME NEW p, PreRemoveUnlink(p) \/ PreRemoveRmdir(p) \/ BackUp(p) \/ PlaceNew(p)
      PROVE  UNCHANGED <<run, before, record, gens, cur>>
  BY <1>1 DEF PreRemoveUnlink, PreRemoveRmdir, BackUp, PlaceNew, Writes, profileVars, ghostVars
<1>2. ASSUME NEW t, RelinkUnlink(t) \/ RelinkSymlink(t) \/ RecopyAside(t) \/ CopyStart(t) \/ CopyFinish(t)
      PROVE  UNCHANGED <<run, before, record, gens, cur>>
  BY <1>2 DEF RelinkUnlink, RelinkSymlink, RecopyAside, CopyStart, CopyFinish, Writes, profileVars, ghostVars
<1>3. ASSUME NEW t, ResetCopy(t) \/ RemoveStale(t) \/ PruneAncestor
      PROVE  UNCHANGED <<run, before, record, gens, cur>>
  BY <1>3 DEF ResetCopy, RemoveStale, PruneAncestor, Writes, profileVars, ghostVars
<1>4. ASSUME NEW t, CopyStuck(t) \/ StageStuck(t)
      PROVE  UNCHANGED <<run, before, record, gens, cur>>
  BY <1>4 DEF CopyStuck, StageStuck, Fails, profileVars, ghostVars
<1> QED BY <1>1, <1>2, <1>3, <1>4 DEF StageStep

LEMMA StageReapply ==
  ASSUME NamesApart, NamesDiffer, RunBasis, TidyInv, ReapplyInv, StageStep
  PROVE  ReapplyInv'
<1>1. /\ phase \in {"stages", "teardown"} /\ (phase' = phase \/ phase' = "unwind")
      /\ UNCHANGED <<run, before, record, gens, cur>>
  BY StageStarted, StagePhase, StageKeepsRun
<1>2. CASE phase = "teardown"
  <2>1. ASSUME NEW p, PreRemoveUnlink(p) \/ PreRemoveRmdir(p) \/ BackUp(p) \/ PlaceNew(p) \/ RelinkUnlink(p)
               \/ RelinkSymlink(p) \/ RecopyAside(p) \/ CopyStart(p) \/ CopyFinish(p) \/ CopyStuck(p)
        PROVE FALSE
    BY <1>2, <2>1 DEF PreRemoveUnlink, PreRemoveRmdir, BackUp, PlaceNew, RelinkUnlink, RelinkSymlink, RecopyAside,
                      CopyStart, CopyFinish, CopyStuck, In
  <2>2. ASSUME NEW p, StageStuck(p) PROVE FALSE
    BY <1>2, <2>2 DEF StageStuck, Refuses, In
  <2>3. ASSUME NEW p, ResetCopy(p) \/ RemoveStale(p) \/ PruneAncestor PROVE phase' = "teardown"
    BY <1>2, <2>3 DEF ResetCopy, RemoveStale, PruneAncestor, Writes
  <2>4. phase' = "teardown"
    BY <2>1, <2>2, <2>3 DEF StageStep
  <2> QED BY <1>1, <1>2, <2>4, BeginReapply DEF ReapplyInv
<1>3. CASE phase = "stages"
  <2>1. Opened /\ TidyTree(fs) /\ (run.backup => \E mod \in Modifiers : mod.backup)
    BY <1>3 DEF ReapplyInv, TidyInv
  <2>2. ASSUME ~run.backup PROVE HalfWay'
    <3>1. HalfWay
      BY <2>1, <2>2 DEF Opened
    <3>2. plan.backup = {}
      BY <1>3, <2>2, StageBasis DEF RunBasis, Fits, Shrinks, AimFits
    <3>3. CASE \E p : PreRemoveUnlink(p) \/ PreRemoveRmdir(p)
      BY <2>1, <3>1, <3>3, PreRemoveHalf
    <3>4. CASE (\E t \in plan.new : PlaceNew(t)) \/ \E t \in Relinks : RelinkUnlink(t) \/ RelinkSymlink(t)
      BY <3>1, <3>4, PlaceHalf
    <3>5. CASE \E t \in plan.copies : RecopyAside(t)
      BY <3>1, <3>5, AsideHalf
    <3>6. CASE \E t \in plan.copies : CopyStart(t) \/ CopyFinish(t) \/ CopyStuck(t)
      BY <3>1, <3>6, CopyHalf
    <3>7. CASE \E t \in plan.copies : ResetCopy(t)
      BY <1>3, <3>7 DEF ResetCopy
    <3>8. CASE (\E t \in plan.remove : RemoveStale(t)) \/ PruneAncestor
      BY <1>3, <2>1, <3>1, <3>8, RemoveHalf
    <3>9. CASE \E p \in Path : StageStuck(p)
      BY <3>1, <3>9, FailHalf
    <3> QED BY <3>2, <3>3, <3>4, <3>5, <3>6, <3>7, <3>8, <3>9 DEF StageStep
  <2>3. Opened'
    BY <1>1, <2>1, <2>2, StillOpened
  <2> QED BY <1>1, <1>3, <2>1, <2>3, BeginReapply
<1> QED BY <1>1, <1>2, <1>3

\* What is interrupted while the plan is carried out can be carried on.
LEMMA InterruptReapply ==
  ASSUME phase' = "idle", UNCHANGED <<fs, record, gens, cur, run>>, ReapplyInv,
         run.op = "apply" => Accepted
  PROVE  ReapplyInv'
<1>1. run.op = "apply" => Accepted'
  BY DEF Accepted, Baseline
<1> QED BY <1>1 DEF ReapplyInv, ReapplyNotRefused, Accepted

LEMMA CommittedAccepted ==
  ASSUME RunBasis, ReapplyInv, phase \in {"commit", "discard"}
  PROVE  Accepted
<1>1. record # NoRecord /\ record.man = run.next /\ InPlace
  BY DEF ReapplyInv
<1>2. Baseline = run.next
  BY <1>1 DEF Baseline
<1>3. fs \in Tree /\ Closed(fs) /\ IsManifest(run.next) /\ run.backup \in BOOLEAN
  BY DEF RunBasis, IInv, TypeOK, IsRun, TreeInv
<1> QED BY <1>1, <1>2, <1>3, InPlaceAccepted DEF Accepted

LEMMA CrashReapply ==
  ASSUME NamesApart, Unbacked, RunBasis, ReapplyInv, Crash
  PROVE  ReapplyInv'
<1>1. /\ phase' = "idle" /\ UNCHANGED <<fs, record, gens, cur, run>> /\ phase # "idle"
      /\ spent.crashes < MaxCrashes
  BY DEF Crash, End, profileVars
<1>2. ~run.backup
  <2>1. spent.crashes \in Nat /\ MaxCrashes \in Nat
    BY EngineAssumption DEF RunBasis, IInv, TypeOK
  <2>2. MaxCrashes # 0
    BY <1>1, <2>1
  <2> QED BY <2>2 DEF Unbacked, ReapplyInv
<1>3. CASE phase \in {"stages", "unwind"}
  <2>1. Sound /\ run.base = Baseline /\ HalfWay /\ IInv
    BY <1>2, <1>3 DEF ReapplyInv, Opened, RunBasis
  <2>2. Accepted
    BY <1>2, <2>1, HalfWayAccepted DEF Accepted
  <2> QED BY <1>1, <2>2, InterruptReapply
<1>4. CASE phase \in {"commit", "discard"}
  BY <1>1, <1>4, CommittedAccepted, InterruptReapply
<1>5. CASE phase = "teardown"
  <2>1. run.op # "apply"
    BY <1>5 DEF ReapplyInv
  <2> QED BY <1>1, <2>1, InterruptReapply
<1> QED BY <1>1, <1>3, <1>4, <1>5 DEF RunBasis, IInv, TypeOK

LEMMA FinishReapply ==
  ASSUME NamesApart, RunBasis, ReapplyInv, Finish
  PROVE  ReapplyInv'
<1>1. CASE WriteRecord
  <2>1. /\ In("record") /\ phase = "stages" /\ UNCHANGED <<fs, run>> /\ phase' \in {"commit", "discard"}
        /\ record' = [man |-> run.next, farm |-> run.farm]
    BY <1>1 DEF WriteRecord, In
  <2>2. record' # NoRecord /\ record'.man = run'.next
    BY <2>1, EngineAssumption DEF NoRecord, RunBasis, IInv, RunFits
  <2>3. InPlace'
    BY <2>1, RecordInPlace DEF InPlace
  <2> QED BY <2>1, <2>2, <2>3 DEF ReapplyInv, ReapplyNotRefused
<1>2. CASE Commit
  <2>1. phase = "commit" /\ phase' = "discard" /\ UNCHANGED <<fs, run, record>>
    BY <1>2 DEF Commit
  <2>2. InPlace'
    BY <2>1 DEF ReapplyInv, InPlace
  <2> QED BY <2>1, <2>2 DEF ReapplyInv, ReapplyNotRefused
<1>3. CASE DiscardJournal \/ Unwound \/ RecordAfterReset
  BY <1>3, EndReapply DEF DiscardJournal, Unwound, RecordAfterReset, End, NoRun
<1>4. CASE UndoStep
  <2>1. phase = "unwind" /\ phase' = "unwind" /\ UNCHANGED <<run, before, record, gens, cur>>
    BY <1>4 DEF UndoStep, profileVars, ghostVars
  <2>2. Opened
    BY <2>1 DEF ReapplyInv
  <2>3. ~run.backup => HalfWay'
    BY <1>4, <2>2, UndoHalf DEF Opened, Sound, Apart
  <2>4. Opened'
    BY <2>1, <2>2, <2>3, StillOpened
  <2> QED BY <2>1, <2>4, BeginReapply DEF ReapplyInv
<1> QED BY <1>1, <1>2, <1>3, <1>4 DEF Finish

LEMMA FailureReapply ==
  ASSUME NamesApart, RunBasis, ReapplyInv, Failure
  PROVE  ReapplyInv'
<1>1. CASE StageFault \/ (PruneFault /\ phase = "stages")
  <2>1. phase = "stages" /\ phase' \in {"stages", "unwind"} /\ UNCHANGED <<run, before, record, gens, cur>>
    BY <1>1 DEF StageFault, PruneFault, Fails, profileVars
  <2>2. Opened
    BY <2>1 DEF ReapplyInv
  <2>3. ~run.backup => HalfWay'
    BY <1>1, <2>2, FailHalf DEF Opened
  <2>4. Opened'
    BY <2>1, <2>2, <2>3, StillOpened
  <2> QED BY <2>1, <2>4, BeginReapply DEF ReapplyInv
<1>2. CASE ResetFault \/ (PruneFault /\ phase = "teardown")
  <2>1. phase = "teardown" /\ phase' = "teardown" /\ UNCHANGED run
    BY <1>2 DEF ResetFault, PruneFault
  <2> QED BY <2>1, BeginReapply DEF ReapplyInv
<1>3. CASE CommitFault
  <2>1. /\ phase = "commit" /\ phase' = "idle" /\ UNCHANGED <<fs, record, gens, cur, run>>
    BY <1>3 DEF CommitFault, End, profileVars
  <2> QED BY <2>1, CommittedAccepted, InterruptReapply
<1>4. CASE ResetRecordFault
  BY <1>4, EndReapply DEF ResetRecordFault, End, NoRun
<1>5. PruneFault => phase \in {"stages", "teardown"}
  BY DEF PruneFault
<1> QED BY <1>1, <1>2, <1>3, <1>4, <1>5 DEF Failure

LEMMA NextReapply ==
  ASSUME NamesApart, NamesDiffer, EntriesApart, Unbacked
  PROVE  RunBasis /\ TidyInv /\ ReapplyInv /\ [Next]_vars => ReapplyInv'
<1> SUFFICES ASSUME RunBasis, TidyInv, ReapplyInv, [Next]_vars PROVE ReapplyInv'
  OBVIOUS
<1>1. CASE UserStep
  <2>1. phase' = "idle" /\ outcome' = "none" /\ run' = NoRun
    BY <1>1 DEF EntriesApart, UserStep, UserWrite, UserMkdir, UserRelink, UserDelete, UserMay, Edited
  <2> QED BY <2>1, EndReapply DEF NoRun
<1>2. CASE UNCHANGED vars
  <2>1. UNCHANGED <<fs, journal, run, before, phase, record, gens, cur, outcome>>
    BY <1>2 DEF vars, engineVars, ghostVars, profileVars
  <2>2. Opened => Opened'
    <3>1. HalfWay => HalfWay'
      BY <2>1 DEF HalfWay, Brings, MayHold, Parents
    <3> QED BY <2>1, <3>1, StillOpened DEF Opened
  <2>3. InPlace => InPlace'
    BY <2>1 DEF InPlace
  <2>4. ReapplyNotRefused => ReapplyNotRefused'
    BY <2>1 DEF ReapplyNotRefused, Baseline
  <2> QED BY <2>1, <2>2, <2>3, <2>4 DEF ReapplyInv
<1>3. CASE AnswerReset
  <2>1. CASE Refuse
    BY <2>1, EndReapply DEF Refuse, End, NoRun
  <2>2. CASE ~Refuse
    BY <1>3, <2>2, BeginReapply DEF AnswerReset, ReapplyInv
  <2> QED BY <2>1, <2>2
<1> QED BY <1>1, <1>2, <1>3, StartReapply, StageReapply, FinishReapply, FailureReapply, CrashReapply DEF Next, RunStep

\* An apply that a crash or a failing commit interrupts, wherever it was and
\* whatever it was undoing, is not refused when it is run again on the tree as
\* it was left: the plan made of that tree has no conflict ("re-apply
\* converges", engine.go:330; planner.go Compute, undo.go).  The hypotheses on
\* manifests and names are those above; --backup is not combined with crashes.
THEOREM InterruptedReapplies ==
  ASSUME NamesApart, NamesDiffer, EntriesApart, Unbacked
  PROVE  Spec => []ReapplyNotRefused
<1>1. Init => RunBasis /\ TidyInv /\ ReapplyInv
  <2>1. Init => ReapplyInv
    BY DEF Init, ReapplyInv, ReapplyNotRefused, NoRun
  <2> QED BY <2>1, InitBasis, InitTidy
<1>2. RunBasis /\ TidyInv /\ ReapplyInv /\ [Next]_vars => (RunBasis /\ TidyInv /\ ReapplyInv)'
  <2>1. RunBasis => IInv
    BY DEF RunBasis
  <2> QED BY <2>1, NextBasis, NextTidy, NextReapply
<1>3. ReapplyInv => ReapplyNotRefused
  BY DEF ReapplyInv
<1> QED BY <1>1, <1>2, <1>3, PTL DEF Spec
=============================================================================
