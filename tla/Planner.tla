------------------------------- MODULE Planner -------------------------------
(***************************************************************************)
(* internal/planner: Compute diffs the manifest last applied (prev)        *)
(* against the new one (next) over the tree and returns what to do.  A     *)
(* manifest is a function from targets to entries, which is what byTarget  *)
(* builds; the plan names the targets of each kind of action.  The order   *)
(* of the entries of a manifest is left open.                              *)
(***************************************************************************)
EXTENDS LayatFS

CONSTANTS
  Target,    \* the paths manifests may place at
  BackupOf   \* [Target -> Path]: <target>.<suffix>

ASSUME TargetAssumption ==
  /\ Target \subseteq Path
  /\ BackupOf \in [Target -> Path \ Target]

EntryInfo == [method : {"symlink", "copy"}, src : Src]

IsManifest(m) ==
  /\ DOMAIN m \subseteq Target
  /\ m \in [DOMAIN m -> EntryInfo]

NoEntries == [t \in {} |-> None]

Plan == [unlink : SUBSET Path, rmdir : SUBSET Path, backup : SUBSET Target,
         new : SUBSET Target, replace : SUBSET Target, foreign : SUBSET Target,
         copies : SUBSET Target, remove : SUBSET Target,
         conflicts : SUBSET Target, failed : BOOLEAN]

NoPlan == [unlink |-> {}, rmdir |-> {}, backup |-> {}, new |-> {},
           replace |-> {}, foreign |-> {}, copies |-> {}, remove |-> {},
           conflicts |-> {}, failed |-> FALSE]

-----------------------------------------------------------------------------
Symlinks(m) == {t \in DOMAIN m : m[t].method = "symlink"}
Copies(m) == {t \in DOMAIN m : m[t].method = "copy"}

\* Mutant: any link where prev has an entry counts.
AnyLinkRecorded(f, prev, p) == p \in DOMAIN prev /\ IsLink(f, p)

\* The link at p is the one prev recorded.
RecordedLink(f, prev, p) == p \in DOMAIN prev /\ f[p] = LinkTo(prev[p].src)

\* A recorded link the new manifest drops: it may be taken out of the way.
Dropped(f, prev, next, p) == p \notin DOMAIN next /\ RecordedLink(f, prev, p)

SymlinksAbove(f, t) == {q \in Above[t] : IsLink(f, q)}

\* Mutant: a directory without a recorded link below it is not migrated.
MigratableFarm(f, prev, next, t) ==
  /\ \E q \in Below[t] : Dropped(f, prev, next, q)
  /\ \A q \in Below[t] : /\ ~IsFile(f, q)
                         /\ IsLink(f, q) => Dropped(f, prev, next, q)

\* classifyDirMigration: nothing below t but empty directories and dropped links.
Migratable(f, prev, next, t) ==
  \A q \in Below[t] : /\ ~IsFile(f, q)
                      /\ IsLink(f, q) => Dropped(f, prev, next, q)

\* copyStructureMismatch: a symlink at the target counts as a file.
StructureMismatch(f, next, t) == (next[t].src \in DirSrc) # IsDir(f, t)

-----------------------------------------------------------------------------
(* Entries below a symlink: a conflict, unless the link is on its way out.  *)

UnderLink(f, next) == {t \in DOMAIN next : SymlinksAbove(f, t) # {}}

Beneath(f, prev, next) ==
  {t \in UnderLink(f, next) : \A q \in SymlinksAbove(f, t) : Dropped(f, prev, next, q)}

Ancestors(f, prev, next) == UNION {SymlinksAbove(f, t) : t \in Beneath(f, prev, next)}

(* The symlink entries, by what is at their target. *)

Links(f, next) == Symlinks(next) \ UnderLink(f, next)
Occupied(f, next) == {t \in Links(f, next) : IsDir(f, t)}
Migrated(f, prev, next) == {t \in Occupied(f, next) : Migratable(f, prev, next, t)}
InMigrated(f, prev, next) == UNION {At(t) : t \in Migrated(f, prev, next)}

(* The copy entries, by what is at their target (classifyCopy). *)

Swapped(f, prev, next) ==
  {t \in (Copies(next) \cap Symlinks(prev)) \ UnderLink(f, next) : RecordedLink(f, prev, t)}

Present(f, prev, next) ==
  {t \in Copies(next) \ UnderLink(f, next) : Exists(f, t)} \ Swapped(f, prev, next)

AbsentCopies(f, next) == {t \in Copies(next) \ UnderLink(f, next) : ~Exists(f, t)}

Mismatched(f, prev, next) ==
  {t \in Present(f, prev, next) : StructureMismatch(f, next, t)}

Unknown(f, prev, next) ==
  (Present(f, prev, next) \ Mismatched(f, prev, next)) \ Copies(prev)

(* What keeps an entry from its target: a conflict, or renamed aside.       *)

Blocked(f, prev, next) ==
  (Occupied(f, next) \ Migrated(f, prev, next))
    \cup {t \in Links(f, next) : IsFile(f, t)} \cup Mismatched(f, prev, next)

Moved(f, prev, next) ==
  {t \in Blocked(f, prev, next) \cup Unknown(f, prev, next) : ~Exists(f, BackupOf[t])}

SetAside(f, prev, next, backup) == IF backup THEN Moved(f, prev, next) ELSE {}

Stuck(f, prev, next, backup) ==
  IF backup THEN (Blocked(f, prev, next) \cup Unknown(f, prev, next)) \ Moved(f, prev, next)
            ELSE Blocked(f, prev, next)

\* What a pre-removal or a backup leaves free for an entry.
Cleared(f, prev, next, backup) == Beneath(f, prev, next) \cup SetAside(f, prev, next, backup)

Unlinked(f, prev, next) ==
  Ancestors(f, prev, next) \cup Swapped(f, prev, next)
    \cup {q \in InMigrated(f, prev, next) : IsLink(f, q)}

\* markDirEntriesPreRemoved: entries recorded beneath a backed-up directory
\* leave with it.
Leaving(f, prev, next, backup) ==
  IF backup THEN UNION {At(t) : t \in Occupied(f, next) \ Migrated(f, prev, next)} ELSE {}

Stale(f, prev, next, backup) ==
  ((Symlinks(prev) \ DOMAIN next) \ Unlinked(f, prev, next))
    \ Leaving(f, prev, next, backup)

-----------------------------------------------------------------------------
Compute(f, prev, next, backup) ==
  [unlink    |-> Unlinked(f, prev, next),
   rmdir     |-> {q \in InMigrated(f, prev, next) : IsDir(f, q)},
   backup    |-> SetAside(f, prev, next, backup),
   new       |-> {t \in Links(f, next) : ~Exists(f, t)} \cup Migrated(f, prev, next)
                   \cup (Cleared(f, prev, next, backup) \cap Symlinks(next)),
   replace   |-> {t \in Links(f, next) : IsLink(f, t) /\ RecordedLink(f, prev, t)},
   foreign   |-> {t \in Links(f, next) : IsLink(f, t) /\ ~RecordedLink(f, prev, t)},
   copies    |-> AbsentCopies(f, next) \cup Swapped(f, prev, next)
                   \cup (Cleared(f, prev, next, backup) \cap Copies(next)),
   remove    |-> {t \in Stale(f, prev, next, backup) : RecordedLink(f, prev, t)},
   conflicts |-> (UnderLink(f, next) \ Beneath(f, prev, next)) \cup Stuck(f, prev, next, backup),
   failed    |-> \E t \in DOMAIN next \cup Stale(f, prev, next, backup) : NotDirAbove(f, t)]
=============================================================================
