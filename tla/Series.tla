-------------------------------- MODULE Series --------------------------------
(***************************************************************************)
(* The profile series under one profile base, and the processes that lock  *)
(* and delete them: runs (apply, rollback and reset, which is Engine seen  *)
(* from outside) and prune.  A root has one series, the <roothash>         *)
(* directory with its backref .root, and one profileDir for every name in  *)
(* it.  The lock of a profile is a flock on its profileDir, so it belongs  *)
(* to the inode and not to the path: a profileDir that was removed and     *)
(* made again is another lock.                                             *)
(***************************************************************************)
EXTENDS Naturals, FiniteSets

CONSTANTS
  Root,        \* placement roots; each has one series
  Name,        \* profile names
  Runner,      \* processes that apply, roll back or reset
  Pruner,      \* processes that prune
  Nobody,      \* no process
  MaxInodes, MaxRuns, MaxRootChanges, MaxCrashes   \* bounds

ASSUME SeriesAssumption ==
  /\ Runner \cap Pruner = {} /\ Nobody \notin Runner \cup Pruner
  /\ {MaxInodes, MaxRuns, MaxRootChanges, MaxCrashes} \subseteq Nat

VARIABLES
  root,     \* the roots that exist
  series,   \* what there is of a root's series: nothing, a directory, its backref
  dir,      \* the inode of a profileDir; 0 when there is none
  holder,   \* who holds the flock of an inode
  runner,   \* what each run is doing
  pruner,   \* what each prune is doing
  spent     \* the bounded events so far

vars == <<root, series, dir, holder, runner, pruner, spent>>

Process == Runner \cup Pruner
Inode == 1 .. MaxInodes

-----------------------------------------------------------------------------
\* wait: not --no-wait; asks: a reset that asks the user.
IdleRun(r, n) ==
  [at |-> "idle", root |-> r, name |-> n, inode |-> 0, wait |-> TRUE, asks |-> FALSE]

\* judging: roots to judge; found: the series to delete; names: their profileDirs
\* as listed; todo: those of series root that are left to lock, or to remove.
IdlePrune(r) ==
  [at |-> "idle", judging |-> {}, found |-> {}, names |-> [q \in Root |-> {}],
   root |-> r, todo |-> {}, inode |-> 0]

Init ==
  /\ root \in SUBSET Root
  /\ series = [r \in Root |-> "none"]
  /\ dir = [r \in Root |-> [n \in Name |-> 0]]
  /\ holder = [i \in Inode |-> Nobody]
  /\ \E r \in Root, n \in Name :
       /\ runner = [a \in Runner |-> IdleRun(r, n)]
       /\ pruner = [p \in Pruner |-> IdlePrune(r)]
  /\ spent = [inodes |-> 0, runs |-> 0, roots |-> 0, crashes |-> 0]

Listed(r) == {n \in Name : dir[r][n] # 0}

\* The kernel drops the flocks of a process that closes its files or ends.
Released(p) == [i \in Inode |-> IF holder[i] = p THEN Nobody ELSE holder[i]]

-----------------------------------------------------------------------------
(* A run, from its start to the release of its lock.                        *)

RunAt(a, step) == runner[a].at = step
RunGoes(a, step) == runner' = [runner EXCEPT ![a].at = step]
RunEnds(a) == runner' = [runner EXCEPT ![a] = IdleRun(@.root, @.name)]

Started(a, step, r, n, wait, asks) ==
  /\ RunAt(a, "idle") /\ spent.runs < MaxRuns
  /\ runner' = [runner EXCEPT ![a] = [at |-> step, root |-> r, name |-> n, inode |-> 0,
                                      wait |-> wait, asks |-> asks]]
  /\ spent' = [spent EXCEPT !.runs = @ + 1]
  /\ UNCHANGED <<root, series, dir, holder, pruner>>

\* Apply, and reset --yes, prepare the profileDir.  A --root or a fixed root need
\* not exist.
StartRun(a, r, n, w) == Started(a, "mkdir", r, n, w, FALSE)

\* So does a reset that will ask.
StartReset(a, r, n) == Started(a, "mkdir", r, n, TRUE, TRUE)

\* Rollback wants it to be there.
StartRollback(a, r, n) == dir[r][n] # 0 /\ Started(a, "open", r, n, TRUE, FALSE)

\* The series directory, made for the profileDir and once more for the backref.
MakeSeries(a) ==
  /\ RunAt(a, "mkdir") \/ RunAt(a, "mkdirBackref")
  /\ series' = [series EXCEPT ![runner[a].root] = IF @ = "none" THEN "bare" ELSE @]
  /\ RunGoes(a, IF RunAt(a, "mkdir") THEN "mkdirName" ELSE "backref")
  /\ UNCHANGED <<root, dir, holder, pruner, spent>>

MakeProfileDir(a) ==
  LET r == runner[a].root
      n == runner[a].name
  IN /\ RunAt(a, "mkdirName") /\ series[r] # "none"
     /\ RunGoes(a, "mkdirBackref")
     /\ \/ /\ dir[r][n] = 0 /\ spent.inodes < MaxInodes
           /\ dir' = [dir EXCEPT ![r][n] = spent.inodes + 1]
           /\ spent' = [spent EXCEPT !.inodes = @ + 1]
        \/ /\ dir[r][n] # 0
           /\ UNCHANGED <<dir, spent>>
     /\ UNCHANGED <<root, series, holder, pruner>>

WriteBackref(a) ==
  /\ RunAt(a, "backref") /\ series[runner[a].root] # "none"
  /\ series' = [series EXCEPT ![runner[a].root] = "marked"]
  /\ RunGoes(a, "open")
  /\ UNCHANGED <<root, dir, holder, pruner, spent>>

\* Mutant: a profileDir that is gone opens all the same.
OpenMissing(a) ==
  /\ RunAt(a, "open")
  /\ runner' = [runner EXCEPT ![a].at = "flock",
                              ![a].inode = dir[runner[a].root][runner[a].name]]
  /\ UNCHANGED <<root, series, dir, holder, pruner, spent>>

\* lock.Acquire opens the profileDir, then locks what it opened.
Open(a) ==
  LET i == dir[runner[a].root][runner[a].name]
  IN /\ RunAt(a, "open") /\ i # 0
     /\ runner' = [runner EXCEPT ![a].at = "flock", ![a].inode = i]
     /\ UNCHANGED <<root, series, dir, holder, pruner, spent>>

\* A reset that has planned asks before it removes, with the lock held, unless it
\* has nothing to remove or fails.  From there on the options make no difference.
Flock(a) ==
  /\ RunAt(a, "flock") /\ holder[runner[a].inode] = Nobody
  /\ holder' = [holder EXCEPT ![runner[a].inode] = a]
  /\ \E step \in {"locked"} \cup (IF runner[a].asks THEN {"asking"} ELSE {}) :
       runner' = [runner EXCEPT ![a].at = step, ![a].wait = TRUE, ![a].asks = FALSE]
  /\ UNCHANGED <<root, series, dir, pruner, spent>>

\* The call finds gone what it needs, or, with --no-wait, the lock held.
GiveUp(a) ==
  LET r == runner[a].root
  IN /\ \/ runner[a].at \in {"mkdirName", "backref"} /\ series[r] = "none"
        \/ RunAt(a, "open") /\ dir[r][runner[a].name] = 0
        \/ RunAt(a, "flock") /\ ~runner[a].wait /\ holder[runner[a].inode] # Nobody
     /\ RunEnds(a)
     /\ UNCHANGED <<root, series, dir, holder, pruner, spent>>

\* Whatever the answer, the reset goes on by itself.
Answer(a) ==
  /\ RunAt(a, "asking")
  /\ RunGoes(a, "locked")
  /\ UNCHANGED <<root, series, dir, holder, pruner, spent>>

\* The run places its entries, which makes the root, or
\* fails, or a reset is done; then it releases.
EndRun(a) ==
  /\ RunAt(a, "locked")
  /\ root' \in {root, root \cup {runner[a].root}}
  /\ holder' = Released(a)
  /\ RunEnds(a)
  /\ UNCHANGED <<series, dir, pruner, spent>>

-----------------------------------------------------------------------------
(* Prune.                                                                   *)

PruneAt(p, step) == pruner[p].at = step
PruneGoes(p, step) == pruner' = [pruner EXCEPT ![p].at = step]
PruneEnds(p) == pruner' = [pruner EXCEPT ![p] = IdlePrune(@.root)]

\* The part of a prune between two series.
StartPrune(p) ==
  /\ PruneAt(p, "idle")
  /\ pruner' = [pruner EXCEPT ![p].at = "judge", ![p].judging = Root, ![p].found = {}]
  /\ UNCHANGED <<root, series, dir, holder, runner, spent>>

\* Mutant: what is judged is locked at once, before the user is asked.
JudgeHoldingLocks(p, r) ==
  /\ PruneAt(p, "judge") /\ r \in pruner[p].judging
  /\ pruner' = [pruner EXCEPT
       ![p].judging = @ \ {r},
       ![p].found = IF series[r] = "marked" /\ r \notin root THEN @ \cup {r} ELSE @,
       ![p].names[r] = Listed(r)]
  /\ holder' = [i \in Inode |->
       IF holder[i] = Nobody /\ \E n \in Name : dir[r][n] = i THEN p ELSE holder[i]]
  /\ UNCHANGED <<root, series, dir, runner, spent>>

\* A series is a directory with a backref; one whose root is gone is to delete.
Judge(p, r) ==
  /\ PruneAt(p, "judge") /\ r \in pruner[p].judging
  /\ pruner' = [pruner EXCEPT
       ![p].judging = @ \ {r},
       ![p].found = IF series[r] = "marked" /\ r \notin root THEN @ \cup {r} ELSE @,
       ![p].names[r] = Listed(r)]
  /\ UNCHANGED <<root, series, dir, holder, runner, spent>>

\* The user reads the list of roots and answers, or gave --yes.
Confirm(p) ==
  /\ PruneAt(p, "judge") /\ pruner[p].judging = {}
  /\ PruneGoes(p, "next") \/ PruneEnds(p)
  /\ UNCHANGED <<root, series, dir, holder, runner, spent>>

NextSeries(p) ==
  /\ PruneAt(p, "next")
  /\ \/ \E r \in pruner[p].found :
          pruner' = [pruner EXCEPT ![p].at = "open", ![p].found = @ \ {r}, ![p].root = r,
                                   ![p].todo = pruner[p].names[r]]
     \/ pruner[p].found = {} /\ PruneEnds(p)
  /\ UNCHANGED <<root, series, dir, holder, runner, spent>>

PruneOpen(p, n) ==
  /\ PruneAt(p, "open") /\ n \in pruner[p].todo /\ dir[pruner[p].root][n] # 0
  /\ pruner' = [pruner EXCEPT ![p].at = "flock", ![p].todo = @ \ {n},
                              ![p].inode = dir[pruner[p].root][n]]
  /\ UNCHANGED <<root, series, dir, holder, runner, spent>>

\* Mutant: one name is removed as soon as it is locked.
RemoveAsLocked(p) ==
  LET i == pruner[p].inode
  IN /\ PruneAt(p, "flock") /\ holder[i] = Nobody
     /\ holder' = [holder EXCEPT ![i] = p]
     /\ dir' = [dir EXCEPT ![pruner[p].root] =
                  [n \in Name |-> IF @[n] = i THEN 0 ELSE @[n]]]
     /\ PruneGoes(p, "open")
     /\ UNCHANGED <<root, series, runner, spent>>

TryFlock(p) ==
  LET i == pruner[p].inode
  IN /\ PruneAt(p, "flock") /\ holder[i] = Nobody
     /\ holder' = [holder EXCEPT ![i] = p]
     /\ PruneGoes(p, "open")
     /\ UNCHANGED <<root, series, dir, runner, spent>>

\* Mutant: a name that cannot be locked is passed over.
SkipOnlyTheName(p) ==
  /\ PruneAt(p, "flock") /\ holder[pruner[p].inode] # Nobody
  /\ PruneGoes(p, "open")
  /\ UNCHANGED <<root, series, dir, holder, runner, spent>>

\* A lock that cannot be taken skips the series.
SkipLocked(p) ==
  /\ \/ PruneAt(p, "open") /\ \E n \in pruner[p].todo : dir[pruner[p].root][n] = 0
     \/ PruneAt(p, "flock") /\ holder[pruner[p].inode] # Nobody
  /\ holder' = Released(p)
  /\ PruneGoes(p, "next")
  /\ UNCHANGED <<root, series, dir, runner, spent>>

\* Mutant: the backref goes before the profileDirs.
RemoveBackrefFirst(p) ==
  /\ PruneAt(p, "open") /\ pruner[p].todo = {}
  /\ series' = [series EXCEPT ![pruner[p].root] = IF @ = "marked" THEN "bare" ELSE @]
  /\ pruner' = [pruner EXCEPT ![p].at = "remove", ![p].todo = pruner[p].names[pruner[p].root]]
  /\ UNCHANGED <<root, dir, holder, runner, spent>>

AllLocked(p) ==
  /\ PruneAt(p, "open") /\ pruner[p].todo = {}
  /\ pruner' = [pruner EXCEPT ![p].at = "remove", ![p].todo = pruner[p].names[pruner[p].root]]
  /\ UNCHANGED <<root, series, dir, holder, runner, spent>>

RemoveProfileDir(p, n) ==
  /\ PruneAt(p, "remove") /\ n \in pruner[p].todo
  /\ dir' = [dir EXCEPT ![pruner[p].root][n] = 0]
  /\ pruner' = [pruner EXCEPT ![p].todo = @ \ {n}]
  /\ UNCHANGED <<root, series, holder, runner, spent>>

RemoveBackref(p) ==
  /\ PruneAt(p, "remove") /\ pruner[p].todo = {}
  /\ series' = [series EXCEPT ![pruner[p].root] = IF @ = "marked" THEN "bare" ELSE @]
  /\ PruneGoes(p, "rmdir")
  /\ UNCHANGED <<root, dir, holder, runner, spent>>

\* os.Remove takes an empty directory; anything else ends the prune with an error.
RemoveSeries(p) ==
  LET r == pruner[p].root
  IN /\ PruneAt(p, "rmdir")
     /\ \/ /\ series[r] = "bare" /\ Listed(r) = {}
           /\ series' = [series EXCEPT ![r] = "none"]
           /\ PruneGoes(p, "next")
        \/ /\ series[r] # "bare" \/ Listed(r) # {}
           /\ UNCHANGED series
           /\ PruneEnds(p)
     /\ holder' = Released(p)
     /\ UNCHANGED <<root, dir, runner, spent>>

-----------------------------------------------------------------------------
(* What happens to processes and roots.                                     *)

Crash(q) ==
  /\ spent.crashes < MaxCrashes
  /\ \/ q \in Runner /\ ~RunAt(q, "idle") /\ RunEnds(q) /\ UNCHANGED pruner
     \/ q \in Pruner /\ ~PruneAt(q, "idle") /\ PruneEnds(q) /\ UNCHANGED runner
  /\ holder' = Released(q)
  /\ spent' = [spent EXCEPT !.crashes = @ + 1]
  /\ UNCHANGED <<root, series, dir>>

\* A root is deleted or unmounted, and comes back.
RootChanges(r) ==
  /\ spent.roots < MaxRootChanges
  /\ root' = IF r \in root THEN root \ {r} ELSE root \cup {r}
  /\ spent' = [spent EXCEPT !.roots = @ + 1]
  /\ UNCHANGED <<series, dir, holder, runner, pruner>>

RunStep(a) ==
  \/ MakeSeries(a) \/ MakeProfileDir(a) \/ WriteBackref(a)
  \/ Open(a) \/ Flock(a) \/ GiveUp(a) \/ EndRun(a)

PruneStep(p) ==
  \/ \E r \in Root : Judge(p, r)
  \/ NextSeries(p)
  \/ \E n \in Name : PruneOpen(p, n) \/ RemoveProfileDir(p, n)
  \/ TryFlock(p) \/ SkipLocked(p) \/ AllLocked(p) \/ RemoveBackref(p) \/ RemoveSeries(p)

Next ==
  \/ \E a \in Runner :
       \/ \E r \in Root, n \in Name :
            \/ \E w \in BOOLEAN : StartRun(a, r, n, w)
            \/ StartReset(a, r, n)
            \/ StartRollback(a, r, n)
       \/ RunStep(a) \/ Answer(a)
  \/ \E p \in Pruner : StartPrune(p) \/ Confirm(p) \/ PruneStep(p)
  \/ \E q \in Process : Crash(q)
  \/ \E r \in Root : RootChanges(r)

Spec == Init /\ [][Next]_vars

\* Started processes keep running; nobody has to start one, or to answer prune or
\* reset.
FairSpec ==
  /\ Spec
  /\ \A a \in Runner : WF_vars(RunStep(a))
  /\ \A p \in Pruner : WF_vars(PruneStep(p))

-----------------------------------------------------------------------------
(* Properties.                                                              *)

RunSteps == {"idle", "mkdir", "mkdirName", "mkdirBackref", "backref", "open", "flock",
             "locked", "asking"}
PruneSteps == {"idle", "judge", "next", "open", "flock", "remove", "rmdir"}

Run == [at : RunSteps, root : Root, name : Name, inode : 0 .. MaxInodes, wait : BOOLEAN,
        asks : BOOLEAN]
Prune == [at : PruneSteps, judging : SUBSET Root, found : SUBSET Root,
          names : [Root -> SUBSET Name], root : Root, todo : SUBSET Name,
          inode : 0 .. MaxInodes]

FilesTyped ==
  /\ root \subseteq Root
  /\ series \in [Root -> {"none", "bare", "marked"}]
  /\ dir \in [Root -> [Name -> 0 .. MaxInodes]]
  /\ holder \in [Inode -> Process \cup {Nobody}]
  /\ spent \in [inodes : 0 .. MaxInodes, runs : Nat, roots : Nat, crashes : Nat]

RunsTyped ==
  /\ runner \in [Runner -> Run]
  /\ \A a \in Runner : runner[a].at \in {"flock", "locked", "asking"} => runner[a].inode # 0

PrunesTyped ==
  /\ pruner \in [Pruner -> Prune]
  /\ \A p \in Pruner : PruneAt(p, "flock") => pruner[p].inode # 0

\* The values the variables range over; a process locks only what it has opened
\* (lock.go Acquire).
TypeOK == FilesTyped /\ RunsTyped /\ PrunesTyped

\* No profileDir is removed while a run holds its lock ("the locks are held
\* across the removal", prune.go:289), with one prune at a time.
NoRemovalUnderRun ==
  [][\A r \in Root : \A n \in Name :
       dir[r][n] # 0 /\ dir'[r][n] = 0 => holder[dir[r][n]] \notin Runner]_vars

\* Until every lock of a series is taken, the series is untouched, so that one
\* that is skipped as locked is (prune.go:178).
LocksComeFirst ==
  \A p \in Pruner :
    pruner[p].at \in {"open", "flock"} =>
      \A n \in pruner[p].names[pruner[p].root] : dir[pruner[p].root][n] # 0

\* As long as one of the profileDirs prune listed is there, the series keeps its
\* backref, so that a later prune finds it whatever happens to this one.
BackrefLast ==
  \A p \in Pruner :
    PruneAt(p, "remove") /\ pruner[p].todo # {} => series[pruner[p].root] = "marked"

\* A run that waits for its lock gets it or gives up, unless a reset with that
\* lock is asking its user, which it may do for ever (reset.go Reset), or prunes are
\* started for ever, each of which may catch the lock as it is released.  A prune
\* may wait for its own answer for ever and hinders nobody: it locks after the
\* answer and keeps no lock of a series it skips (prune.go, lock.go).
PrunesCease == <>[][\A p \in Pruner : ~StartPrune(p)]_vars

WaitingRunsGo ==
  PrunesCease =>
    \A a \in Runner :
      RunAt(a, "flock") ~>
        \/ ~RunAt(a, "flock")
        \/ \E b \in Runner : RunAt(b, "asking") /\ holder[runner[a].inode] = b

-----------------------------------------------------------------------------
(* What the repository says of locks and prune, and the code does not do.   *)

\* "Package lock serializes concurrent apply / reset / rollback on a profileDir"
\* (lock.go:1).
OneRunPerProfile ==
  \A a, b \in Runner :
    /\ a # b /\ {runner[a].at, runner[b].at} \subseteq {"locked", "asking"}
    => <<runner[a].root, runner[a].name>> # <<runner[b].root, runner[b].name>>
=============================================================================
