----------------------------- MODULE Generations -----------------------------
(***************************************************************************)
(* The generations of one profile as the disk holds them, that is the      *)
(* links profile-<N>-link, each to a link-farm, and the link profile to    *)
(* one of them; the runs that commit, switch and reset, serialized by the  *)
(* profile lock; and what other tools do to the links.  Placement is       *)
(* Engine's: here a run places, or it fails.  Commit and Switch run        *)
(* nix-env, which keeps the layout of the test double in fake.go but       *)
(* re-points the profile in one step (nixprofile.go: "atomically swaps").  *)
(***************************************************************************)
EXTENDS Naturals, FiniteSetsExt

CONSTANTS
  Farm,      \* link-farms
  None,      \* no link-farm
  Runner,    \* processes that apply, roll back or reset
  Nobody,    \* no process
  Skips,     \* is this a project or system profile
  MaxGen, MaxCrashes, MaxOutside   \* bounds

ASSUME GenerationsAssumption ==
  /\ None \notin Farm /\ Nobody \notin Runner
  /\ Farm \cap (0 .. MaxGen) = {}   \* a link-farm is a path, no number
  /\ Skips \in BOOLEAN
  /\ MaxGen \in Nat \ {0} /\ {MaxCrashes, MaxOutside} \subseteq Nat

VARIABLES
  link,      \* what profile-<N>-link leads to, or None
  profile,   \* what the profile link names: a number, a link-farm, 0 for no link
  record,    \* the link-farm of the last-applied record, or None
  lock,      \* who holds the profile lock
  run,       \* what each run is doing, and how its last one ended
  spent      \* the bounded events so far

vars == <<link, profile, record, lock, run, spent>>

Gen == 1 .. MaxGen
Listed == {n \in Gen : link[n] # None}

\* at: its step; to: the generation it moves to; before, after and ok: its
\* report; alone: nothing else touched the links since it started.
Idle == [at |-> "idle", op |-> "none", farm |-> None, to |-> 0,
         before |-> 0, after |-> 0, ok |-> FALSE, alone |-> TRUE]

Init ==
  /\ link = [n \in Gen |-> None] /\ profile = 0
  /\ record = None /\ lock = Nobody
  /\ run = [a \in Runner |-> Idle]
  /\ spent = [crashes |-> 0, outside |-> 0]

-----------------------------------------------------------------------------
(* Reading the links.                                                       *)

\* os.Stat and EvalSymlinks of the profile: its link-farm, if it leads to one.
Resolved == IF profile \in Farm THEN profile
            ELSE IF profile = 0 THEN None ELSE link[profile]

\* Mutant: the newest generation is taken for the current one.
NewestListed == IF Listed = {} THEN 0 ELSE Max(Listed)

\* observeGeneration: by the name of the profile's destination only.
Observed == IF profile \in Farm THEN 0 ELSE profile

\* currentGeneration among the listed numbers: by name, else the newest one that
\* leads to the same place.
CurrentGeneration ==
  IF profile \in Farm THEN Max({n \in Listed : link[n] = profile} \cup {0}) ELSE profile

\* One above the highest existing generation.
NextNumber == Max(Listed \cup {0}) + 1

-----------------------------------------------------------------------------
(* A run.                                                                   *)

At(a, step) == run[a].at = step
Goes(a, step) == run' = [run EXCEPT ![a].at = step]

\* The other runs are not alone with the links a changes.
Touch(a, r) ==
  run' = [x \in Runner |-> IF x = a THEN r ELSE [run[x] EXCEPT !.alone = FALSE]]

\* Apply observes the profile before it has the lock; rollback and reset do not.
Start(a, op) ==
  /\ At(a, "idle")
  /\ run' = [run EXCEPT ![a] = [Idle EXCEPT !.at = "wait", !.op = op,
                                !.before = IF op = "apply" THEN Observed ELSE 0]]
  /\ UNCHANGED <<link, profile, record, lock, spent>>

\* Mutant: the lock is taken whoever holds it.
AcquireHeld(a) ==
  /\ At(a, "wait")
  /\ lock' = a
  /\ Goes(a, "locked")
  /\ UNCHANGED <<link, profile, record, spent>>

Acquire(a) ==
  /\ At(a, "wait") /\ lock = Nobody
  /\ lock' = a
  /\ Goes(a, "locked")
  /\ UNCHANGED <<link, profile, record, spent>>

\* generationUnchanged
Unchanged(f) == Skips /\ Resolved = f /\ record \in {None, f}

\* An apply builds f and places it.
Place(a, f) ==
  /\ At(a, "locked") /\ run[a].op = "apply"
  /\ run' = [run EXCEPT ![a].at = IF Unchanged(f) THEN "repaired" ELSE "placed",
                        ![a].farm = f]
  /\ UNCHANGED <<link, profile, record, lock, spent>>

\* Mutant: a rollback goes to the oldest generation.
OldestGeneration(c) == Min(Listed)

\* The one listed before the current one.
PreviousGeneration(c) == Max({n \in Listed : n < c})

\* A rollback lists, reads the manifest of the generation to go back to, and
\* places it.
PlacePrevious(a) ==
  LET c == CurrentGeneration
  IN /\ At(a, "locked") /\ run[a].op = "rollback"
     /\ c \in Listed /\ \E n \in Listed : n < c
     /\ LET n == PreviousGeneration(c)
        IN run' = [run EXCEPT ![a].at = "placed", ![a].before = c,
                              ![a].to = n, ![a].farm = link[n]]
     /\ UNCHANGED <<link, profile, record, lock, spent>>

\* A reset deletes the record, or leaves one of what it could not remove, with
\* the link-farm of the baseline.
ResetRecord(a) ==
  /\ At(a, "locked") /\ run[a].op = "reset"
  /\ record # None \/ Resolved # None
  /\ record' \in {None, IF record # None THEN record ELSE Resolved}
  /\ run' = [run EXCEPT ![a].at = "release", ![a].ok = TRUE]
  /\ UNCHANGED <<link, profile, lock, spent>>

\* Mutant: a repair leaves the record as it is.
RecordWhenPlaced(a) ==
  /\ run[a].at \in {"placed", "repaired"}
  /\ run[a].op = "rollback" => link[run[a].to] # None
  /\ record' = IF At(a, "placed") THEN run[a].farm ELSE record
  /\ run' = [run EXCEPT ![a].at = IF @ = "placed" THEN "commit" ELSE "release",
                        ![a].ok = At(a, "repaired")]
  /\ UNCHANGED <<link, profile, lock, spent>>

\* recordPlacement.  A rollback resolves its generation link once more.
WriteRecord(a) ==
  /\ run[a].at \in {"placed", "repaired"}
  /\ run[a].op = "rollback" => link[run[a].to] # None
  /\ record' = run[a].farm
  /\ run' = [run EXCEPT ![a].at = IF @ = "placed" THEN "commit" ELSE "release",
                        ![a].ok = At(a, "repaired")]
  /\ UNCHANGED <<link, profile, lock, spent>>

\* Mutant: the link-farm that is current is committed again.
LinkResolved(a) ==
  LET n == NextNumber
  IN /\ At(a, "commit") /\ run[a].op = "apply" /\ n \in Gen
     /\ link' = [link EXCEPT ![n] = IF Resolved = None THEN run[a].farm ELSE Resolved]
     /\ Touch(a, [run[a] EXCEPT !.at = "point", !.to = n])
     /\ UNCHANGED <<profile, record, lock, spent>>

\* Commit makes the generation link.
Link(a) ==
  LET n == NextNumber
  IN /\ At(a, "commit") /\ run[a].op = "apply" /\ n \in Gen
     /\ link' = [link EXCEPT ![n] = run[a].farm]
     /\ Touch(a, [run[a] EXCEPT !.at = "point", !.to = n])
     /\ UNCHANGED <<profile, record, lock, spent>>

\* Mutant: the generation of the listing is switched to, there or not.
SwitchUnseen(a) ==
  /\ At(a, "commit") /\ run[a].op = "rollback"
  /\ Goes(a, "point")
  /\ UNCHANGED <<link, profile, record, lock, spent>>

\* Switch wants its generation link to be there.
Switch(a) ==
  /\ At(a, "commit") /\ run[a].op = "rollback" /\ link[run[a].to] # None
  /\ Goes(a, "point")
  /\ UNCHANGED <<link, profile, record, lock, spent>>

\* The profile link is replaced.
Point(a) ==
  /\ At(a, "point")
  /\ profile' = run[a].to
  /\ Touch(a, [run[a] EXCEPT !.at = "release", !.farm = None, !.ok = TRUE])
  /\ UNCHANGED <<link, record, lock, spent>>

\* A build, a placement, the record, the commit or the switch fails: what was
\* placed is unwound unless the record is written, and nothing else is.
Fail(a) ==
  /\ run[a].at \in {"locked", "placed", "repaired", "commit", "point"}
  /\ run' = [run EXCEPT ![a].at = "release",
                        ![a].farm = None]
  /\ UNCHANGED <<link, profile, record, lock, spent>>

\* The deferred calls run in reverse: the lock goes before apply observes again.
Release(a) ==
  /\ At(a, "release")
  /\ lock' = Nobody
  /\ run' = [run EXCEPT ![a] =
               IF @.op = "apply" THEN [@ EXCEPT !.at = "observe"] ELSE Idle]
  /\ UNCHANGED <<link, profile, record, spent>>

Observe(a) ==
  /\ At(a, "observe")
  /\ run' = [run EXCEPT ![a].at = "report", ![a].after = Observed]
  /\ UNCHANGED <<link, profile, record, lock, spent>>

Exit(a) ==
  /\ At(a, "report")
  /\ run' = [run EXCEPT ![a] = Idle]
  /\ UNCHANGED <<link, profile, record, lock, spent>>

Crash(a) ==
  /\ run[a].at \notin {"idle", "wait"} /\ spent.crashes < MaxCrashes
  /\ run' = [run EXCEPT ![a] = Idle]
  /\ lock' = IF lock = a THEN Nobody ELSE lock
  /\ spent' = [spent EXCEPT !.crashes = @ + 1]
  /\ UNCHANGED <<link, profile, record>>

-----------------------------------------------------------------------------
(* Other tools.  nix-env has a lock of its own on a profile it changes.     *)

Others ==
  /\ spent.outside < MaxOutside
  /\ spent' = [spent EXCEPT !.outside = @ + 1]
  /\ \A a \in Runner : ~At(a, "point")
  /\ run' = [x \in Runner |-> [run[x] EXCEPT !.alone = FALSE]]
  /\ UNCHANGED <<record, lock>>

\* nix-collect-garbage --delete-old, nix-env --delete-generations
Collect(n) ==
  /\ n \in Listed \ {CurrentGeneration}
  /\ link' = [link EXCEPT ![n] = None]
  /\ UNCHANGED profile
  /\ Others

\* The profile is pointed at another generation, or at a link-farm, by hand.
Repoint(d) ==
  /\ d \in Listed \cup Farm /\ d # profile
  /\ profile' = d
  /\ UNCHANGED link
  /\ Others

-----------------------------------------------------------------------------
RunStep(a) ==
  \/ Acquire(a) \/ PlacePrevious(a) \/ ResetRecord(a) \/ WriteRecord(a)
  \/ \E f \in Farm : Place(a, f)
  \/ Link(a) \/ Switch(a) \/ Point(a) \/ Fail(a)
  \/ Release(a) \/ Observe(a) \/ Exit(a)

Next ==
  \/ \E a \in Runner :
       \/ \E op \in {"apply", "rollback", "reset"} : Start(a, op)
       \/ RunStep(a)
       \/ Crash(a)
  \/ \E n \in Gen : Collect(n)
  \/ \E d \in Gen \cup Farm : Repoint(d)

Spec == Init /\ [][Next]_vars

-----------------------------------------------------------------------------
(* Properties.                                                              *)

Steps == {"idle", "wait", "locked", "placed", "repaired", "commit", "point",
          "release", "observe", "report"}
Run == [at : Steps, op : {"none", "apply", "rollback", "reset"},
        farm : Farm \cup {None}, to : 0 .. MaxGen,
        before : 0 .. MaxGen, after : 0 .. MaxGen, ok : BOOLEAN, alone : BOOLEAN]

\* The values the variables range over; one run holds the lock from its build to
\* its release.
TypeOK ==
  /\ link \in [Gen -> Farm \cup {None}]
  /\ profile \in 0 .. MaxGen \cup Farm
  /\ record \in Farm \cup {None}
  /\ run \in [Runner -> Run]
  /\ \A a \in Runner : (lock = a) = (run[a].at \notin {"idle", "wait", "observe", "report"})
  /\ spent \in [crashes : 0 .. MaxCrashes, outside : 0 .. MaxOutside]

\* The links and the record are a profile: generations are numbered upwards and
\* never rewritten, and layat makes current only a generation whose link-farm is
\* the one it recorded as placed, whatever fails, crashes or is collected between
\* its steps (fake.go Commit and Switch, engine.go 8.5 and 9, generations.go 7).
P == INSTANCE Profile WITH
       applied <- record, kept <- [n \in Listed |-> link[n]], current <- CurrentGeneration

IsProfile == P!Spec

\* The profile never names a generation that is not there, though other tools
\* delete generations between a rollback's listing and its switch (fake.go:78).
NeverDangles == profile \in Gen => link[profile] # None

\* A rollback goes to the nearest generation below the one it found current,
\* also when others between or above were deleted (generations.go 3).
RollbackOneBack ==
  [][\A a \in Runner :
       /\ At(a, "point") /\ run[a].op = "rollback" /\ profile' # profile
       => /\ profile' < run[a].before
          /\ \A n \in Listed : ~(profile' < n /\ n < run[a].before)]_vars

\* A run that succeeds without a hand on the links meanwhile leaves a record that
\* agrees with the profile, a run that commits nothing included: the next run
\* plans from what is there (drift.go generationUnchanged, engine.go 7).
SettledAgrees ==
  \A a \in Runner :
    At(a, "release") /\ run[a].ok /\ run[a].alone /\ run[a].op # "reset"
    => record = Resolved

\* An apply that had the profile to itself reports the move it made: to its own
\* generation when it succeeded, and none when it failed (engine.go 1.2).
ReportsItsMove ==
  \A a \in Runner :
    At(a, "report") /\ run[a].alone =>
      run[a].after = IF run[a].ok /\ run[a].to # 0 THEN run[a].to ELSE run[a].before
=============================================================================
