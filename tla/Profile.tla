------------------------------- MODULE Profile -------------------------------
(***************************************************************************)
(* What a profile promises, without placement, links or locks: which       *)
(* link-farm was applied last, which generations are kept under which      *)
(* numbers, and which of them is current.  Engine implements StrictSpec;   *)
(* Generations, where a commit takes several steps, other tools delete     *)
(* generations and a crash may lose the pointer, implements Spec.          *)
(***************************************************************************)
EXTENDS Naturals

CONSTANTS Farm, None

VARIABLES
  applied,   \* the link-farm placed last, or None
  kept,      \* the generations: their numbers and link-farms
  current    \* the number of the current generation; 0 when there is none

vars == <<applied, kept, current>>

Number == Nat \ {0}   \* an apply numbers its generation from 1

Init == applied = None /\ kept = << >> /\ current = 0

\* Apply, rollback and reset place something, or nothing.
Place(f) == applied' = f /\ UNCHANGED <<kept, current>>

With(n) == [k \in DOMAIN kept \cup {n} |-> IF k = n THEN applied ELSE kept[k]]

\* What is applied becomes a generation, under a number above all others.
Keep(n) ==
  /\ applied # None
  /\ n \in Number /\ \A k \in DOMAIN kept : k < n
  /\ kept' = With(n)

\* Only a generation that is applied becomes current.
Move(n) == n \in DOMAIN kept' /\ kept'[n] = applied /\ current' = n

Commit(n) == Keep(n) /\ Move(n) /\ UNCHANGED applied
Switch(n) == UNCHANGED <<applied, kept>> /\ n < current /\ Move(n)

StrictNext ==
  \/ \E f \in Farm \cup {None} : Place(f)
  \/ \E n \in DOMAIN kept' : Commit(n) \/ Switch(n)

StrictSpec == Init /\ [][StrictNext]_vars

\* The halves of a commit.
Half(n) ==
  /\ UNCHANGED applied
  /\ \/ Keep(n) /\ UNCHANGED current
     \/ Move(n) /\ UNCHANGED kept

\* Other tools delete what is not current, or point the profile elsewhere.
Drop(n) ==
  /\ n \in DOMAIN kept \ {current}
  /\ kept' = [k \in DOMAIN kept \ {n} |-> kept[k]]
  /\ UNCHANGED <<applied, current>>

Elsewhere(n) ==
  /\ n \in DOMAIN kept \cup {0} /\ current' = n
  /\ UNCHANGED <<applied, kept>>

Outside == \E n \in DOMAIN kept \cup {0} : Drop(n) \/ Elsewhere(n)

Next == StrictNext \/ (\E n \in DOMAIN kept' : Half(n)) \/ Outside

Spec == Init /\ [][Next]_vars
=============================================================================
