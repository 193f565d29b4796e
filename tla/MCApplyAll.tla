------------------------------ MODULE MCApplyAll ------------------------------
(***************************************************************************)
(* Instances of ApplyAll for TLC.                                          *)
(***************************************************************************)
EXTENDS ApplyAll

A == <<"d", "a">>
B == <<"d", "b">>
C == <<"d", "c">>
D == <<"d">>
Shared == {A, B, C}
SharedPaths == {D, A, B, C, <<"backup">>}
Overlaid == {A, B, C, D}
OverlaidPaths == SharedPaths

\* Without --backup nothing goes there.
NoBackup == [t \in Target |-> <<"backup">>]

Old == <<"old1", "old2">>
New == <<"new1", "new2">>
NoStray == {{}}
MaybeStray == {{}, {A}}

Linked(T, s) == [t \in T |-> [method |-> "symlink", src |-> s]]

Kind(c, R, W, N) ==
  {[root |-> r, was |-> Linked(w, s), want |-> Linked(n, New[c])] :
     r \in R, w \in W, s \in {Old[c], New[c]}, n \in N}

HomeDir == [home |-> "h"]

\* Two configs of the home root that share a directory and no target.
Neighbours == [c \in 1 .. 2 |->
  LET own == IF c = 1 THEN {A, C} ELSE {B} IN Kind(c, {"home"}, SUBSET own, SUBSET own)]

\* The same, and the directory itself may be a link of the one or the other.
Nested == [c \in 1 .. 2 |->
  LET own == IF c = 1 THEN {A, C} ELSE {B}
      T == SUBSET own \cup {{D}}
  IN Kind(c, {"home"}, T, T)]

\* Two configs of any root, each with links of its own, which may both claim A.
EachItsDir == [home |-> "h", project |-> "p", over |-> "h"]
AnyRoots == [c \in 1 .. 2 |->
  LET own == IF c = 1 THEN C ELSE B
  IN Kind(c, {"home", "project"}, SUBSET {own}, SUBSET {A, own})]
=============================================================================
