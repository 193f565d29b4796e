------------------------------- MODULE MCEngine -------------------------------
(***************************************************************************)
(* Instances of Engine for TLC.                                            *)
(***************************************************************************)
EXTENDS Engine

CONSTANTS s1, s2, sd

Backup == [a |-> "a.layat-backup", d |-> "d.layat-backup", x |-> "x.layat-backup",
           e |-> "e.layat-backup"]
Aside == [a |-> "a.layat-recopy-aside", d |-> "d.layat-recopy-aside",
          x |-> "x.layat-recopy-aside", e |-> "e.layat-recopy-aside"]

A == <<"a">>
D == <<"d">>
DX == <<"d", "x">>
DEX == <<"d", "e", "x">>

Sibling(t, names) == Append(Front(t), names[Last(t)])
MCBackupOf == [t \in Target |-> Sibling(t, Backup)]
MCAsideOf == [t \in Target |-> Sibling(t, Aside)]

\* The targets, their backups and asides, and where the content of a renamed
\* directory goes.
PathsFor(T) ==
  LET here == T \cup {Sibling(t, Backup) : t \in T} \cup {Sibling(t, Aside) : t \in T}
      inside == {tr \in T \X here : IsStrictPrefix(tr[1], tr[2])}
      moved(names) == {Sibling(tr[1], names) \o SubSeq(tr[2], Len(tr[1]) + 1, Len(tr[2])) :
                         tr \in inside}
      all == here \cup moved(Backup) \cup moved(Aside)
  IN UNION {{SubSeq(p, 1, n) : n \in 1 .. Len(p)} : p \in all}

Entry(m, s) == [method |-> m, src |-> s]
Link(s) == Entry("symlink", s)
Copy(s) == Entry("copy", s)

Plain == [backup |-> FALSE, recopy |-> FALSE]
WithBackup == [backup |-> TRUE, recopy |-> FALSE]
Recopy == [backup |-> FALSE, recopy |-> TRUE]

\* Three targets, one inside another.
Nested == {A, D, DX}
NestedPaths == PathsFor(Nested)

\* A link that changes or becomes a copy; a directory link that becomes a
\* directory of links.
HomeManifests ==
  {A :> Link(s1), D :> Link(sd), (A :> Link(s2)) @@ (DX :> Link(s1)),
   (A :> Copy(s1)) @@ (DX :> Link(s1))}
PlainOnly == {Plain}

\* Copies of a file and of a directory, links at the same targets, and a copy
\* whose structure changes.
CopyManifests ==
  {(A :> Copy(s1)) @@ (D :> Copy(sd)), (A :> Link(s1)) @@ (D :> Link(sd)),
   (A :> Copy(s2)) @@ (D :> Copy(s1))}

\* A link that becomes a directory of links two levels down.
Deep == {A, D, DEX}
DeepPaths == PathsFor(Deep)
DeepManifests == {D :> Link(sd), DEX :> Link(s1)}

\* A directory of links that becomes a copied directory.
CopyOverLinks == {DX :> Link(s1), D :> Copy(sd)}

\* Few manifests over several runs, and one that contradicts itself.
SkipManifests == {(A :> Link(s1)) @@ (DX :> Link(s1)), A :> Link(s2),
                  (D :> Link(sd)) @@ (DX :> Link(s1))}
SkipPaths == {A, DX}

EveryModifier == {Plain, WithBackup, Recopy}

\* Every stage has work: links that change, migrate and go, and copies.
MixedManifests == {(A :> Link(s1)) @@ (D :> Copy(sd)), (A :> Copy(s2)) @@ (D :> Link(sd)),
                   DX :> Link(s1), DX :> Copy(s1)}
=============================================================================
