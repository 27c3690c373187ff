------------------------------ MODULE MCFolders ------------------------------
(* Instances of Folders for TLC: one root with two proper names, a hidden    *)
(* one and an odd one, and a second root the operator disables.              *)
EXTENDS Folders, TLC

CONSTANTS home, closed, out, t1, t2

MCRoots == {home, closed}
MCRootOrder == <<home, closed>>
MCPathOf == [r \in MCRoots |-> IF r = home THEN <<"srv", "work">> ELSE <<"srv", "work-old">>]
MCDisabled == {closed}
MCHidden == {}

\* 1 and 2 are proper, 3 begins with a dot, 4 breaks another rule.
MCNames == 1..4
MCProper == {1, 2}
MCDotted == {3}
MCPlaces == {<<home, n>> : n \in MCNames} \cup {<<closed, 1>>}

Empty == [p \in MCPlaces |-> [kind |-> "nothing"]]
Dir == [kind |-> "dir"]
Link(q) == [kind |-> "link", to |-> q]

\* A project beside a hidden and an odd folder; a second name for a project;
\* a link out, and one into the other root; a link to nothing; a circle.
MCFoundTrees ==
    {[Empty EXCEPT ![<<home, 2>>] = Dir, ![<<home, 3>>] = Dir, ![<<home, 4>>] = Dir],
     [Empty EXCEPT ![<<home, 2>>] = Dir, ![<<home, 1>>] = Link(<<home, 2>>)],
     [Empty EXCEPT ![<<closed, 1>>] = Dir, ![<<home, 2>>] = Link(<<closed, 1>>),
                   ![<<home, 1>>] = Link(out)],
     [Empty EXCEPT ![<<home, 1>>] = Link(<<home, 2>>)],
     [Empty EXCEPT ![<<home, 1>>] = Link(<<home, 2>>), ![<<home, 2>>] = Link(<<home, 1>>),
                   ![<<home, 4>>] = [kind |-> "file"]]}
    \cup (IF UnlistedTargets
          THEN {[Empty EXCEPT ![<<home, 3>>] = Dir, ![<<home, 2>>] = Link(<<home, 3>>)]}
          ELSE {})

MCThreads == {t1, t2}

\* The threads are interchangeable.
Symmetry == Permutations(MCThreads)

\* The last answer a thread gave decides nothing that happens next.
View ==
    <<entry, up, agents, starting, served, changes,
      [t \in Threads |-> IF req[t].at = "idle" THEN Idle ELSE req[t]]>>

=============================================================================
