---------------------------- MODULE MCBuildPlan ----------------------------
(***************************************************************************)
(* Dockerfiles for BuildPlan.                                              *)
(***************************************************************************)
EXTENDS BuildPlan, TLC

\* The worlds differ in nothing but their names.
Swap == Permutations(Worlds)

St(name, image, text, tail, copy, layer, order) ==
    [name |-> name, image |-> image, text |-> text, tail |-> tail, copy |-> copy,
     layer |-> layer, order |-> order]

\* Three stages on top of or beside each other, that differ in an instruction,
\* in what follows a #, and in what they copy.
Stacks ==
    {[stages |-> <<St("a", "img", t1, x, None, "l", 0),
                   St("b", i2, t2, "", c, "m", 1),
                   St("c", i3, "p", "", None, "n", 2)>>,
      release |-> <<"l", "m", "n">>] :
        t1 \in {"p", "q"}, x \in {"", "x"}, i2 \in {"img", "a"}, t2 \in {"p", "q"},
        c \in {None, "a"}, i3 \in {"a", "b"}}

\* Two stages, with and without names, labels and a release.
Labels ==
    {[stages |-> <<St(n1, "img", "p", "", None, l1, o1), St("b", "b", "p", "", None, l2, o2)>>,
      release |-> r] :
        n1 \in {"a", "b", None}, l1 \in {"l", None}, o1 \in {0, None},
        l2 \in {"l", "m", None}, o2 \in {0, 1}, r \in {None, << >>, <<"l">>, <<"m", "l">>}}
    \cup {[stages |-> << >>, release |-> << >>]}

\* Stacks that may copy, without a #.
Copies == {d \in Stacks : d.stages[1].tail = ""}

All == Stacks \cup Labels
=============================================================================
