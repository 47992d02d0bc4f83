---------------------------- MODULE MCLaunchPlan ----------------------------
(* Small instances of LaunchPlan: every graph over three resources, a few  *)
(* selections, one variable.                                               *)
EXTENDS LaunchPlan

Resource3 == 1..3
Probed1 == {1}
Mistakable2 == {2}

None == [r \in Resource |-> {}]
FirstRefersTo(n) == [None EXCEPT ![1] = {n}]

Picks == {<<Resource, {}, {}>>, <<{1, 2}, {}, {}>>,
          <<Resource, {2, 3}, {}>>, <<Resource, {1, 2}, {2}>>}

Texts == {<<None, None>>, <<FirstRefersTo(Undeclared), None>>}
         \cup {<<FirstRefersTo(v), FirstRefersTo(v)>> : v \in Variable}

Requests ==
    {[needs |-> g, text |-> t[1], probe |-> t[2],
      enabled |-> p[1], only |-> p[2], skip |-> p[3]] :
        g \in [Resource -> SUBSET Resource], t \in Texts, p \in Picks}
=============================================================================
