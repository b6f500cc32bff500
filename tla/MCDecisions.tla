---------------------------- MODULE MCDecisions ----------------------------
\* Decisions for TLC.
EXTENDS Decisions

CONSTANTS p1, p2, r1, r2, a1, a2, e1, e2, f1

\* Releases that differ in each part of a version.
MCVersions == {<<1, 0, 0>>, <<1, 0, 1>>, <<1, 1, 0>>, <<2, 0, 0>>}
MCConstraints == {<<1>>, <<2>>, <<1, 0>>, <<1, 0, 1>>}

MCEnvOf == (p1 :> e1) @@ (p2 :> e2)
MCContents == [{f1} -> SUBSET {p1, p2}]

\* Up to two scopes of any form for the caller, or everything for another.
MCGrants ==
  {{[subject |-> "caller", scope |-> s], [subject |-> "caller", scope |-> t]} :
     s, t \in RuleScope}
  \cup {{}, {[subject |-> "somebody", scope |-> [kind |-> "*"]]}}

Bare == [region |-> Blank, auto |-> Blank]

\* The first app has the overrides and exclusions, the second one may be of
\* the same name, in the same environment or the other.
MCFirst ==
  [name : {a1}, env : {e1}, exclude : {{}, {p1}, {p2}},
   overrides : [{p1, p2} -> {Blank, [region |-> Blank], [region |-> r1]}]]
MCSecond ==
  [name : {a1, a2}, env : {e1, e2}, exclude : {{}, {p1}},
   overrides : {[p \in {p1, p2} |-> Blank]}]
MCEnvSpec(layers) ==
  [projects : SUBSET {p1, p2}, folders : SUBSET {f1}, layer : layers]
MCDocuments ==
  [layer : [region : {Blank, r1}, auto : {TRUE}],
   envs : {(e1 :> x) @@ (e2 :> y) :
             x \in MCEnvSpec({Bare, [region |-> r2, auto |-> FALSE]}),
             y \in MCEnvSpec({Bare})},
   apps : {<<a>> : a \in MCFirst} \cup (MCFirst \X MCSecond)]
=============================================================================
