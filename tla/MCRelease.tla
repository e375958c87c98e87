----------------------------- MODULE MCRelease -----------------------------
(***************************************************************************)
(* An instance of ReleaseTag: two schema files, one surface; checkouts     *)
(* that are ready for one of two days, and each way not to be ready.       *)
(***************************************************************************)
EXTENDS ReleaseTag

MCFiles == <<"task", "error">>
MCModels == {"m1", "m2"}
MCSurfaces == {"AT"}

Test(marks, body) == [surface |-> "AT", marks |-> marks, body |-> body]
Written(models) == [f \in {"task", "error"} |-> models]

Ready ==
  [heading |-> 1, lints |-> "ok", coverage |-> TRUE,
   gates |-> {"at_coverage_total", "property_coverage"}, tests |-> {Test({}, "ok")},
   suite |-> "ok", property |-> "ok", models |-> "m1", schemas |-> Written("m1")]

Tomorrow == [Ready EXCEPT !.heading = 2]

MCTrees == {Ready, Tomorrow, [Ready EXCEPT !.models = "m2"]}

\* What a step should find, and the checkout it is found in.
NotReady ==
  {<<"thermocline", [Ready EXCEPT !.lints = "fails"]>>,
   <<"photophore", [Ready EXCEPT !.coverage = FALSE]>>,
   <<"photophore", [Ready EXCEPT !.property = "absent"]>>,
   <<"photophore", [Ready EXCEPT !.tests = {Test({}, "skips")}]>>,
   <<"seamount", [Ready EXCEPT !.suite = "absent"]>>,
   <<"seamount", [Ready EXCEPT !.suite = "fails"]>>,
   <<"thermocline", [Ready EXCEPT !.schemas["error"] = "missing"]>>,
   <<"thermocline", [Ready EXCEPT !.tests = {Test({"skip"}, "ok")}]>>,
   <<"thermocline", [Ready EXCEPT !.tests = {Test({}, "fails")}]>>,
   <<"thermocline", [Ready EXCEPT !.gates = {}, !.property = "absent",
                                  !.tests = {Test({"keystore"}, "fails")}]>>}

MCStart ==
  {[r \in RepoNames |-> Ready]}
    \cup {[r \in RepoNames |-> IF r = f[1] THEN f[2] ELSE Ready] : f \in NotReady}
=============================================================================
