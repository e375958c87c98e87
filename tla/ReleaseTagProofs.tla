-------------------------- MODULE ReleaseTagProofs --------------------------
(***************************************************************************)
(* What a tag of the release coordinator stands for, for every content of  *)
(* the three checkouts, every number of runs and every activity of the     *)
(* developer.                                                              *)
(*                                                                         *)
(* The argument: a repository nobody has touched since its step 1 is       *)
(* vouched for by every step the script has behind it (Vouched).  The      *)
(* steps read the working tree, which equals the commit except while the   *)
(* drift test runs, and then differs by what the test has put aside.       *)
(***************************************************************************)
EXTENDS ReleaseTag, TLAPS

LEMMA RepoFacts ==
  /\ DOMAIN Repos = 1 .. 3 /\ Len(Repos) = 3
  /\ Repos[1] = Here /\ Repos[2] = "photophore" /\ Repos[3] = "seamount"
  /\ \A i \in 1 .. 3 : Repos[i] \in RepoNames
  /\ \A r \in RepoNames : \E i \in 1 .. 3 : Repos[i] = r
  /\ \A i, j \in 1 .. 3 : Repos[i] = Repos[j] => i = j
  /\ Here \in RepoNames
<1>1. DOMAIN Repos = 1 .. 3 /\ Len(Repos) = 3
  BY DEF Repos
<1>2. Repos[1] = Here /\ Repos[2] = "photophore" /\ Repos[3] = "seamount"
  BY DEF Repos, Here
<1> QED
  BY <1>1, <1>2 DEF RepoNames, Here

Drift == {"corrupt", "signal", "restore", "clean"}
AfterGates == {"tests", "tag"} \cup Drift
AfterLints == {"gates"} \cup AfterGates
AfterOne == {"lints"} \cup AfterLints

Typed ==
  /\ tree \in [RepoNames -> Contents]
  /\ head \in [RepoNames -> Contents]
  /\ at \in 1 .. 3
  /\ step \in Ended \cup {"preconditions"} \cup AfterOne
  /\ moved \subseteq RepoNames
  /\ step \in Drift \cup {"gates"} => at = 1
  /\ writer # NoWriter => writer.models \in Models /\ writer.left \in Seq(FileSet)
  /\ backup \in SchemaStates
  /\ remote \in [RepoNames -> Contents]
  /\ DOMAIN tag = RepoNames

\* The tree is the commit, or will be when the drift test has cleaned up.
SameTree(r) ==
  IF step \in {"signal", "restore"} /\ r = Here
  THEN [tree[r] EXCEPT !.schemas[Files[1]] = backup] = head[r]
  ELSE tree[r] = head[r]

\* What each step has seen of the i-th repository once it is through.
OneSaw(r) == SameTree(r) /\ head[r].heading = today /\ head[r] = remote[r]
LintsSaw(r) == head[r].lints # "fails" /\ (head[r].coverage => AtCoverage(head[r]))
GatesSaw(r) ==
  /\ r = Here => head[r].gates \subseteq noted
  /\ (r = Here \/ crossRepo) /\ "at_coverage_total" \in noted => head[r].coverage
  /\ r # "seamount" /\ "property_coverage" \in noted => head[r].property = "ok"
TestsSaw(r) ==
  /\ head[r].suite # "fails" /\ (r # "seamount" => head[r].suite = "ok")
  /\ r = Here => CheckAll(head[r]) /\ \A t \in head[r].tests : TestPasses(t)

Vouched(i) ==
  /\ step \in AfterOne \/ (step = "preconditions" /\ i < at) => OneSaw(Repos[i])
  /\ step \in AfterLints \/ (step = "lints" /\ i < at) => LintsSaw(Repos[i])
  /\ step \in AfterGates => GatesSaw(Repos[i])
  /\ step = "tag" \/ (step = "tests" /\ i < at) => TestsSaw(Repos[i])

\* In the drift test the rest of thermocline's tests are through, and verdict says how.
DriftSaw ==
  step \in Drift /\ verdict /\ Here \notin moved =>
    head[Here].suite = "ok" /\ \A t \in head[Here].tests : TestPasses(t)

TaggedSoFar(i) ==
  ~dry /\ (step = "complete" \/ (step = "tag" /\ i < at)) => tag[Repos[i]] = head[Repos[i]]

ReleaseInv ==
  /\ Typed
  /\ DriftSaw
  /\ \A i \in 1 .. 3 : Repos[i] \notin moved => Vouched(i) /\ TaggedSoFar(i)

-----------------------------------------------------------------------------
(* The developer.                                                          *)

LEMMA FileFacts == Files[1] \in FileSet /\ Files \in Seq(FileSet)
BY ReleaseAssumption DEF FileSet

LEMMA SchemaTyped ==
  ASSUME NEW c \in Contents, NEW f \in FileSet, NEW m \in SchemaStates
  PROVE  [c EXCEPT !.schemas[f] = m] \in Contents
BY DEF Contents

\* Whoever changes a repository is noted in moved, and the script goes on elsewhere.
LEMMA DeveloperTyped == ASSUME Typed, Developer PROVE Typed'
<1> USE ReleaseAssumption DEF Typed
<1>1. ASSUME NEW r \in RepoNames, Edit(r) PROVE Typed'
  <2>1. PICK c \in Trees : tree' = [tree EXCEPT ![r] = [c EXCEPT !.schemas = tree[r].schemas]]
    BY <1>1 DEF Edit
  <2>2. [c EXCEPT !.schemas = tree[r].schemas] \in Contents
    <3>1. c \in Contents /\ tree[r] \in Contents
      OBVIOUS
    <3> QED
      BY <3>1 DEF Contents
  <2> QED
    BY <1>1, <2>1, <2>2 DEF Edit, Move, options, drift
<1>2. ASSUME NEW r \in RepoNames, Commit(r) PROVE Typed'
  BY <1>2 DEF Commit, Move, options, drift
<1>3. ASSUME NEW r \in RepoNames, Checkout(r) PROVE Typed'
  BY <1>3 DEF Checkout, Move, options, drift
<1>4. ASSUME NEW r \in RepoNames, Push(r) PROVE Typed'
  BY <1>4 DEF Push, Move, options, drift
<1>5. ASSUME NEW r \in RepoNames, Untag(r) PROVE Typed'
  BY <1>5 DEF Untag, Move, options, drift
<1>6. CASE StartWrite
  <2>1. tree[Here].models \in Models
    BY RepoFacts DEF Contents
  <2> QED
    BY <1>6, <2>1, FileFacts, RepoFacts DEF StartWrite, Move, options, drift, git
<1>7. CASE WriteFile
  <2> DEFINE f == Head(writer.left)
  <2>1. /\ writer.models \in Models /\ writer.left \in Seq(FileSet) /\ writer.left # <<>>
        /\ tree' = [tree EXCEPT ![Here].schemas[f] = writer.models]
        /\ UNCHANGED <<head, remote, tag, step, at, backup>>
    BY <1>7 DEF WriteFile, drift
  <2>2. f \in FileSet /\ Tail(writer.left) \in Seq(FileSet)
    BY <2>1
  <2>3. [tree[Here] EXCEPT !.schemas[f] = writer.models] \in Contents
    <3>1. writer.models \in SchemaStates /\ tree[Here] \in Contents
      BY <2>1, RepoFacts DEF SchemaStates
    <3> QED
      BY <2>2, <3>1, SchemaTyped
  <2>4. tree' = [tree EXCEPT ![Here] = [tree[Here] EXCEPT !.schemas[f] = writer.models]]
    BY <2>1
  <2>5. tree' \in [RepoNames -> Contents]
    BY <2>3, <2>4
  <2>6. writer' # NoWriter => writer'.models \in Models /\ writer'.left \in Seq(FileSet)
    BY <1>7, <2>1, <2>2 DEF WriteFile
  <2>7. moved' \subseteq RepoNames
    BY <1>7, RepoFacts DEF WriteFile
  <2> QED
    BY <2>1, <2>5, <2>6, <2>7
<1>8. CASE WriteKilled
  BY <1>8 DEF WriteKilled, git, drift
<1>9. CASE Midnight
  BY <1>9 DEF Midnight, git, drift
<1> QED
  BY <1>1, <1>2, <1>3, <1>4, <1>5, <1>6, <1>7, <1>8, <1>9 DEF Developer

LEMMA DeveloperElsewhere ==
  ASSUME Typed, Developer
  PROVE  /\ UNCHANGED <<step, at, options, noted, backup, verdict>>
         /\ moved \subseteq moved'
         /\ \A r \in RepoNames \ moved' :
              /\ tree'[r] = tree[r] /\ head'[r] = head[r]
              /\ remote'[r] = remote[r] /\ tag'[r] = tag[r]
<1> USE DEF Typed, Move, options, drift, git
<1>1. CASE \E r \in RepoNames : Edit(r) \/ Commit(r) \/ Checkout(r) \/ Push(r) \/ Untag(r)
  BY <1>1 DEF Edit, Commit, Checkout, Push, Untag
<1>2. CASE StartWrite \/ WriteKilled \/ Midnight
  BY <1>2 DEF StartWrite, WriteKilled, Midnight
<1>3. CASE WriteFile
  BY <1>3 DEF WriteFile
<1> QED
  BY <1>1, <1>2, <1>3 DEF Developer

LEMMA DeveloperStep == ASSUME ReleaseInv, Developer PROVE ReleaseInv'
<1>1. Typed'
  BY DeveloperTyped DEF ReleaseInv
<1>2. /\ UNCHANGED <<step, at, options, noted, backup, verdict>>
      /\ moved \subseteq moved'
      /\ \A r \in RepoNames \ moved' :
           /\ tree'[r] = tree[r] /\ head'[r] = head[r]
           /\ remote'[r] = remote[r] /\ tag'[r] = tag[r]
  BY DeveloperElsewhere DEF ReleaseInv
<1>3. DriftSaw'
  BY <1>2, RepoFacts DEF ReleaseInv, DriftSaw, TestPasses
<1>4. ASSUME NEW i \in 1 .. 3, Repos[i] \notin moved' PROVE (Vouched(i) /\ TaggedSoFar(i))'
  <2>1. Vouched(i) /\ TaggedSoFar(i)
    BY <1>2, <1>4 DEF ReleaseInv
  <2>2. /\ tree'[Repos[i]] = tree[Repos[i]] /\ head'[Repos[i]] = head[Repos[i]]
        /\ remote'[Repos[i]] = remote[Repos[i]] /\ tag'[Repos[i]] = tag[Repos[i]]
    BY <1>2, <1>4, RepoFacts
  <2>3. SameTree(Repos[i])' <=> SameTree(Repos[i])
    BY <1>2, <2>2 DEF SameTree
  <2> QED
    BY <1>2, <2>1, <2>2, <2>3
       DEF Vouched, TaggedSoFar, OneSaw, LintsSaw, GatesSaw, TestsSaw, AtCoverage, Counts,
           CheckAll, TestPasses, options
<1> QED
  BY <1>1, <1>3, <1>4 DEF ReleaseInv

-----------------------------------------------------------------------------
(* The script.                                                             *)

LEMMA Judged ==
  ASSUME NEW ok, NEW next, Judge(ok, next)
  PROVE  \/ ok /\ at < 3 /\ at' = at + 1 /\ step' = step
         \/ ok /\ at = 3 /\ at' = 1 /\ step' = next
         \/ ~ok /\ at' = 1 /\ step' = "failed"
BY RepoFacts DEF Judge

LEMMA RunStep == ASSUME ReleaseInv, Run PROVE ReleaseInv'
<1>1. Typed'
  BY DEF Run, ReleaseInv, Typed, git, drift
<1>2. step' = "preconditions" /\ at' = 1
  BY DEF Run
<1> QED
  BY <1>1, <1>2 DEF ReleaseInv, DriftSaw, Drift, Vouched, TaggedSoFar, AfterOne, AfterLints,
                    AfterGates

\* Nothing is claimed of a run that has failed.
LEMMA FailedStep == ASSUME Typed', step' = "failed" PROVE ReleaseInv'
BY DEF ReleaseInv, DriftSaw, Drift, Vouched, TaggedSoFar, AfterOne, AfterLints, AfterGates

LEMMA PreconditionsStep == ASSUME ReleaseInv, Preconditions PROVE ReleaseInv'
<1> DEFINE r == Repos[at]
           ok == Clean(r) /\ branch[r] = "main" /\ head[r] = remote[r] /\ Dated(r)
<1>1. /\ step = "preconditions" /\ Judge(ok, "lints") /\ moved' = moved \ {r}
      /\ UNCHANGED <<tree, head, remote, tag, options, backup, writer, noted>>
  BY DEF Preconditions, git, drift
<1>2. Typed /\ at \in 1 .. 3
  BY DEF ReleaseInv, Typed
<1>3. \/ ok /\ at < 3 /\ at' = at + 1 /\ step' = step
      \/ ok /\ at = 3 /\ at' = 1 /\ step' = "lints"
      \/ ~ok /\ at' = 1 /\ step' = "failed"
  <2> HIDE DEF ok
  <2> QED
    BY <1>1, Judged
<1>4. Typed'
  <2> HIDE DEF ok
  <2> QED
    BY <1>1, <1>2, <1>3 DEF Typed, Drift, AfterOne, Ended
<1>5. CASE ~ok
  BY <1>3, <1>4, <1>5, FailedStep
<1>6. CASE ok
  <2>1. step' \in {"preconditions", "lints"}
    BY <1>1, <1>3, <1>6
  <2>2. ASSUME NEW i \in 1 .. 3, Repos[i] \notin moved', step' = "lints" \/ i < at'
        PROVE  OneSaw(Repos[i])'
    <3>1. CASE i = at
      BY <1>1, <1>6, <2>1, <3>1 DEF OneSaw, SameTree, Clean, Dated, options
    <3>2. CASE i # at
      <4>1. i < at /\ Repos[i] \notin moved
        BY <1>1, <1>2, <1>3, <1>6, <2>2, <3>2, RepoFacts
      <4>2. OneSaw(Repos[i])
        BY <1>1, <4>1 DEF ReleaseInv, Vouched
      <4> QED
        BY <1>1, <2>1, <4>2 DEF OneSaw, SameTree, options
    <3> QED
      BY <3>1, <3>2
  <2>3. step' = "lints" => at' = 1
    BY <1>1, <1>3, <1>6
  <2>4. ASSUME NEW i \in 1 .. 3, Repos[i] \notin moved'
        PROVE  (Vouched(i) /\ TaggedSoFar(i))'
    BY <2>1, <2>2, <2>3, <2>4 DEF Vouched, TaggedSoFar, AfterOne, AfterLints, AfterGates, Drift
  <2> QED
    BY <1>4, <2>1, <2>4 DEF ReleaseInv, DriftSaw, Drift
<1> QED
  BY <1>5, <1>6

\* Once through step 1, a repository nobody touches looks the same to every step.
LEMMA SeenBefore ==
  ASSUME ReleaseInv, step \in AfterOne \ {"signal", "restore"},
         NEW i \in 1 .. 3, Repos[i] \notin moved
  PROVE  Vouched(i) /\ tree[Repos[i]] = head[Repos[i]]
BY DEF ReleaseInv, Vouched, OneSaw, SameTree

\* What was seen before a step that changes no checkout is still so.
LEMMA StillSeen ==
  ASSUME UNCHANGED <<tree, head, remote, options, noted>>, NEW r,
         step \notin {"signal", "restore"}, step' \notin {"signal", "restore"}
  PROVE  /\ OneSaw(r) => OneSaw(r)'
         /\ LintsSaw(r) => LintsSaw(r)'
         /\ GatesSaw(r) => GatesSaw(r)'
         /\ TestsSaw(r) => TestsSaw(r)'
BY DEF OneSaw, SameTree, LintsSaw, GatesSaw, TestsSaw, AtCoverage, Counts, CheckAll,
       TestPasses, options

LEMMA LintsStep == ASSUME ReleaseInv, Lints PROVE ReleaseInv'
<1> DEFINE c == tree[Repos[at]]
           ok == c.lints # "fails" /\ (c.coverage => AtCoverage(c))
<1>1. /\ step = "lints" /\ Judge(ok, "gates")
      /\ UNCHANGED <<tree, head, remote, tag, options, backup, writer, moved, noted>>
  BY DEF Lints, git, drift, Others
<1>2. Typed /\ at \in 1 .. 3
  BY DEF ReleaseInv, Typed
<1>3. \/ ok /\ at < 3 /\ at' = at + 1 /\ step' = step
      \/ ok /\ at = 3 /\ at' = 1 /\ step' = "gates"
      \/ ~ok /\ at' = 1 /\ step' = "failed"
  <2> HIDE DEF ok
  <2> QED
    BY <1>1, Judged
<1>4. Typed'
  <2> HIDE DEF ok
  <2> QED
    BY <1>1, <1>2, <1>3 DEF Typed, Drift, AfterOne, AfterLints, Ended
<1>5. CASE ~ok
  BY <1>3, <1>4, <1>5, FailedStep
<1>6. CASE ok
  <2>1. step' \in {"lints", "gates"} /\ (step' = "gates" => at' = 1)
    BY <1>1, <1>3, <1>6
  <2>2. ASSUME NEW i \in 1 .. 3, Repos[i] \notin moved' PROVE (Vouched(i) /\ TaggedSoFar(i))'
    <3>1. Vouched(i) /\ tree[Repos[i]] = head[Repos[i]]
      BY <1>1, <2>2, SeenBefore DEF AfterOne
    <3>2. OneSaw(Repos[i])
      BY <1>1, <3>1 DEF Vouched, AfterOne
    <3>3. step' = "gates" \/ i < at' => LintsSaw(Repos[i])
      <4>1. CASE i = at
        BY <1>6, <3>1, <4>1 DEF LintsSaw
      <4>2. CASE i # at
        BY <1>1, <1>2, <1>3, <1>6, <3>1, <4>2 DEF Vouched
      <4> QED
        BY <4>1, <4>2
    <3>4. OneSaw(Repos[i])' /\ (step' = "gates" \/ i < at' => LintsSaw(Repos[i])')
      BY <1>1, <2>1, <3>2, <3>3, StillSeen
    <3> QED
      BY <2>1, <3>4 DEF Vouched, TaggedSoFar, AfterOne, AfterLints, AfterGates, Drift
  <2> QED
    BY <1>4, <2>1, <2>2 DEF ReleaseInv, DriftSaw, Drift
<1> QED
  BY <1>5, <1>6

LEMMA GatesStep == ASSUME ReleaseInv, Gates PROVE ReleaseInv'
<1> DEFINE gates == tree[Here].gates
<1>1. /\ step = "gates"
      /\ UNCHANGED <<tree, head, remote, tag, options, backup, writer, moved, at>>
  BY DEF Gates, git, drift, Others
<1>2. Typed /\ at = 1
  BY <1>1 DEF ReleaseInv, Typed
<1>3. \/ (\A g \in gates : Passes(g)) /\ noted' = gates /\ step' = "tests"
      \/ step' = "failed"
  BY DEF Gates
<1>4. Typed'
  <2> HIDE DEF gates
  <2> QED
    BY <1>1, <1>2, <1>3 DEF Typed, Drift, AfterOne, AfterLints, AfterGates, Ended
<1>5. CASE step' = "failed"
  BY <1>4, <1>5, FailedStep
<1>6. CASE (\A g \in gates : Passes(g)) /\ noted' = gates /\ step' = "tests"
  <2>1. step' = "tests" /\ at' = 1
    BY <1>1, <1>2, <1>6
  <2>2. ASSUME NEW i \in 1 .. 3, Repos[i] \notin moved' PROVE (Vouched(i) /\ TaggedSoFar(i))'
    <3>1. Vouched(i) /\ tree[Repos[i]] = head[Repos[i]]
      BY <1>1, <2>2, SeenBefore DEF AfterOne, AfterLints
    <3>2. OneSaw(Repos[i]) /\ LintsSaw(Repos[i])
      BY <1>1, <3>1 DEF Vouched, AfterOne, AfterLints
    <3>3. OneSaw(Repos[i])' /\ LintsSaw(Repos[i])'
      BY <1>1, <2>1, <3>2
         DEF OneSaw, SameTree, LintsSaw, AtCoverage, Counts, options
    <3>4. "at_coverage_total" \in noted' => AtCoverageTotal
      BY <1>6 DEF Passes
    <3>5. "property_coverage" \in noted' => PropertyCoverage
      BY <1>6 DEF Passes
    <3>6. GatesSaw(Repos[i])'
      <4>1. Repos[i] = Here => head[Repos[i]].gates \subseteq noted'
        BY <1>6, <3>1
      <4>2. (Repos[i] = Here \/ crossRepo) /\ "at_coverage_total" \in noted' => head[Repos[i]].coverage
        BY <3>1, <3>4, RepoFacts DEF AtCoverageTotal
      <4>3. Repos[i] # "seamount" /\ "property_coverage" \in noted' => head[Repos[i]].property = "ok"
        BY <3>1, <3>5, RepoFacts DEF PropertyCoverage
      <4> QED
        BY <1>1, <4>1, <4>2, <4>3 DEF GatesSaw, options
    <3> QED
      BY <2>1, <3>3, <3>6 DEF Vouched, TaggedSoFar
  <2> QED
    BY <1>4, <2>1, <2>2 DEF ReleaseInv, DriftSaw, Drift
<1> QED
  BY <1>3, <1>5, <1>6

\* Step 3 of a sibling, and of thermocline up to the drift test.
LEMMA TestsStep == ASSUME ReleaseInv, Tests PROVE ReleaseInv'
<1> DEFINE r == Repos[at]
<1>1. /\ step = "tests"
      /\ UNCHANGED <<tree, head, remote, tag, options, backup, writer, moved, noted>>
  BY DEF Tests, git, drift, Others
<1>2. Typed /\ at \in 1 .. 3
  BY DEF ReleaseInv, Typed
<1>3. ASSUME NEW i \in 1 .. 3, Repos[i] \notin moved
      PROVE  /\ OneSaw(Repos[i]) /\ LintsSaw(Repos[i]) /\ GatesSaw(Repos[i])
             /\ i < at => TestsSaw(Repos[i])
             /\ tree[Repos[i]] = head[Repos[i]]
  BY <1>1, <1>3, SeenBefore DEF Vouched, AfterOne, AfterLints, AfterGates
<1>4. CASE r = Here
  <2>0. at = 1
    BY <1>2, <1>4, RepoFacts
  <2>1. /\ at' = at
        /\ step' = "failed" \/ (step' = "corrupt" /\ (verdict' => SuitePasses(r)))
    BY <1>4 DEF Tests
  <2>2. Typed'
    BY <1>1, <1>2, <2>0, <2>1 DEF Typed, Drift, AfterOne, AfterLints, AfterGates, Ended
  <2>3. CASE step' = "failed"
    BY <2>2, <2>3, FailedStep
  <2>4. CASE step' = "corrupt"
    <3>1. DriftSaw'
      <4>1. verdict' => SuitePasses(Here)
        BY <1>4, <2>1, <2>4
      <4>2. Here \notin moved => tree[Here] = head[Here]
        BY <1>3, RepoFacts
      <4> QED
        BY <1>1, <4>1, <4>2 DEF SuitePasses, DriftSaw, TestPasses, Here
    <3>2. ASSUME NEW i \in 1 .. 3, Repos[i] \notin moved' PROVE (Vouched(i) /\ TaggedSoFar(i))'
      <4>1. OneSaw(Repos[i])' /\ LintsSaw(Repos[i])' /\ GatesSaw(Repos[i])'
        BY <1>1, <1>3, <2>4, <3>2, StillSeen
      <4> QED
        BY <2>4, <4>1 DEF Vouched, TaggedSoFar
    <3> QED
      BY <2>2, <3>1, <3>2 DEF ReleaseInv
  <2> QED
    BY <2>1, <2>3, <2>4
<1>5. CASE r # Here
  <2>1. Judge(SuitePasses(r), "tag")
    BY <1>5 DEF Tests
  <2>2. \/ SuitePasses(r) /\ at < 3 /\ at' = at + 1 /\ step' = step
        \/ SuitePasses(r) /\ at = 3 /\ at' = 1 /\ step' = "tag"
        \/ ~SuitePasses(r) /\ at' = 1 /\ step' = "failed"
    BY <2>1, Judged
  <2>3. Typed'
    BY <1>1, <1>2, <2>2 DEF Typed, Drift, AfterOne, AfterLints, AfterGates, Ended
  <2>4. CASE ~SuitePasses(r)
    BY <2>2, <2>3, <2>4, FailedStep
  <2>5. CASE SuitePasses(r)
    <3>1. step' \in {"tests", "tag"} /\ (step' = "tag" => at' = 1)
      BY <1>1, <2>2, <2>5
    <3>2. ASSUME NEW i \in 1 .. 3, Repos[i] \notin moved' PROVE (Vouched(i) /\ TaggedSoFar(i))'
      <4>1. step' = "tag" \/ i < at' => TestsSaw(Repos[i])
        <5>1. CASE i = at
          BY <1>1, <1>3, <1>5, <2>5, <3>2, <5>1 DEF SuitePasses, TestsSaw
        <5>2. CASE i # at
          BY <1>1, <1>2, <1>3, <2>2, <2>5, <3>2, <5>2
        <5> QED
          BY <5>1, <5>2
      <4>2. /\ OneSaw(Repos[i])' /\ LintsSaw(Repos[i])' /\ GatesSaw(Repos[i])'
            /\ step' = "tag" \/ i < at' => TestsSaw(Repos[i])'
        BY <1>1, <1>3, <3>1, <3>2, <4>1, StillSeen
      <4>3. step' = "tag" => ~(i < at')
        BY <3>1
      <4> QED
        BY <3>1, <4>2, <4>3 DEF Vouched, TaggedSoFar
    <3> QED
      BY <2>3, <3>1, <3>2 DEF ReleaseInv, DriftSaw, Drift
  <2> QED
    BY <2>4, <2>5
<1> QED
  BY <1>4, <1>5

\* Putting back what was there undoes the damage.
LEMMA Restored ==
  ASSUME NEW c \in Contents, NEW f \in FileSet, NEW m
  PROVE  [[c EXCEPT !.schemas[f] = m] EXCEPT !.schemas[f] = c.schemas[f]] = c
<1> DEFINE d == [c EXCEPT !.schemas = [c.schemas EXCEPT ![f] = m]]
<1>1. c.schemas \in [FileSet -> SchemaStates]
  BY DEF Contents
<1>2. [[c.schemas EXCEPT ![f] = m] EXCEPT ![f] = c.schemas[f]] = c.schemas
  BY <1>1
<1>3. d.schemas = [c.schemas EXCEPT ![f] = m]
  BY DEF Contents
<1>4. [d EXCEPT !.schemas = c.schemas] = c
  BY DEF Contents
<1>5. [d EXCEPT !.schemas = [d.schemas EXCEPT ![f] = c.schemas[f]]] = c
  <2> HIDE DEF d
  <2> QED
    BY <1>2, <1>3, <1>4
<1> QED
  BY <1>5

\* The drift test changes thermocline's tree, and no commit.
LEMMA DriftSeen ==
  ASSUME UNCHANGED <<head, remote, options, noted, tag>>, NEW i \in 1 .. 3,
         OneSaw(Repos[i]), LintsSaw(Repos[i]), GatesSaw(Repos[i]),
         SameTree(Repos[i])', step' \in Drift
  PROVE  (Vouched(i) /\ TaggedSoFar(i))'
BY DEF OneSaw, LintsSaw, GatesSaw, AtCoverage, Counts, Vouched, TaggedSoFar, Drift, options

LEMMA InDrift ==
  ASSUME ReleaseInv, step \in Drift, NEW i \in 1 .. 3, Repos[i] \notin moved
  PROVE  OneSaw(Repos[i]) /\ LintsSaw(Repos[i]) /\ GatesSaw(Repos[i]) /\ SameTree(Repos[i])
<1>1. Vouched(i)
  BY DEF ReleaseInv
<1> QED
  BY <1>1 DEF Vouched, AfterOne, AfterLints, AfterGates, OneSaw

LEMMA CorruptStep == ASSUME ReleaseInv, Corrupt PROVE ReleaseInv'
<1> DEFINE f == Files[1]
           c == tree[Here]
           d == [c EXCEPT !.schemas[f] = "damaged"]
<1>1. /\ step = "corrupt" /\ at = 1
      /\ UNCHANGED <<at, head, remote, tag, options, writer, moved, noted>>
  BY DEF Corrupt, Others, ReleaseInv, Typed, Drift
<1>2. Typed /\ c \in Contents /\ f \in FileSet /\ c.schemas[f] \in SchemaStates
  <2>1. Typed /\ c \in Contents /\ f \in FileSet
    BY RepoFacts, FileFacts DEF ReleaseInv, Typed
  <2>2. c.schemas[f] \in SchemaStates
    <3> HIDE DEF c, f
    <3> QED
      BY <2>1 DEF Contents
  <2> QED
    BY <2>1, <2>2
<1>3. CASE step' = "failed"
  <2>1. tree' = tree /\ backup' = "missing"
    BY <1>3 DEF Corrupt, Forgotten
  <2>2. Typed'
    BY <1>1, <1>2, <1>3, <2>1 DEF Typed, Drift, Ended, SchemaStates
  <2> QED
    BY <1>3, <2>2, FailedStep
<1>4. CASE step' # "failed"
  <2>1. /\ backup' = c.schemas[f] /\ tree' = [tree EXCEPT ![Here] = d]
        /\ step' = "signal" /\ verdict' = verdict
    BY <1>4 DEF Corrupt, Schema
  <2>2. d \in Contents
    <3>1. c \in Contents /\ f \in FileSet
      BY <1>2
    <3>2. "damaged" \in SchemaStates
      BY DEF SchemaStates
    <3> HIDE DEF c, f
    <3> QED
      BY <3>1, <3>2, SchemaTyped
  <2>3. tree' \in [RepoNames -> Contents] /\ tree'[Here] = d
    BY <1>2, <2>1, <2>2, RepoFacts DEF Typed
  <2>4. Typed'
    BY <1>1, <1>2, <2>1, <2>3 DEF Typed, Drift, AfterOne, AfterLints, AfterGates
  <2>5. [d EXCEPT !.schemas[f] = c.schemas[f]] = c
    BY <1>2, Restored
  <2>6. ASSUME NEW i \in 1 .. 3, Repos[i] \notin moved' PROVE (Vouched(i) /\ TaggedSoFar(i))'
    <3>1. OneSaw(Repos[i]) /\ LintsSaw(Repos[i]) /\ GatesSaw(Repos[i]) /\ SameTree(Repos[i])
      BY <1>1, <2>6, InDrift DEF Drift
    <3>2. SameTree(Repos[i])'
      <4>1. CASE Repos[i] = Here
        BY <1>1, <2>1, <2>3, <2>5, <3>1, <4>1 DEF SameTree
      <4>2. CASE Repos[i] # Here
        BY <1>1, <1>2, <2>1, <3>1, <4>2, RepoFacts DEF SameTree, Typed
      <4> QED
        BY <4>1, <4>2
    <3> QED
      BY <1>1, <2>1, <3>1, <3>2, DriftSeen DEF Drift
  <2>7. DriftSaw'
    BY <1>1, <2>1 DEF ReleaseInv, DriftSaw, Drift, TestPasses
  <2> QED
    BY <2>4, <2>6, <2>7 DEF ReleaseInv
<1> QED
  BY <1>3, <1>4

LEMMA SignalStep == ASSUME ReleaseInv, Signal PROVE ReleaseInv'
<1>1. /\ step = "signal" /\ step' = "restore" /\ (verdict' => verdict)
      /\ UNCHANGED <<tree, at, head, remote, tag, options, writer, moved, backup, noted>>
  BY DEF Signal, Others, git
<1>2. Typed'
  BY <1>1 DEF ReleaseInv, Typed, Drift, AfterOne, AfterLints, AfterGates
<1>3. ASSUME NEW i \in 1 .. 3, Repos[i] \notin moved' PROVE (Vouched(i) /\ TaggedSoFar(i))'
  <2>1. OneSaw(Repos[i]) /\ LintsSaw(Repos[i]) /\ GatesSaw(Repos[i]) /\ SameTree(Repos[i])
    BY <1>1, <1>3, InDrift DEF Drift
  <2>2. SameTree(Repos[i])'
    BY <1>1, <2>1 DEF SameTree
  <2> QED
    BY <1>1, <2>1, <2>2, DriftSeen DEF Drift
<1>4. DriftSaw'
  BY <1>1 DEF ReleaseInv, DriftSaw, Drift, TestPasses
<1> QED
  BY <1>2, <1>3, <1>4 DEF ReleaseInv

LEMMA RestoreStep == ASSUME ReleaseInv, Restore PROVE ReleaseInv'
<1> DEFINE f == Files[1]
           d == [tree[Here] EXCEPT !.schemas[f] = backup]
<1>1. /\ step = "restore" /\ step' = "clean" /\ tree' = [tree EXCEPT ![Here] = d]
      /\ UNCHANGED <<at, head, remote, tag, options, writer, moved, backup, verdict, noted>>
  BY DEF Restore, Others, Schema, drift
<1>2. Typed /\ tree[Here] \in Contents /\ f \in FileSet /\ backup \in SchemaStates
  BY RepoFacts, FileFacts DEF ReleaseInv, Typed
<1>3. d \in Contents
  BY <1>2, SchemaTyped
<1>4. tree' \in [RepoNames -> Contents] /\ tree'[Here] = d
  BY <1>1, <1>2, <1>3, RepoFacts DEF Typed
<1>5. Typed'
  BY <1>1, <1>2, <1>4 DEF Typed, Drift, AfterOne, AfterLints, AfterGates
<1>6. ASSUME NEW i \in 1 .. 3, Repos[i] \notin moved' PROVE (Vouched(i) /\ TaggedSoFar(i))'
  <2>1. OneSaw(Repos[i]) /\ LintsSaw(Repos[i]) /\ GatesSaw(Repos[i]) /\ SameTree(Repos[i])
    BY <1>1, <1>6, InDrift DEF Drift
  <2>2. SameTree(Repos[i])'
    <3>1. CASE Repos[i] = Here
      BY <1>1, <1>4, <2>1, <3>1 DEF SameTree
    <3>2. CASE Repos[i] # Here
      BY <1>1, <1>2, <2>1, <3>2, RepoFacts DEF SameTree, Typed
    <3> QED
      BY <3>1, <3>2
  <2> QED
    BY <1>1, <2>1, <2>2, DriftSeen DEF Drift
<1>7. DriftSaw'
  BY <1>1 DEF ReleaseInv, DriftSaw, Drift, TestPasses
<1> QED
  BY <1>5, <1>6, <1>7 DEF ReleaseInv

LEMMA SaneStep == ASSUME ReleaseInv, Sane PROVE ReleaseInv'
<1>1. /\ step = "clean" /\ at = 1 /\ backup' = "missing"
      /\ UNCHANGED <<tree, head, remote, tag, options, writer, moved, noted>>
  BY DEF Sane, Forgotten, Others, git, ReleaseInv, Typed, Drift
<1> USE DEF SchemaStates
<1>2. CASE step' = "failed"
  <2>1. at' = at
    BY <1>2 DEF Sane
  <2>2. Typed'
    BY <1>1, <1>2, <2>1 DEF ReleaseInv, Typed, Drift, Ended
  <2> QED
    BY <1>2, <2>2, FailedStep
<1>3. CASE step' # "failed"
  <2>1. step' = "tests" /\ at' = 2 /\ CheckAll(tree[Here]) /\ verdict
    BY <1>1, <1>3 DEF Sane
  <2>2. Typed'
    BY <1>1, <2>1 DEF ReleaseInv, Typed, Drift, AfterOne, AfterLints, AfterGates
  <2>3. ASSUME NEW i \in 1 .. 3, Repos[i] \notin moved' PROVE (Vouched(i) /\ TaggedSoFar(i))'
    <3>1. OneSaw(Repos[i]) /\ LintsSaw(Repos[i]) /\ GatesSaw(Repos[i]) /\ SameTree(Repos[i])
      BY <1>1, <2>3, InDrift DEF Drift
    <3>2. i < at' => TestsSaw(Repos[i])
      <4>1. SUFFICES ASSUME i = 1 PROVE TestsSaw(Repos[i])
        BY <2>1
      <4>2. Repos[i] = Here /\ tree[Here] = head[Here]
        BY <1>1, <3>1, <4>1, RepoFacts DEF SameTree
      <4>3. head[Here].suite = "ok" /\ \A t \in head[Here].tests : TestPasses(t)
        BY <1>1, <2>1, <2>3, <4>2 DEF ReleaseInv, DriftSaw, Drift
      <4> QED
        BY <2>1, <4>2, <4>3 DEF TestsSaw, Here
    <3>3. /\ OneSaw(Repos[i])' /\ LintsSaw(Repos[i])' /\ GatesSaw(Repos[i])'
          /\ i < at' => TestsSaw(Repos[i])'
      BY <1>1, <2>1, <3>1, <3>2, StillSeen
    <3> QED
      BY <2>1, <3>3 DEF Vouched, TaggedSoFar
  <2> QED
    BY <2>1, <2>2, <2>3 DEF ReleaseInv, DriftSaw, Drift
<1> QED
  BY <1>2, <1>3

LEMMA TagStep == ASSUME ReleaseInv, Tag PROVE ReleaseInv'
<1> DEFINE r == Repos[at]
<1>1. /\ step = "tag"
      /\ UNCHANGED <<tree, head, remote, options, writer, moved, backup, noted>>
  BY DEF Tag, Others, drift
<1>2. Typed /\ at \in 1 .. 3
  BY DEF ReleaseInv, Typed
<1>3. \/ /\ at < 3 /\ at' = at + 1 /\ step' = "tag"
         /\ tag' = IF dry THEN tag ELSE [tag EXCEPT ![r] = head[r]]
      \/ /\ at = 3 /\ at' = 1 /\ step' = "complete"
         /\ tag' = IF dry THEN tag ELSE [tag EXCEPT ![r] = head[r]]
      \/ at' = 1 /\ step' = "failed" /\ tag' = tag
  <2>1. CASE dry /\ Judge(TRUE, "complete") /\ UNCHANGED tag
    BY <1>1, <2>1, Judged
  <2>2. CASE /\ ~dry /\ tag[r] = NoTag
             /\ tag' = [tag EXCEPT ![r] = head[r]]
             /\ Judge(TRUE, "complete")
    BY <1>1, <2>2, Judged
  <2>3. CASE ~dry /\ Judge(FALSE, "complete") /\ UNCHANGED tag
    BY <1>1, <2>3, Judged
  <2> QED
    BY <2>1, <2>2, <2>3 DEF Tag
<1>4. Typed'
  BY <1>1, <1>2, <1>3 DEF Typed, Drift, AfterOne, AfterLints, AfterGates, Ended
<1>5. CASE step' = "failed"
  BY <1>4, <1>5, FailedStep
<1>6. CASE step' # "failed"
  <2>1. ASSUME NEW i \in 1 .. 3, Repos[i] \notin moved' PROVE Vouched(i)'
    <3>1. CASE step' = "complete"
      BY <3>1 DEF Vouched, AfterOne, AfterLints, AfterGates, Drift
    <3>2. CASE step' = "tag"
      <4>1. OneSaw(Repos[i]) /\ LintsSaw(Repos[i]) /\ GatesSaw(Repos[i]) /\ TestsSaw(Repos[i])
        BY <1>1, <2>1 DEF ReleaseInv, Vouched, AfterOne, AfterLints, AfterGates
      <4>2. (OneSaw(Repos[i]) /\ LintsSaw(Repos[i]) /\ GatesSaw(Repos[i]) /\ TestsSaw(Repos[i]))'
        BY <1>1, <3>2, <4>1, StillSeen
      <4> QED
        BY <3>2, <4>2 DEF Vouched
    <3> QED
      BY <1>3, <1>6, <3>1, <3>2
  <2>2. ASSUME NEW i \in 1 .. 3, Repos[i] \notin moved', ~dry,
               step' = "complete" \/ i < at'
        PROVE  tag'[Repos[i]] = head[Repos[i]]
    <3>1. tag' = [tag EXCEPT ![r] = head[r]]
      BY <1>3, <1>6, <2>2
    <3>2. CASE i = at
      BY <1>2, <3>1, <3>2, RepoFacts DEF Typed
    <3>3. CASE i # at
      <4>1. i < at /\ Repos[i] # r
        BY <1>2, <1>3, <1>6, <2>2, <3>3, RepoFacts
      <4>2. tag[Repos[i]] = head[Repos[i]]
        BY <1>1, <2>2, <4>1 DEF ReleaseInv, TaggedSoFar
      <4> QED
        BY <3>1, <4>1, <4>2, RepoFacts DEF Typed
    <3> QED
      BY <3>2, <3>3
  <2>3. ASSUME NEW i \in 1 .. 3, Repos[i] \notin moved' PROVE TaggedSoFar(i)'
    BY <1>1, <2>2, <2>3 DEF TaggedSoFar, options
  <2> QED
    BY <1>3, <1>4, <1>6, <2>1, <2>3 DEF ReleaseInv, DriftSaw, Drift
<1> QED
  BY <1>5, <1>6

LEMMA KillStep == ASSUME ReleaseInv, Kill PROVE ReleaseInv'
<1>1. step' = "failed"
  BY DEF Kill
<1>2. Typed'
  BY DEF Kill, Forgotten, Others, git, ReleaseInv, Typed, Drift, Ended, SchemaStates
<1> QED
  BY <1>1, <1>2, FailedStep

LEMMA ReleaseStep == ASSUME ReleaseInv, [Next]_release PROVE ReleaseInv'
<1>1. CASE UNCHANGED release
  BY <1>1 DEF release, git, options, drift, ReleaseInv, Typed, DriftSaw, Vouched, TaggedSoFar,
              OneSaw, SameTree, LintsSaw, GatesSaw, TestsSaw, AtCoverage, Counts, CheckAll,
              TestPasses
<1>2. CASE Next
  BY <1>2, RunStep, PreconditionsStep, LintsStep, GatesStep, TestsStep, CorruptStep,
     SignalStep, RestoreStep, SaneStep, TagStep, KillStep, DeveloperStep DEF Next, Script
<1> QED
  BY <1>1, <1>2

LEMMA ReleaseInitially == ASSUME Init PROVE ReleaseInv
<1>1. head \in [RepoNames -> Contents] /\ tree = head /\ remote = head
  <2>1. head \in Start /\ tree = head /\ remote = head
    BY DEF Init
  <2> QED
    BY <2>1, ReleaseAssumption
<1>2. /\ at = 1 /\ step = "idle" /\ moved = {} /\ writer = NoWriter /\ backup = "missing"
      /\ DOMAIN tag = RepoNames
  BY DEF Init
<1>3. "missing" \in SchemaStates
  BY DEF SchemaStates
<1>4. tree \in [RepoNames -> Contents] /\ remote \in [RepoNames -> Contents]
  BY <1>1
<1>5. backup \in SchemaStates /\ at \in 1 .. 3 /\ moved \subseteq RepoNames
  BY <1>2, <1>3
<1>6. step \in Ended \cup {"preconditions"} \cup AfterOne /\ step \notin Drift \cup {"gates"}
  BY <1>2 DEF Ended, Drift
<1>7. Typed
  BY <1>1, <1>2, <1>4, <1>5, <1>6 DEF Typed
<1> QED
  BY <1>1, <1>2, <1>7 DEF Init, ReleaseInv, DriftSaw, Drift, Vouched, TaggedSoFar, AfterOne, AfterLints,
              AfterGates

\* When the script says that all repositories are tagged, each one nobody touched
\* meanwhile has the tag at the commit it is at (lines 166-178, 184).
THEOREM AllThreeTagged == Spec => []CompleteMeansWhole
<1>1. Init => ReleaseInv
  BY ReleaseInitially
<1>2. ReleaseInv /\ [Next]_release => ReleaseInv'
  BY ReleaseStep
<1>3. ReleaseInv => CompleteMeansWhole
  BY RepoFacts DEF ReleaseInv, CompleteMeansWhole, TaggedSoFar
<1> QED
  BY <1>1, <1>2, <1>3, PTL DEF Spec

\* A repository that is past step 1 and untouched is tested and linted as it will
\* be tagged, the moment of the drift test excepted.
THEOREM TestedAsTagged == Spec => []TestedIsTagged
<1>1. Init => ReleaseInv
  BY ReleaseInitially
<1>2. ReleaseInv /\ [Next]_release => ReleaseInv'
  BY ReleaseStep
<1>3. ReleaseInv => TestedIsTagged
  <2> SUFFICES ASSUME ReleaseInv, step \notin Ended \cup {"preconditions", "signal", "restore"},
                      NEW r \in RepoNames \ moved
               PROVE  tree[r] = head[r]
    BY DEF TestedIsTagged
  <2>1. step \in AfterOne \ {"signal", "restore"}
    BY DEF ReleaseInv, Typed
  <2> QED
    BY <2>1, SeenBefore, RepoFacts
<1> QED
  BY <1>1, <1>2, <1>3, PTL DEF Spec

\* A repository all of whose steps are through may be released.
LEMMA VouchedReleasable ==
  ASSUME ReleaseInv, step = "tag", NEW q \in RepoNames \ moved
  PROVE  Releasable(q, head[q])
<1>1. PICK i \in 1 .. 3 : Repos[i] = q
  BY RepoFacts
<1>2. OneSaw(q) /\ LintsSaw(q) /\ GatesSaw(q) /\ TestsSaw(q)
  BY <1>1 DEF ReleaseInv, Vouched, AfterOne, AfterLints, AfterGates
<1>3. head[q].coverage =>
        \A s \in Surfaces : \E t \in head[q].tests :
          t.surface = s /\ "skip" \notin t.marks /\ t.body # "skips"
  BY <1>2 DEF LintsSaw, AtCoverage, Counts
<1>4. q = Here => \A t \in head[q].tests :
                    "skip" \notin t.marks => t.body # "fails" \/ "keystore" \in t.marks
  BY <1>2 DEF TestsSaw, TestPasses
<1>5. head[q].coverage =>
        \A s \in Surfaces : \E t \in head[q].tests :
          /\ t.surface = s /\ "skip" \notin t.marks /\ t.body # "skips"
          /\ q = Here => t.body # "fails" \/ "keystore" \in t.marks
  BY <1>3, <1>4
<1> QED
  BY <1>2, <1>5 DEF Releasable, OneSaw, LintsSaw, GatesSaw, TestsSaw, CheckAll

LEMMA OnlyTagTags ==
  ASSUME ReleaseInv, Next, NEW r \in RepoNames, tag[r] = NoTag, tag'[r] # NoTag
  PROVE  step = "tag" /\ ~dry
<1>1. CASE Run
  BY <1>1 DEF Run, git
<1>2. CASE Developer
  <2>1. tag' = tag \/ \E q \in RepoNames : tag' = [tag EXCEPT ![q] = NoTag]
    BY <1>2 DEF Developer, Edit, Commit, Checkout, Push, Untag, StartWrite, WriteFile,
                WriteKilled, Midnight, git
  <2> QED
    BY <2>1 DEF ReleaseInv, Typed
<1>3. CASE Script
  <2>1. tag' = tag \/ Tag
    BY <1>3 DEF Script, Preconditions, Lints, Gates, Tests, Corrupt, Signal, Restore, Sane,
                Kill, git
  <2>2. CASE Tag
    BY <2>2 DEF Tag
  <2> QED
    BY <2>1, <2>2
<1> QED
  BY <1>1, <1>2, <1>3 DEF Next

\* No tag is set before every repository, not just the one being tagged, has passed
\* every step, and none in a dry run (lines 43-178).
THEOREM TagsFollow == Spec => TagsFollowAllChecks
<1>1. Init => ReleaseInv
  BY ReleaseInitially
<1>2. ReleaseInv /\ [Next]_release => ReleaseInv'
  BY ReleaseStep
<1> DEFINE Follows ==
      \A r \in RepoNames : tag[r] = NoTag /\ tag'[r] # NoTag =>
        ~dry /\ \A q \in RepoNames \ moved : Releasable(q, head[q])
<1>3. ReleaseInv /\ [Next]_release => [Follows]_release
  <2>1. ReleaseInv /\ Next => Follows
    BY OnlyTagTags, VouchedReleasable
  <2> QED
    BY <2>1
<1> QED
  BY <1>1, <1>2, <1>3, PTL DEF Spec, TagsFollowAllChecks
=============================================================================
