----------------------------- MODULE ReleaseTag -----------------------------
(***************************************************************************)
(* The release coordinator scripts/tag-v0.1.0.sh, which checks three git   *)
(* checkouts one after the other and then tags them one after the other,   *)
(* with what it runs in them: the coverage gates of tools/ and, in the     *)
(* tests of thermocline, build_schemas --check and the drift test, which   *)
(* damages a schema file and puts it back.                                 *)
(*                                                                         *)
(* Meanwhile the developer edits, commits, pushes and runs                 *)
(* build_schemas --write, the script is killed and run again, the day ends.*)
(***************************************************************************)
EXTENDS Naturals, Sequences

CONSTANTS
  Trees,          \* what a working tree or a commit may hold
  Start,          \* what the three checkouts hold at the beginning
  Surfaces,       \* the surfaces at_coverage.py expects
  Files,          \* the schema files, in the order of ENVELOPES
  Models,         \* versions of the Pydantic models
  MaxDay, MaxRuns, MaxMoves,
  NoTag, NoWriter

Repos == <<"thermocline", "photophore", "seamount">>
RepoNames == {Repos[i] : i \in DOMAIN Repos}
Here == "thermocline"

\* A test of tests/at_negative: "skips" begins with pytest.skip.
AtTests == [surface : Surfaces, marks : SUBSET {"skip", "keystore"}, body : {"ok", "fails", "skips"}]

FileSet == {Files[i] : i \in DOMAIN Files}

\* What a schema file was generated from, or what became of it.
SchemaStates == Models \cup {"missing", "damaged"}

\* heading, the day of the CHANGELOG's section or 0; lints, what the two AST lints
\* say; coverage, whether tools/at_coverage.py is there; gates, which tools of step 2b
\* are; suite, how the other tests end; property, what the CONF-03 targets look like.
Contents ==
  [heading : Nat, lints : {"ok", "fails", "absent"}, coverage : BOOLEAN,
   gates : SUBSET {"at_coverage_total", "property_coverage"},
   tests : SUBSET AtTests, suite : {"ok", "fails", "absent"},
   property : {"ok", "fails", "absent"}, models : Models, schemas : [FileSet -> SchemaStates]]

ASSUME ReleaseAssumption ==
  /\ Files \in Seq(STRING) /\ Files # <<>>
  /\ {"missing", "damaged"} \cap Models = {}
  /\ Trees \subseteq Contents /\ Start \subseteq [RepoNames -> Contents]

VARIABLES
  tree, head, branch, remote, tag, day,
  step, at,                      \* the script: "idle", its steps, how it ended
  dry, today, crossRepo, noted,  \* options, TODAY, the gates noted as passed in step 2b
  backup, verdict,               \* the drift test, whether pytest has had no failure
  writer,                        \* a build_schemas --write: its models, files left
  moved, moves, runs             \* history: repositories touched since their step 1

git == <<tree, head, branch, remote, tag>>
options == <<dry, today, crossRepo>>
drift == <<backup, verdict>>
release == <<git, day, step, at, options, noted, drift, writer, moved, moves, runs>>

Ended == {"idle", "failed", "complete"}

-----------------------------------------------------------------------------
(* What the steps ask of a tree.                                           *)

\* _covered_surfaces of at_coverage.py: not marked with skip, and the first
\* statement after the docstring does not skip.
Counts(t) == "skip" \notin t.marks /\ t.body # "skips"

AtCoverage(c) == Surfaces \subseteq {t.surface : t \in {u \in c.tests : Counts(u)}}

\* pytest -m "not keystore".
TestPasses(t) == t.marks \cap {"skip", "keystore"} # {} \/ t.body # "fails"

\* at_coverage_total.py: the siblings only on request.
AtCoverageTotal ==
  /\ tree[Here].coverage /\ AtCoverage(tree[Here])
  /\ crossRepo => \A r \in RepoNames \ {Here} : tree[r].coverage /\ AtCoverage(tree[r])

\* property_coverage.py with PROPERTY_COVERAGE_STRICT=1; seamount has no target.
PropertyCoverage == \A r \in {Here, "photophore"} : tree[r].property = "ok"

Passes(gate) == IF gate = "at_coverage_total" THEN AtCoverageTotal ELSE PropertyCoverage

\* Mutant: a file that is not there is not compared.
CheckAllPresent(c) == \A i \in DOMAIN Files : c.schemas[Files[i]] \in {"missing", c.models}

\* check_all of build_schemas.py.
CheckAll(c) == \A i \in DOMAIN Files : c.schemas[Files[i]] = c.models

\* Step 3: in seamount a directory that is not there is passed over.
SuitePasses(r) ==
  /\ tree[r].suite \in (IF r = "seamount" THEN {"ok", "absent"} ELSE {"ok"})
  /\ r = Here => \A t \in tree[r].tests : TestPasses(t)

-----------------------------------------------------------------------------
(* The script.                                                             *)

Run ==
  /\ step \in Ended /\ runs < MaxRuns
  /\ runs' = runs + 1
  /\ dry' \in BOOLEAN /\ crossRepo' \in BOOLEAN
  /\ today' = day
  /\ step' = "preconditions" /\ at' = 1
  /\ noted' = {} /\ moved' = {}
  /\ UNCHANGED <<git, day, drift, writer, moves>>

\* To the next repository, after the last one to the next step; err ends the run.
Judge(ok, next) ==
  \/ /\ ok /\ at < Len(Repos)
     /\ at' = at + 1 /\ UNCHANGED step
  \/ /\ ok /\ at = Len(Repos)
     /\ at' = 1 /\ step' = next
  \/ /\ ~ok
     /\ at' = 1 /\ step' = "failed"

Others == UNCHANGED <<day, options, writer, moved, moves, runs>>

\* Mutant: the working tree may be dirty.
CleanIgnored(r) == TRUE

Clean(r) == tree[r] = head[r]

Dated(r) == tree[r].heading = today

\* Step 1, with the fetch.
Preconditions ==
  /\ step = "preconditions"
  /\ LET r == Repos[at]
     IN  /\ Judge(Clean(r) /\ branch[r] = "main" /\ head[r] = remote[r] /\ Dated(r), "lints")
         /\ moved' = moved \ {r}
  /\ UNCHANGED <<git, noted, drift, day, options, writer, moves, runs>>

\* Step 2: a tool that is not in the checkout is not run.
Lints ==
  /\ step = "lints"
  /\ LET c == tree[Repos[at]]
     IN  Judge(c.lints # "fails" /\ (c.coverage => AtCoverage(c)), "gates")
  /\ UNCHANGED <<git, noted, drift>> /\ Others

\* Step 2b, in thermocline only: a gate whose tool is not in the checkout is passed
\* over, and so are the checks of the siblings that it stands for.
Gates ==
  /\ step = "gates"
  /\ LET gates == tree[Here].gates
     IN  \/ /\ \A g \in gates : Passes(g)
            /\ noted' = gates /\ step' = "tests"
         \/ /\ \E g \in gates : ~Passes(g)
            /\ noted' = {g \in gates : g = "at_coverage_total" /\ Passes(g)}
            /\ step' = "failed"
  /\ UNCHANGED <<git, at, drift>> /\ Others

\* Step 3.  In thermocline pytest goes on after a failure, to the drift test, unless
\* it ends at once: nothing to run, or an error while it collects.
Tests ==
  /\ step = "tests"
  /\ LET r == Repos[at]
     IN  \/ /\ r = Here /\ tree[r].suite # "absent"
            /\ verdict' = (SuitePasses(r) /\ CheckAll(tree[r]))
            /\ step' = "corrupt" /\ UNCHANGED <<at, backup>>
         \/ /\ r = Here /\ tree[r].suite # "ok"
            /\ step' = "failed" /\ UNCHANGED <<at, drift>>
         \/ /\ r # Here
            /\ Judge(SuitePasses(r), "tag") /\ UNCHANGED drift
  /\ UNCHANGED <<git, noted>> /\ Others

\* What pytest knew is gone with it.
Forgotten == backup' = "missing" /\ verdict' = TRUE

Schema(c) == tree' = [tree EXCEPT ![Here].schemas[Files[1]] = c]

\* test_drift_simulation_signal: read the first file, damage it, ...
Corrupt ==
  /\ step = "corrupt"
  /\ IF tree[Here].schemas[Files[1]] = "missing"
     THEN step' = "failed" /\ UNCHANGED tree /\ Forgotten
     ELSE /\ backup' = tree[Here].schemas[Files[1]]
          /\ Schema("damaged")
          /\ step' = "signal" /\ UNCHANGED verdict
  /\ UNCHANGED <<at, head, branch, remote, tag, noted>> /\ Others

\* ... expect --check to name it, ...
Signal ==
  /\ step = "signal"
  /\ verdict' = (verdict /\ tree[Here].schemas[Files[1]] # tree[Here].models)
  /\ step' = "restore"
  /\ UNCHANGED <<git, at, noted, backup>> /\ Others

\* ... put it back in any case ...
Restore ==
  /\ step = "restore"
  /\ Schema(backup)
  /\ step' = "clean"
  /\ UNCHANGED <<at, head, branch, remote, tag, noted, drift>> /\ Others

\* ... and expect --check to be content.  pytest reports whatever failed.
Sane ==
  /\ step = "clean"
  /\ IF verdict /\ CheckAll(tree[Here])
     THEN step' = "tests" /\ at' = at + 1
     ELSE step' = "failed" /\ UNCHANGED at
  /\ Forgotten /\ UNCHANGED <<git, noted>> /\ Others

\* Mutant: the script goes on when git tag fails, as it does for a tag that exists.
TagUnchecked ==
  /\ step = "tag"
  /\ Judge(TRUE, "complete")
  /\ LET r == Repos[at]
     IN  \/ UNCHANGED tag
         \/ ~dry /\ tag[r] = NoTag /\ tag' = [tag EXCEPT ![r] = head[r]]
  /\ UNCHANGED <<tree, head, branch, remote, noted, drift>> /\ Others

\* Step 4: git tag fails when the tag exists, and for reasons of its own; set -e.
Tag ==
  /\ step = "tag"
  /\ LET r == Repos[at]
     IN  \/ dry /\ Judge(TRUE, "complete") /\ UNCHANGED tag
         \/ /\ ~dry /\ tag[r] = NoTag
            /\ tag' = [tag EXCEPT ![r] = head[r]]
            /\ Judge(TRUE, "complete")
         \/ ~dry /\ Judge(FALSE, "complete") /\ UNCHANGED tag
  /\ UNCHANGED <<tree, head, branch, remote, noted, drift>> /\ Others

\* The script and its tests die at any moment.
Kill ==
  /\ step \notin Ended
  /\ at' = 1 /\ step' = "failed"
  /\ Forgotten /\ UNCHANGED <<git, noted>> /\ Others

Script ==
  \/ Preconditions \/ Lints \/ Gates \/ Tests \/ Corrupt \/ Signal \/ Restore \/ Sane
  \/ Tag \/ Kill

-----------------------------------------------------------------------------
(* The developer.                                                          *)

Move(r) ==
  /\ moves < MaxMoves
  /\ moves' = moves + 1 /\ moved' = moved \cup {r}
  /\ UNCHANGED <<day, step, at, options, noted, drift, runs>>

\* Anything but the schema files, which only --write replaces.
Edit(r) ==
  /\ Move(r)
  /\ \E c \in Trees : tree' = [tree EXCEPT ![r] = [c EXCEPT !.schemas = tree[r].schemas]]
  /\ UNCHANGED <<head, branch, remote, tag, writer>>

Commit(r) ==
  /\ Move(r)
  /\ head' = [head EXCEPT ![r] = tree[r]]
  /\ UNCHANGED <<tree, branch, remote, tag, writer>>

\* git checkout or git pull.
Checkout(r) ==
  /\ Move(r) /\ Clean(r)
  /\ \E c \in Trees, b \in {"main", "topic"} :
       /\ head' = [head EXCEPT ![r] = c] /\ tree' = [tree EXCEPT ![r] = c]
       /\ branch' = [branch EXCEPT ![r] = b]
  /\ UNCHANGED <<remote, tag, writer>>

Push(r) ==
  /\ Move(r) /\ branch[r] = "main"
  /\ remote' = [remote EXCEPT ![r] = head[r]]
  /\ UNCHANGED <<tree, head, branch, tag, writer>>

\* git tag -d.
Untag(r) ==
  /\ Move(r)
  /\ tag' = [tag EXCEPT ![r] = NoTag]
  /\ UNCHANGED <<tree, head, branch, remote, writer>>

\* build_schemas --write: the models as they were when it began, file by file.
StartWrite ==
  /\ writer = NoWriter /\ Move(Here)
  /\ writer' = [models |-> tree[Here].models, left |-> Files]
  /\ UNCHANGED git

WriteFile ==
  /\ writer # NoWriter /\ writer.left # <<>>
  /\ tree' = [tree EXCEPT ![Here].schemas[Head(writer.left)] = writer.models]
  /\ writer' = IF Len(writer.left) = 1 THEN NoWriter
               ELSE [writer EXCEPT !.left = Tail(writer.left)]
  /\ moved' = moved \cup {Here}
  /\ UNCHANGED <<head, branch, remote, tag, day, step, at, options, noted, drift, moves, runs>>

WriteKilled ==
  /\ writer # NoWriter
  /\ writer' = NoWriter
  /\ UNCHANGED <<git, day, step, at, options, noted, drift, moved, moves, runs>>

Midnight ==
  /\ day < MaxDay
  /\ day' = day + 1
  /\ UNCHANGED <<git, step, at, options, noted, drift, writer, moved, moves, runs>>

Developer ==
  \/ \E r \in RepoNames : Edit(r) \/ Commit(r) \/ Checkout(r) \/ Push(r) \/ Untag(r)
  \/ StartWrite \/ WriteFile \/ WriteKilled \/ Midnight

Init ==
  /\ head \in Start /\ tree = head /\ remote = head
  /\ branch = [r \in RepoNames |-> "main"] /\ tag = [r \in RepoNames |-> NoTag]
  /\ day = 1
  /\ step = "idle" /\ at = 1
  /\ dry = FALSE /\ crossRepo = FALSE /\ today = 1 /\ noted = {}
  /\ backup = "missing" /\ verdict = TRUE
  /\ writer = NoWriter
  /\ moved = {} /\ moves = 0 /\ runs = 0

Next == Run \/ Script \/ Developer

Spec == Init /\ [][Next]_release

-----------------------------------------------------------------------------
\* A commit of r that may be released, with the gates of this run that have tools.
Releasable(r, c) ==
  /\ c.heading = today /\ c = remote[r]
  /\ c.lints # "fails" /\ c.suite # "fails"
  /\ r # "seamount" => c.suite = "ok"
  /\ r # "seamount" /\ "property_coverage" \in noted => c.property = "ok"
  /\ (r = Here \/ crossRepo) /\ "at_coverage_total" \in noted => c.coverage
  /\ c.coverage =>
       \A s \in Surfaces : \E t \in c.tests :
         /\ t.surface = s /\ "skip" \notin t.marks /\ t.body # "skips"
         /\ r = Here => t.body # "fails" \/ "keystore" \in t.marks
  /\ r = Here =>
       /\ c.gates \subseteq noted
       /\ \A i \in DOMAIN Files : c.schemas[Files[i]] = c.models

\* The first tag is set only when every repository, not just the one being
\* tagged, is at a commit that passed everything of this run, every gate among it
\* whose tool thermocline's own commit has, unless somebody touched that repository
\* since its step 1; a dry run sets none (tag-v0.1.0.sh 43-178).  The header asserts
\* both gates of step 2b without the condition (lines 5-8; the code, 117 and 121).
TagsFollowAllChecks ==
  [][\A r \in RepoNames : tag[r] = NoTag /\ tag'[r] # NoTag =>
       ~dry /\ \A q \in RepoNames \ moved : Releasable(q, head[q])]_release

\* "All three repos tagged": when a run says so, every repository nobody touched
\* meanwhile has the tag at its commit, none one that an earlier run left behind
\* when it stopped between two repositories (lines 166-178, 184).
CompleteMeansWhole ==
  step = "complete" /\ ~dry =>
    \A r \in RepoNames \ moved : tag[r] = head[r]

\* What the lints and the tests read is the commit that will be tagged: a checkout
\* that passed step 1 and that nobody touches equals its commit but for the moment
\* in which the drift test has a schema file damaged, even if an earlier run was
\* killed in that moment (test_schema_drift.py 46-75).
TestedIsTagged ==
  step \notin Ended \cup {"preconditions", "signal", "restore"} =>
    \A r \in RepoNames \ moved : tree[r] = head[r]

\* "17/17 AT-* surfaces covered across suite", the note of step 2b (line 119), once
\* all lints are through and as long as nobody touches a repository.
CoverageAsReported ==
  "at_coverage_total" \in noted =>
    \A r \in RepoNames \ moved : head[r].coverage /\ AtCoverage(head[r])
=============================================================================
