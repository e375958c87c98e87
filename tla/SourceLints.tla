---------------------------- MODULE SourceLints ----------------------------
(***************************************************************************)
(* The three lints that read the library's source: the one against         *)
(* json.dumps (scripts/check_no_json_dumps.py), the one against print and  *)
(* the one for network isolation (tools/).  They look at statements and    *)
(* file names; what they are meant to prevent happens when the file runs.  *)
(*                                                                         *)
(* A file is a path and a set of statements.  Functions may be called in   *)
(* any order and again, so the statements run in any order, in one scope.  *)
(* A lint reads the set, a run binds names to objects as Python does.      *)
(***************************************************************************)
EXTENDS Naturals, Sequences

CONSTANTS
  Names, Modules, Items,
  Top,         \* the package a module is in: Top["json.decoder"] = "json"
  Ending,      \* Ending[w]: the names of files and directories that end in w
  Starting,    \* Starting[w]: those that start with w
  Files,       \* <where the checkout is, path in the checkout>, each as the
               \* sequence of its segments
  Programs     \* sets of statements

Encoders == {"orjson", "ujson", "simplejson"}
Dumpers == {"dumps", "dump"}
Network == {"httpx", "requests", "aiohttp", "urllib", "socket"}

\* import of [as as], from of import item [as as], of.item() or item(),
\* as = of.item or as = item, importlib.import_module(of); "" for a part left out.
Statements ==
  [form : {"import"}, of : Modules, item : {""}, as : Names \cup {""}]
  \cup [form : {"from"}, of : Modules, item : Items \cup {"*"}, as : Names \cup {""}]
  \cup [form : {"call"}, of : Names \cup {""}, item : Names, as : {""}]
  \cup [form : {"bind"}, of : Names \cup {""}, item : Names, as : Names]
  \cup [form : {"dynamic"}, of : Modules, item : {""}, as : {""}]

\* What a name can stand for: nothing, a module, an item of a module.
Module(m) == [kind |-> "module", module |-> m, item |-> ""]
Member(m, a) == [kind |-> "member", module |-> m, item |-> a]
Nothing == [kind |-> "nothing", module |-> "", item |-> ""]

Objects ==
  [kind : {"nothing", "module", "member"}, module : Modules \cup {""},
   item : Names \cup {""}]

\* The library's files that network isolation protects.
LibraryFiles == {"envelope.py", "canonical.py", "identity.py", "schemes.py", "sensitive.py"}

\* The modules of the sibling repository that it protects.
PhotophoreModules == {"classifier", "shadow", "policy", "audit", "channels", "core.py"}

LooksLike(words) == UNION {Starting[w] : w \in words}

ASSUME WordsAssumption ==
  /\ \A w \in {"photophore", "thermocline", ".egg-info"} :
       {w} \subseteq Ending[w] /\ Ending[w] \subseteq STRING
  /\ \A w \in LibraryFiles \cup PhotophoreModules \cup {"dispatch_cmds.py", "channel_cmds.py"} :
       {w} \subseteq Starting[w] /\ Starting[w] \subseteq STRING

\* The checkout may have any name and be anywhere; no file and no directory at its
\* top is called like a protected file of the library.
ASSUME FilesAssumption ==
  \A f \in Files :
    /\ f[1] \in Seq(STRING) /\ f[2] \in Seq(STRING)
    /\ f[2] # <<>> /\ f[2][1] \notin LooksLike(LibraryFiles)

ASSUME LintAssumption ==
  /\ Modules \subseteq Names /\ Items \subseteq Names
  /\ "print" \in Names /\ "" \notin Names /\ "*" \notin Names
  /\ Top \in [Modules -> Modules] /\ \A m \in Modules : Top[Top[m]] = Top[m]
  /\ "builtins" \in Modules /\ Top["builtins"] = "builtins"
  /\ Programs \subseteq SUBSET Statements

VARIABLES
  location, path, program,  \* the file
  env,                      \* its names
  used                      \* the functions called and the modules imported

file == <<location, path, program>>
lints == <<file, env, used>>

-----------------------------------------------------------------------------
(* The program runs.                                                       *)

Statement(s, form) == s \in program /\ s.form = form

Bound(s, default) == IF s.as = "" THEN default ELSE s.as

\* import m binds the package, import m as n the module.
Import(s) ==
  /\ Statement(s, "import")
  /\ env' = [env EXCEPT ![Bound(s, Top[s.of])] =
               Module(IF s.as = "" THEN Top[s.of] ELSE s.of)]
  /\ used' = used \cup {Module(s.of)}
  /\ UNCHANGED file

From(s) ==
  /\ Statement(s, "from")
  /\ env' = IF s.item = "*"
            THEN [n \in Names |-> IF n \in Items THEN Member(s.of, n) ELSE env[n]]
            ELSE [env EXCEPT ![Bound(s, s.item)] = Member(s.of, s.item)]
  /\ used' = used \cup {Module(s.of)}
  /\ UNCHANGED file

\* What of.item, or item alone, is at the moment.
Value(s) ==
  IF s.of = "" THEN env[s.item]
  ELSE IF env[s.of].kind = "module" THEN Member(env[s.of].module, s.item) ELSE Nothing

Call(s) ==
  /\ Statement(s, "call")
  /\ used' = used \cup {Value(s)}
  /\ UNCHANGED <<file, env>>

Bind(s) ==
  /\ Statement(s, "bind")
  /\ env' = [env EXCEPT ![s.as] = Value(s)]
  /\ UNCHANGED <<file, used>>

Dynamic(s) ==
  /\ Statement(s, "dynamic")
  /\ used' = used \cup {Module(s.of)}
  /\ UNCHANGED <<file, env>>

Init ==
  /\ \E f \in Files : location = f[1] /\ path = f[2]
  /\ program \in Programs
  /\ env = [n \in Names |-> IF n = "print" THEN Member("builtins", "print") ELSE Nothing]
  /\ used = {}

Next == \E s \in program : Import(s) \/ From(s) \/ Call(s) \/ Bind(s) \/ Dynamic(s)

Spec == Init /\ [][Next]_lints

-----------------------------------------------------------------------------
(* check_no_json_dumps.py: which statements are reported.                  *)

\* Mutant: only the module under its own name.
NoAliases(p) == {}

\* json_module_aliases and json_func_names of _import_findings.
Aliases(p) == {s.as : s \in {t \in p : t.form = "import" /\ t.of = "json"}} \ {"", "json"}

\* Mutant: the name behind "as" is not followed.
FunctionNamesUnrenamed(p) ==
  {s.item : s \in {t \in p : t.form = "from" /\ t.of = "json" /\ t.item \in Dumpers}}

FunctionNames(p) ==
  {Bound(s, s.item) : s \in {t \in p : t.form = "from" /\ t.of = "json" /\ t.item \in Dumpers}}

\* Mutant: "from package import" is overlooked.
ImportsPlain(p, packages) == {s \in p : s.form = "import" /\ Top[s.of] \in packages}

\* Mutant: a module inside a forbidden package is overlooked.
ImportsExact(p, packages) ==
  {s \in p : s.form \in {"import", "from"} /\ s.of \in packages}

Imports(p, packages) ==
  {s \in p : s.form \in {"import", "from"} /\ Top[s.of] \in packages}

JsonFindings(p) ==
  Imports(p, Encoders)
  \cup {s \in p : s.form = "call" /\ s.item \in Dumpers /\ s.of \in {"json"} \cup Aliases(p)}
  \cup {s \in p : s.form = "call" /\ s.of = "" /\ s.item \in FunctionNames(p)}

-----------------------------------------------------------------------------
(* Which files each lint looks at.  A path fragment such as                *)
(* "/src/photophore/" is a run of directories, wherever in the path it is; *)
(* one without the outer slashes, such as "photophore/audit", also matches *)
(* a first directory that only ends, and a last one that only starts so.   *)

HasRun(p, run) ==
  \E n \in 1 .. Len(p) - Len(run) + 1 : SubSeq(p, n, n + Len(run) - 1) = run
HasDirectories(p, dirs) == HasRun(SubSeq(p, 1, Len(p) - 1), dirs)
EndsWith(p, run) == Len(run) <= Len(p) /\ SubSeq(p, Len(p) - Len(run) + 1, Len(p)) = run

\* scan of check_no_json_dumps.py: paths relative to the package.
Package == <<"thermocline", "python", "src", "thermocline">>
InPackage(p) == SubSeq(p, Len(Package) + 1, Len(p))

JsonScanned(p) ==
  /\ HasDirectories(p, Package) /\ SubSeq(p, 1, Len(Package)) = Package
  /\ InPackage(p) \notin {<<"scripts", "build_schemas.py">>,
                          <<"scripts", "check_no_json_dumps.py">>}
  /\ ~\E d \in {".hidden", "__pycache__"} : HasRun(InPackage(p), <<d>>)

\* ast_lint_no_print.py, on absolute paths.
Skipped == {".venv", "venv", "site-packages", ".tox", "build", "dist", ".eggs",
            "__pycache__", ".git", "node_modules"} \cup Ending[".egg-info"]
ForgeEntries ==
  {<<"pi-forge", "server.py">>, <<"pi-forge", "pi_forge", "__main__.py">>,
   <<"describe-forge", "server.py">>, <<"describe-forge", "describe_forge", "__main__.py">>}

PrintAllowed(p) ==
  \/ \E d \in {<<"src", "thermocline", "scripts">>, <<"src", "photophore", "cli">>,
               <<"tests">>, <<"examples">>} : HasDirectories(p, d)
  \/ \E f \in ForgeEntries : EndsWith(p, f)

\* Mutant: a directory named thermocline is taken for the library.
PrintProtectedAnywhere(p) ==
  \E d \in {<<"thermocline">>, <<"src", "photophore">>, <<"pi-forge">>, <<"describe-forge">>} :
    HasDirectories(p, d)

PrintProtected(p) ==
  \E d \in {<<"src", "thermocline">>, <<"src", "photophore">>,
            <<"pi-forge">>, <<"describe-forge">>} : HasDirectories(p, d)

PrintChecked(p) ==
  ~(\E d \in Skipped : HasDirectories(p, <<d>>)) /\ ~PrintAllowed(p) /\ PrintProtected(p)

PrintFindings(p) == {s \in p : s.form = "call" /\ s.of = "" /\ s.item = "print"}

\* A substring with slashes only inside it, as the sets its segments may come from.
HasFragment(p, names) ==
  \E n \in 0 .. Len(p) - Len(names) : \A i \in 1 .. Len(names) : p[n + i] \in names[i]

\* ast_lint_network_isolation.py: the allowlist goes before the protected modules.
\* (A file is never the last segment of "photophore/dispatch/".)
Dispatchers ==
  {<<Ending["photophore"], {"dispatch"}>>}
  \cup {<<Ending["photophore"], {"cli"}, Starting[f]>> : f \in {"dispatch_cmds.py", "channel_cmds.py"}}

Isolated ==
  {<<Ending["photophore"], Starting[m]>> : m \in PhotophoreModules}
  \cup {<<Ending["thermocline"], Starting[m]>> : m \in LibraryFiles}

NetworkChecked(p) ==
  /\ ~\E f \in Dispatchers : HasFragment(p, f)
  /\ \E f \in Isolated : HasFragment(p, f)

\* The file as the print lint sees it, which resolves its arguments, and as the
\* network lint may: its arguments stay relative to where it is run.
Absolute == location \o path

Given == {SubSeq(Absolute, n, Len(Absolute)) : n \in 1 .. Len(Absolute)}

-----------------------------------------------------------------------------
TypeOK ==
  /\ \E f \in Files : location = f[1] /\ path = f[2]
  /\ program \subseteq Statements
  /\ env \in [Names -> Objects]
  /\ used \subseteq Objects

\* What no lint follows: a function under a second name by assignment, what a
\* star brings in, a module imported by its name at run time.
Direct(p) == \A s \in p : s.form \notin {"bind", "dynamic"} /\ s.item # "*"

Dumps(o) == o.kind = "member" /\ o.module = "json" /\ o.item \in Dumpers
Foreign(o, packages) == o.kind = "module" /\ Top[o.module] \in packages

\* A library file that passes the lint, whatever it imports under whatever name
\* and in whatever order its functions run, calls neither json.dumps nor
\* json.dump and imports no other encoder: none of the ways around canonicalize
\* that the lint is about stays open (check_no_json_dumps.py 76-121, ADR-0003).
\* Direct says what it does not follow; attributes of attributes and getattr, as in
\* json.JSONEncoder().encode, are not statements of this module at all.
JsonLintComplete ==
  JsonScanned(path) /\ Direct(program) /\ JsonFindings(program) = {} =>
    \A o \in used : ~Dumps(o) /\ ~Foreign(o, Encoders)

\* Behind it: every name that stands for the module or for one of the functions is
\* among the names the lint looks for, in any order of the statements.
BindingsFollowed ==
  Direct(program) /\ JsonFindings(program) = {} =>
    \A n \in Names :
      /\ env[n].kind = "module" /\ env[n].module = "json" => n \in {"json"} \cup Aliases(program)
      /\ Dumps(env[n]) => n \in FunctionNames(program)
      /\ ~Foreign(env[n], Encoders)

LintInv == TypeOK /\ BindingsFollowed /\ JsonLintComplete

\* A protected module that passes imports no network client, however the lint was
\* given its path, and a library file that passes prints nothing through the
\* builtin's own name.
IsolationHolds ==
  /\ \A p \in Given : NetworkChecked(p) /\ Direct(program) /\ Imports(program, Network) = {} =>
       \A o \in used : ~Foreign(o, Network)
  /\ PrintChecked(Absolute) /\ Direct(program) /\ PrintFindings(program) = {}
       /\ Imports(program, {"builtins"}) = {} =>
       Member("builtins", "print") \notin used

\* Behind it: a file that imports nothing from some packages has no name for their
\* modules, and print is only known by its own name.
NamesIsolated ==
  Direct(program) =>
    /\ \A packages \in {Network, {"builtins"}} : Imports(program, packages) = {} =>
         \A n \in Names : ~Foreign(env[n], packages)
    /\ Imports(program, {"builtins"}) = {} =>
         \A n \in Names : env[n] = Member("builtins", "print") => n = "print"

IsolationInv == TypeOK /\ NamesIsolated /\ IsolationHolds

\* The two lints judge a file by its place in the repository, whether they are
\* given its absolute path or, like the network lint in ci.yml 33, one that starts at
\* the checkout or above it: if no directory above the checkout, itself included,
\* has a name they look for.  (Run below the package directory, the network lint
\* protects nothing: "envelope.py" is not "thermocline/envelope.py".)
Plain(l) ==
  \A n \in 1 .. Len(l) :
    l[n] \notin Skipped \cup {"src", "tests", "examples", "pi-forge", "describe-forge"}
            \cup Ending["photophore"] \cup LooksLike(LibraryFiles)

FromAbove == {SubSeq(location, n, Len(location)) \o path : n \in 1 .. Len(location) + 1}

VerdictsTravel ==
  Plain(location) =>
    /\ PrintChecked(Absolute) <=> PrintChecked(path)
    /\ \A p \in FromAbove : NetworkChecked(p) <=> NetworkChecked(path)
=============================================================================
