------------------------- MODULE SourceLintsProofs -------------------------
(***************************************************************************)
(* The lints are complete for every set of names, modules and statements,  *)
(* as long as no statement is of the kinds Direct excludes; and the two    *)
(* that look at whole paths judge a file by its place in the repository.   *)
(***************************************************************************)
EXTENDS SourceLints, SequenceTheorems, TLAPS

\* What the lint's silence says of a single statement.
LEMMA SilentStatements ==
  ASSUME NEW p \in SUBSET Statements, JsonFindings(p) = {}, NEW s \in p
  PROVE  /\ s.form \in {"import", "from"} => Top[s.of] \notin Encoders
         /\ s.form = "call" /\ s.item \in Dumpers => s.of \notin {"json"} \cup Aliases(p)
         /\ s.form = "call" /\ s.of = "" => s.item \notin FunctionNames(p)
  BY DEF JsonFindings, Imports

LEMMA TypeInitially == ASSUME Init PROVE TypeOK
<1>1. \A n \in Names : (IF n = "print" THEN Member("builtins", "print") ELSE Nothing) \in Objects
  BY LintAssumption DEF Member, Nothing, Objects
<1>2. \E f \in Files : location = f[1] /\ path = f[2]
  BY DEF Init
<1>3. program \subseteq Statements /\ used = {}
  BY LintAssumption DEF Init
<1>4. env \in [Names -> Objects]
  BY <1>1 DEF Init
<1> QED
  BY <1>2, <1>3, <1>4 DEF TypeOK

\* A statement's parts, by its form.
LEMMA StatementParts ==
  ASSUME TypeOK, NEW s \in program
  PROVE  /\ program \in SUBSET Statements /\ s \in Statements
         /\ s.form \in {"import", "from", "dynamic"} => s.of \in Modules
         /\ s.form = "import" => s.as \in Names \cup {""}
         /\ s.form = "from" => s.item \in Items \cup {"*"} /\ s.as \in Names \cup {""}
         /\ s.form \in {"call", "bind"} => s.of \in Names \cup {""} /\ s.item \in Names
         /\ s.form = "bind" => s.as \in Names
<1>1. program \in SUBSET Statements
  BY DEF TypeOK
<1>2. s \in Statements
  BY <1>1
<1> QED
  BY <1>1, <1>2 DEF Statements

\* What an expression stands for is an object.
LEMMA ValueTyped ==
  ASSUME TypeOK, NEW s \in program, s.form \in {"call", "bind"}
  PROVE  Value(s) \in Objects
<1>1. s.of \in Names \cup {""} /\ s.item \in Names /\ env \in [Names -> Objects]
  BY StatementParts DEF TypeOK
<1>2. CASE s.of = ""
  BY <1>1, <1>2 DEF Value
<1>3. CASE s.of # ""
  <2>1. env[s.of] \in Objects
    BY <1>1, <1>3
  <2>2. Member(env[s.of].module, s.item) \in Objects /\ Nothing \in Objects
    BY <1>1, <2>1 DEF Objects, Member, Nothing
  <2> QED
    BY <1>3, <2>2 DEF Value
<1> QED
  BY <1>2, <1>3

LEMMA TypeStep == ASSUME TypeOK, Next PROVE TypeOK'
<1> USE LintAssumption
<1>1. PICK s \in program : Import(s) \/ From(s) \/ Call(s) \/ Bind(s) \/ Dynamic(s)
  BY DEF Next
<1>2. UNCHANGED file
  BY <1>1 DEF Import, From, Call, Bind, Dynamic
<1>3. \A m \in Modules : Module(m) \in Objects
  BY DEF Module, Objects
<1>4. \A m \in Modules, a \in Names : Member(m, a) \in Objects
  BY DEF Member, Objects
<1>5. env' \in [Names -> Objects] /\ used' \subseteq Objects
  <2>1. CASE Import(s)
    <3>1. s.of \in Modules /\ s.as \in Names \cup {""} /\ Top[s.of] \in Modules
      BY <2>1, StatementParts DEF Import, Statement
    <3>2. Bound(s, Top[s.of]) \in Names
      BY <3>1 DEF Bound
    <3> QED
      BY <1>3, <2>1, <3>1, <3>2 DEF Import, TypeOK
  <2>2. CASE From(s)
    <3>1. s.of \in Modules /\ s.item \in Items \cup {"*"} /\ s.as \in Names \cup {""}
      BY <2>2, StatementParts DEF From, Statement
    <3>2. CASE s.item = "*"
      BY <1>3, <1>4, <2>2, <3>1, <3>2 DEF From, TypeOK
    <3>3. CASE s.item # "*"
      <4>1. Bound(s, s.item) \in Names /\ s.item \in Names
        BY <3>1, <3>3 DEF Bound
      <4> QED
        BY <1>3, <1>4, <2>2, <3>1, <3>3, <4>1 DEF From, TypeOK
    <3> QED
      BY <3>2, <3>3
  <2>3. CASE Call(s)
    BY <2>3, ValueTyped DEF Call, Statement, TypeOK
  <2>4. CASE Bind(s)
    <3>1. Value(s) \in Objects
      BY <2>4, ValueTyped DEF Bind, Statement
    <3>2. s.as \in Names
      BY <2>4, StatementParts DEF Bind, Statement
    <3> QED
      BY <2>4, <3>1, <3>2 DEF Bind, TypeOK
  <2>5. CASE Dynamic(s)
    <3>1. s.of \in Modules
      BY <2>5, StatementParts DEF Dynamic, Statement
    <3> QED
      BY <1>3, <2>5, <3>1 DEF Dynamic, TypeOK
  <2> QED
    BY <1>1, <2>1, <2>2, <2>3, <2>4, <2>5
<1> QED
  BY <1>2, <1>5 DEF TypeOK, file

-----------------------------------------------------------------------------
\* One name is bound to one object.
Followed(n, o) ==
  /\ o.kind = "module" /\ o.module = "json" => n \in {"json"} \cup Aliases(program)
  /\ Dumps(o) => n \in FunctionNames(program)
  /\ ~Foreign(o, Encoders)

Silent == Direct(program) /\ JsonFindings(program) = {}

LEMMA ImportFollowed ==
  ASSUME TypeOK, Silent, NEW s \in program, s.form = "import"
  PROVE  /\ Followed(Bound(s, Top[s.of]), Module(IF s.as = "" THEN Top[s.of] ELSE s.of))
         /\ ~Foreign(Module(s.of), Encoders)
<1> USE LintAssumption
<1>1. s.of \in Modules /\ s.as \in Names \cup {""} /\ Top[Top[s.of]] = Top[s.of]
  BY StatementParts
<1>2. Top[s.of] \notin Encoders
  BY StatementParts, SilentStatements DEF Silent
<1>3. s.of = "json" /\ s.as \notin {"", "json"} => s.as \in Aliases(program)
  BY DEF Aliases
<1> QED
  BY <1>1, <1>2, <1>3 DEF Followed, Foreign, Dumps, Module, Bound

LEMMA FromFollowed ==
  ASSUME TypeOK, Silent, NEW s \in program, s.form = "from"
  PROVE  /\ Followed(Bound(s, s.item), Member(s.of, s.item))
         /\ ~Foreign(Module(s.of), Encoders)
<1>1. Top[s.of] \notin Encoders
  BY StatementParts, SilentStatements DEF Silent
<1>2. s.of = "json" /\ s.item \in Dumpers => Bound(s, s.item) \in FunctionNames(program)
  BY DEF FunctionNames
<1> QED
  BY <1>1, <1>2 DEF Followed, Foreign, Dumps, Module, Member

\* A call that is not reported is harmless.
LEMMA CallFollowed ==
  ASSUME TypeOK, Silent, BindingsFollowed, NEW s \in program, s.form = "call"
  PROVE  ~Dumps(Value(s)) /\ ~Foreign(Value(s), Encoders)
<1>1. s.of \in Names \cup {""} /\ s.item \in Names
  BY StatementParts
<1>2. s.item \in Dumpers => s.of \notin {"json"} \cup Aliases(program)
  BY StatementParts, SilentStatements DEF Silent
<1>3. s.of = "" => s.item \notin FunctionNames(program)
  BY StatementParts, SilentStatements DEF Silent
<1>4. CASE s.of = ""
  BY <1>1, <1>3, <1>4 DEF Value, BindingsFollowed, Silent
<1>5. CASE s.of # ""
  BY <1>1, <1>2, <1>5 DEF Value, BindingsFollowed, Silent, Dumps, Foreign, Member, Nothing
<1> QED
  BY <1>4, <1>5

\* A name that is not rebound keeps what was followed.
LEMMA BindingsKept ==
  ASSUME TypeOK, BindingsFollowed, Silent, UNCHANGED file,
         NEW changed \in SUBSET Names,
         \A n \in changed : Followed(n, env'[n]),
         \A n \in Names \ changed : env'[n] = env[n]
  PROVE  BindingsFollowed'
<1>1. \A n \in Names \ changed : Followed(n, env'[n])
  BY DEF BindingsFollowed, Followed, Silent
<1>2. \A n \in Names : Followed(n, env'[n])
  BY <1>1
<1> QED
  BY <1>2 DEF BindingsFollowed, Followed, file

LEMMA BindingsStep ==
  ASSUME TypeOK, BindingsFollowed, Silent, UNCHANGED file, NEW s \in program,
         Import(s) \/ From(s) \/ Call(s)
  PROVE  BindingsFollowed'
<1>1. CASE Import(s)
  <2> DEFINE n == Bound(s, Top[s.of])
             o == Module(IF s.as = "" THEN Top[s.of] ELSE s.of)
  <2>1. s.form = "import" /\ env' = [env EXCEPT ![n] = o]
    BY <1>1 DEF Import, Statement
  <2>2. Followed(n, o)
    BY <2>1, ImportFollowed
  <2>3. s.as \in Names \cup {""} /\ Top[s.of] \in Names
    BY <2>1, StatementParts, LintAssumption
  <2>4. n \in Names
    BY <2>3 DEF Bound
  <2>5. env'[n] = o /\ \A x \in Names \ {n} : env'[x] = env[x]
    BY <2>1, <2>4 DEF TypeOK
  <2>7. UNCHANGED file
    OBVIOUS
  <2> HIDE DEF n, o
  <2>8. {n} \in SUBSET Names
    BY <2>4
  <2>9. \A x \in {n} : Followed(x, env'[x])
    BY <2>2, <2>5
  <2> QED
    BY <2>8, <2>9, <2>5, BindingsKept
<1>2. CASE From(s)
  <2> DEFINE n == Bound(s, s.item)
             o == Member(s.of, s.item)
  <2>1. s.form = "from" /\ s.item # "*"
    BY <1>2 DEF From, Statement, Silent, Direct
  <2>2. env' = [env EXCEPT ![n] = o]
    BY <1>2, <2>1 DEF From
  <2>3. Followed(n, o)
    BY <2>1, FromFollowed
  <2>4. s.as \in Names \cup {""} /\ s.item \in Names
    BY <2>1, StatementParts, LintAssumption
  <2>5. n \in Names
    BY <2>4 DEF Bound
  <2>6. env'[n] = o /\ \A x \in Names \ {n} : env'[x] = env[x]
    BY <2>2, <2>5 DEF TypeOK
  <2>7. UNCHANGED file
    OBVIOUS
  <2> HIDE DEF n, o
  <2>8. {n} \in SUBSET Names
    BY <2>5
  <2>9. \A x \in {n} : Followed(x, env'[x])
    BY <2>3, <2>6
  <2> QED
    BY <2>8, <2>9, <2>6, BindingsKept
<1>3. CASE Call(s)
  BY <1>3 DEF Call, BindingsFollowed, file
<1> QED
  BY <1>1, <1>2, <1>3

\* What the step adds to the objects used is none the lint is there for.
LEMMA UsedStep ==
  ASSUME TypeOK, BindingsFollowed, Silent, NEW s \in program,
         Import(s) \/ From(s) \/ Call(s)
  PROVE  \A o \in used' \ used : ~Dumps(o) /\ ~Foreign(o, Encoders)
<1>0. ~Dumps(Module(s.of))
  BY DEF Dumps, Module
<1>1. CASE Import(s)
  <2>1. s.form = "import" /\ used' = used \cup {Module(s.of)}
    BY <1>1 DEF Import, Statement
  <2> QED
    BY <1>0, <2>1, ImportFollowed
<1>2. CASE From(s)
  <2>1. s.form = "from" /\ used' = used \cup {Module(s.of)}
    BY <1>2 DEF From, Statement
  <2> QED
    BY <1>0, <2>1, FromFollowed
<1>3. CASE Call(s)
  BY <1>3, CallFollowed DEF Call, Statement
<1> QED
  BY <1>1, <1>2, <1>3

LEMMA LintStep == ASSUME LintInv, Next PROVE LintInv'
<1>1. TypeOK'
  BY TypeStep DEF LintInv
<1>2. PICK s \in program : Import(s) \/ From(s) \/ Call(s) \/ Bind(s) \/ Dynamic(s)
  BY DEF Next
<1>3. UNCHANGED file
  BY <1>2 DEF Import, From, Call, Bind, Dynamic
<1>4. CASE ~Silent
  BY <1>1, <1>3, <1>4 DEF LintInv, BindingsFollowed, JsonLintComplete, Silent, file
<1>5. CASE Silent
  <2>1. Import(s) \/ From(s) \/ Call(s)
    BY <1>2, <1>5 DEF Silent, Direct, Bind, Dynamic, Statement
  <2>2. BindingsFollowed'
    BY <1>3, <1>5, <2>1, BindingsStep DEF LintInv
  <2>3. \A o \in used' \ used : ~Dumps(o) /\ ~Foreign(o, Encoders)
    BY <1>5, <2>1, UsedStep DEF LintInv
  <2>4. JsonLintComplete'
    BY <1>3, <1>5, <2>3 DEF LintInv, JsonLintComplete, Silent, file
  <2> QED
    BY <1>1, <2>2, <2>4 DEF LintInv
<1> QED
  BY <1>4, <1>5

LEMMA LintInitially == ASSUME Init PROVE LintInv
<1>1. TypeOK
  BY TypeInitially
<1>2. JsonLintComplete
  BY DEF Init, JsonLintComplete
<1>3. BindingsFollowed
  BY LintAssumption DEF Init, BindingsFollowed, Member, Nothing, Dumps, Foreign, Direct
<1> QED
  BY <1>1, <1>2, <1>3 DEF LintInv

LEMMA LintUnchanged == ASSUME LintInv, UNCHANGED lints PROVE LintInv'
BY DEF LintInv, TypeOK, BindingsFollowed, JsonLintComplete, lints, file

\* A library file without findings calls neither json.dumps nor json.dump and
\* imports no other encoder, in any order of its statements: scan and
\* _import_findings follow every name the file binds them to.
THEOREM JsonLintIsComplete == Spec => []JsonLintComplete
<1>1. Init => LintInv
  BY LintInitially
<1>2. LintInv /\ [Next]_lints => LintInv'
  BY LintStep, LintUnchanged
<1>3. LintInv => JsonLintComplete
  BY DEF LintInv
<1> QED
  BY <1>1, <1>2, <1>3, PTL DEF Spec

\* The names that stand for json or for its functions are among those the lint
\* looks for, and every statement leaves the types as they were.
THEOREM LintInvariant == Spec => []LintInv
<1>1. Init => LintInv
  BY LintInitially
<1>2. LintInv /\ [Next]_lints => LintInv'
  BY LintStep, LintUnchanged
<1> QED
  BY <1>1, <1>2, PTL DEF Spec

-----------------------------------------------------------------------------
(* The lints against network clients and against print.                    *)

\* A file that is silent for a set of packages never holds one of their modules.
Abstains(packages) == Direct(program) /\ Imports(program, packages) = {}

IsolatedFrom(packages) == \A n \in Names : ~Foreign(env[n], packages)

LEMMA ImportIsolated ==
  ASSUME TypeOK, NEW packages, Abstains(packages), NEW s \in program,
         s.form \in {"import", "from"}
  PROVE  /\ s.of \in Modules /\ Top[s.of] \notin packages
         /\ Top[Top[s.of]] \notin packages
BY StatementParts, LintAssumption DEF Abstains, Imports

LEMMA IsolatedStep ==
  ASSUME TypeOK, NEW packages, Abstains(packages), IsolatedFrom(packages), NEW s \in program,
         Import(s) \/ From(s) \/ Call(s)
  PROVE  /\ IsolatedFrom(packages)'
         /\ \A o \in used' \ used : ~Foreign(o, packages)
<1>1. CASE Import(s)
  <2>1. s.form = "import"
    BY <1>1 DEF Import, Statement
  <2>2. Top[s.of] \notin packages /\ Top[Top[s.of]] \notin packages
    BY <2>1, ImportIsolated
  <2>3. ~Foreign(Module(s.of), packages) /\ ~Foreign(Module(Top[s.of]), packages)
    BY <2>2 DEF Foreign, Module
  <2>4. used' = used \cup {Module(s.of)}
    BY <1>1 DEF Import
  <2>5. \A n \in Names : env'[n] \in {env[n], Module(s.of), Module(Top[s.of])}
    BY <1>1 DEF Import, TypeOK
  <2> QED BY <2>3, <2>4, <2>5 DEF IsolatedFrom
<1>2. CASE From(s)
  <2>1. s.form = "from" /\ s.item # "*"
    BY <1>2 DEF From, Statement, Abstains, Direct
  <2>2. Top[s.of] \notin packages
    BY <2>1, ImportIsolated
  <2>3. ~Foreign(Module(s.of), packages) /\ ~Foreign(Member(s.of, s.item), packages)
    BY <2>2 DEF Foreign, Module, Member
  <2>4. used' = used \cup {Module(s.of)}
    BY <1>2 DEF From
  <2>5. \A n \in Names : env'[n] \in {env[n], Member(s.of, s.item)}
    BY <1>2, <2>1 DEF From, TypeOK
  <2> QED BY <2>3, <2>4, <2>5 DEF IsolatedFrom
<1>3. CASE Call(s)
  <2>1. s.of \in Names \cup {""} /\ s.item \in Names
    BY <1>3, StatementParts DEF Call, Statement
  <2>2. ~Foreign(Value(s), packages)
    BY <2>1 DEF Value, IsolatedFrom, Foreign, Member, Nothing
  <2> QED BY <1>3, <2>2 DEF Call, IsolatedFrom
<1> QED BY <1>1, <1>2, <1>3

\* Without an import from builtins, print keeps its one name.
PrintByName == \A n \in Names : env[n] = Member("builtins", "print") => n = "print"

LEMMA PrintStep ==
  ASSUME TypeOK, Abstains({"builtins"}), IsolatedFrom({"builtins"}), PrintByName,
         NEW s \in program, Import(s) \/ From(s) \/ Call(s)
  PROVE  /\ PrintByName'
         /\ PrintFindings(program) = {} => Member("builtins", "print") \notin used' \ used
<1> DEFINE print == Member("builtins", "print")
<1>1. CASE Import(s)
  <2>1. \A m : Module(m) # print
    BY DEF Module, Member
  <2>2. \A n \in Names : env'[n] \in {env[n], Module(s.of), Module(Top[s.of])}
    BY <1>1 DEF Import, TypeOK
  <2>3. used' = used \cup {Module(s.of)}
    BY <1>1 DEF Import
  <2> QED BY <2>1, <2>2, <2>3 DEF PrintByName
<1>2. CASE From(s)
  <2>1. s.form = "from" /\ s.item # "*"
    BY <1>2 DEF From, Statement, Abstains, Direct
  <2>2. s.of \in Modules /\ Top[s.of] # "builtins"
    BY <2>1, ImportIsolated
  <2>3. s.of # "builtins"
    BY <2>2, LintAssumption
  <2>4. Member(s.of, s.item) # print /\ Module(s.of) # print
    BY <2>3 DEF Module, Member
  <2>5. \A n \in Names : env'[n] \in {env[n], Member(s.of, s.item)}
    BY <1>2, <2>1 DEF From, TypeOK
  <2>6. used' = used \cup {Module(s.of)}
    BY <1>2 DEF From
  <2> QED BY <2>4, <2>5, <2>6 DEF PrintByName
<1>3. CASE Call(s)
  <2>1. s.form = "call" /\ s.of \in Names \cup {""} /\ s.item \in Names
    BY <1>3, StatementParts DEF Call, Statement
  <2>2. ASSUME PrintFindings(program) = {}, s.of = "" PROVE Value(s) # print
    <3>1. s.item # "print"
      BY <2>1, <2>2 DEF PrintFindings
    <3> QED BY <2>1, <2>2, <3>1 DEF Value, PrintByName
  <2>3. ASSUME s.of # "" PROVE Value(s) # print
    <3>1. CASE env[s.of].kind = "module"
      <4>1. env[s.of].module # "builtins"
        <5>1. env[s.of].module \in Modules \cup {""}
          BY <2>1, <2>3 DEF TypeOK, Objects
        <5>2. ~Foreign(env[s.of], {"builtins"})
          BY <2>1, <2>3 DEF IsolatedFrom
        <5> QED BY <3>1, <5>1, <5>2, LintAssumption DEF Foreign
      <4> QED BY <2>3, <3>1, <4>1 DEF Value, Member
    <3>2. CASE env[s.of].kind # "module"
      BY <2>3, <3>2 DEF Value, Nothing, Member
    <3> QED BY <3>1, <3>2
  <2> QED BY <1>3, <2>2, <2>3 DEF Call, PrintByName
<1> QED BY <1>1, <1>2, <1>3

LEMMA IsolationStep == ASSUME IsolationInv, Next PROVE IsolationInv'
<1>1. TypeOK'
  BY TypeStep DEF IsolationInv
<1>2. PICK s \in program : Import(s) \/ From(s) \/ Call(s) \/ Bind(s) \/ Dynamic(s)
  BY DEF Next
<1>3. UNCHANGED file
  BY <1>2 DEF Import, From, Call, Bind, Dynamic
<1>4. CASE ~Direct(program)
  BY <1>1, <1>3, <1>4 DEF IsolationInv, NamesIsolated, IsolationHolds, file
<1>5. CASE Direct(program)
  <2>1. Import(s) \/ From(s) \/ Call(s)
    BY <1>2, <1>5 DEF Direct, Bind, Dynamic, Statement
  <2>2. ASSUME NEW packages \in {Network, {"builtins"}}, Imports(program, packages) = {}
        PROVE  IsolatedFrom(packages)' /\ \A o \in used' \ used : ~Foreign(o, packages)
    <3>1. IsolatedFrom(packages) /\ Abstains(packages)
      BY <1>5, <2>2 DEF IsolationInv, NamesIsolated, IsolatedFrom, Abstains
    <3> QED BY <2>1, <3>1, IsolatedStep DEF IsolationInv
  <2>3. ASSUME Imports(program, {"builtins"}) = {}
        PROVE  /\ PrintByName'
               /\ PrintFindings(program) = {} => Member("builtins", "print") \notin used' \ used
    <3>1. IsolatedFrom({"builtins"}) /\ Abstains({"builtins"}) /\ PrintByName
      BY <1>5, <2>3 DEF IsolationInv, NamesIsolated, IsolatedFrom, Abstains, PrintByName
    <3> QED BY <2>1, <3>1, PrintStep DEF IsolationInv
  <2>4. NamesIsolated'
    BY <1>3, <2>2, <2>3 DEF NamesIsolated, IsolatedFrom, PrintByName, file
  <2>5. IsolationHolds'
    <3>1. program' = program /\ path' = path /\ location' = location
      BY <1>3 DEF file
    <3>2. Absolute' = Absolute /\ Given' = Given
      BY <3>1 DEF Absolute, Given
    <3>3. \A p \in Given : NetworkChecked(p) /\ Imports(program, Network) = {} =>
            \A o \in used' : ~Foreign(o, Network)
      BY <1>5, <2>2 DEF IsolationInv, IsolationHolds
    <3>4. PrintChecked(Absolute) /\ PrintFindings(program) = {}
            /\ Imports(program, {"builtins"}) = {} => Member("builtins", "print") \notin used'
      BY <1>5, <2>3 DEF IsolationInv, IsolationHolds
    <3> QED BY <3>1, <3>2, <3>3, <3>4 DEF IsolationHolds
  <2> QED BY <1>1, <2>4, <2>5 DEF IsolationInv
<1> QED BY <1>4, <1>5

LEMMA IsolationInitially == ASSUME Init PROVE IsolationInv
<1>1. TypeOK /\ used = {}
  BY TypeInitially DEF Init
<1>2. \A n \in Names : /\ env[n].kind # "module"
                       /\ env[n] = Member("builtins", "print") => n = "print"
  BY DEF Init, Member, Nothing
<1> QED BY <1>1, <1>2 DEF IsolationInv, NamesIsolated, IsolationHolds, Foreign

LEMMA IsolationUnchanged == ASSUME IsolationInv, UNCHANGED lints PROVE IsolationInv'
<1>1. location' = location /\ path' = path /\ program' = program /\ env' = env /\ used' = used
  BY DEF lints, file
<1>2. Absolute' = Absolute /\ Given' = Given
  BY <1>1 DEF Absolute, Given
<1> QED BY <1>1, <1>2 DEF IsolationInv, TypeOK, NamesIsolated, IsolationHolds

\* NamesIsolated holds: a file that imports nothing from some packages never has a
\* name for their modules, nor a second one for print.
THEOREM NamesStayIsolated == Spec => []NamesIsolated
<1>1. IsolationInv /\ [Next]_lints => IsolationInv'
  BY IsolationStep, IsolationUnchanged
<1>2. IsolationInv => NamesIsolated
  BY DEF IsolationInv
<1> QED
  BY <1>1, <1>2, IsolationInitially, PTL DEF Spec

\* A protected module that passes the lint imports no network client under any name,
\* and a library file that passes never calls print by the builtin's own name, in any
\* order of its statements (ast_lint_network_isolation.py, ast_lint_no_print.py).
THEOREM LintsIsolate == Spec => []IsolationHolds
<1>1. IsolationInv /\ [Next]_lints => IsolationInv'
  BY IsolationStep, IsolationUnchanged
<1>2. IsolationInv => IsolationHolds
  BY DEF IsolationInv
<1> QED BY <1>1, <1>2, IsolationInitially, PTL DEF Spec

-----------------------------------------------------------------------------
(* Where the checkout is makes no difference to the lints.  Behind it:     *)
(* what they look for in a path starts in the repository, because one      *)
(* segment of it is not above the checkout.                                *)

LEMMA RunAt ==
  ASSUME NEW S, NEW p \in Seq(S), NEW run \in Seq(S), NEW n \in 1 .. Len(p) - Len(run) + 1,
         SubSeq(p, n, n + Len(run) - 1) = run, NEW k \in 1 .. Len(run)
  PROVE  n + k - 1 \in 1 .. Len(p) /\ p[n + k - 1] = run[k]
<1>1. Len(p) \in Nat /\ Len(run) \in Nat
  OBVIOUS
<1>2. \A i \in n .. n + Len(run) - 1 : p[i] \in S
  BY <1>1
<1>3. \A i \in 1 .. Len(run) : SubSeq(p, n, n + Len(run) - 1)[i] = p[n + i - 1]
  BY <1>1, <1>2, SubSeqProperties
<1>4. n + k - 1 \in 1 .. Len(p)
  BY <1>1
<1>5. run[k] = SubSeq(p, n, n + Len(run) - 1)[k]
  OBVIOUS
<1>6. SubSeq(p, n, n + Len(run) - 1)[k] = p[n + k - 1]
  BY <1>3
<1>7. p[n + k - 1] = run[k]
  BY ONLY <1>5, <1>6
<1> QED BY ONLY <1>4, <1>7

\* A run whose k-th segment is nowhere among the first Len(l) + k - 1 of the path is
\* found in l \o p exactly where it is found in p.
LEMMA SameRuns ==
  ASSUME NEW S, NEW l \in Seq(S), NEW p \in Seq(S), NEW run \in Seq(S),
         NEW k \in 1 .. Len(run),
         \A n \in 1 .. Len(l) + k - 1 : n <= Len(l) + Len(p) => (l \o p)[n] # run[k]
  PROVE  HasRun(l \o p, run) <=> HasRun(p, run)
<1>1. /\ Len(l) \in Nat /\ Len(p) \in Nat /\ Len(run) \in Nat \ {0}
      /\ l \o p \in Seq(S) /\ Len(l \o p) = Len(l) + Len(p)
  OBVIOUS
<1>2. ASSUME NEW n \in 1 .. Len(p) - Len(run) + 1
      PROVE  SubSeq(l \o p, Len(l) + n, Len(l) + n + Len(run) - 1) = SubSeq(p, n, n + Len(run) - 1)
  <2>1. /\ Len(l) + n \in Len(l) + 1 .. Len(l) + Len(p)
        /\ Len(l) + n + Len(run) - 1 \in Len(l) + 1 .. Len(l) + Len(p)
        /\ Len(l) + n - Len(l) = n
        /\ Len(l) + n + Len(run) - 1 - Len(l) = n + Len(run) - 1
    BY <1>1
  <2> QED BY <2>1, SubSeqOfConcat2
<1>3. ASSUME HasRun(l \o p, run) PROVE HasRun(p, run)
  <2>1. PICK n \in 1 .. Len(l \o p) - Len(run) + 1 : SubSeq(l \o p, n, n + Len(run) - 1) = run
    BY <1>3 DEF HasRun
  <2> DEFINE path2 == l \o p
  <2>2. n + k - 1 \in 1 .. Len(path2) /\ path2[n + k - 1] = run[k]
    <3>1. path2 \in Seq(S)
      BY <1>1
    <3>2. n \in 1 .. Len(path2) - Len(run) + 1 /\ SubSeq(path2, n, n + Len(run) - 1) = run
      BY <2>1
    <3> HIDE DEF path2
    <3> QED BY <3>1, <3>2, RunAt
  <2>3. n > Len(l)
    <3>1. SUFFICES ASSUME n \leq Len(l) PROVE FALSE
      BY <1>1
    <3>2. n + k - 1 \in 1 .. Len(l) + k - 1 /\ n + k - 1 <= Len(l) + Len(p)
      BY <1>1, <2>2, <3>1
    <3> QED BY <2>2, <3>2
  <2> DEFINE m == n - Len(l)
  <2>4. m \in 1 .. Len(p) - Len(run) + 1 /\ Len(l) + m = n
    BY <1>1, <2>3
  <2> QED BY <1>2, <2>1, <2>4 DEF HasRun
<1>4. ASSUME HasRun(p, run) PROVE HasRun(l \o p, run)
  <2>1. PICK n \in 1 .. Len(p) - Len(run) + 1 : SubSeq(p, n, n + Len(run) - 1) = run
    BY <1>4 DEF HasRun
  <2>2. Len(l) + n \in 1 .. Len(l \o p) - Len(run) + 1
    BY <1>1
  <2> QED BY <1>2, <2>1, <2>2 DEF HasRun
<1> QED BY <1>3, <1>4

LEMMA ConcatParts ==
  ASSUME NEW S, NEW l \in Seq(S), NEW p \in Seq(S)
  PROVE  /\ Len(l) \in Nat /\ Len(p) \in Nat
         /\ l \o p \in Seq(S) /\ Len(l \o p) = Len(l) + Len(p)
         /\ \A n \in 1 .. Len(l) : (l \o p)[n] = l[n]
         /\ \A n \in 1 .. Len(p) : (l \o p)[Len(l) + n] = p[n]
OBVIOUS

LEMMA FrontParts ==
  ASSUME NEW S, NEW p \in Seq(S), p # <<>>
  PROVE  /\ Len(p) \in Nat /\ Len(p) > 0
         /\ SubSeq(p, 1, Len(p) - 1) \in Seq(S)
         /\ Len(SubSeq(p, 1, Len(p) - 1)) = Len(p) - 1
         /\ \A n \in 1 .. Len(p) - 1 : SubSeq(p, 1, Len(p) - 1)[n] = p[n]
<1> DEFINE m == Len(p) - 1
           dirs == SubSeq(p, 1, m)
<1>1. /\ Len(p) \in Nat /\ Len(p) > 0 /\ m \in Nat /\ \A n \in 1 .. m : p[n] \in S
  OBVIOUS
<1> HIDE DEF m
<1>2. /\ dirs \in Seq(S) /\ Len(dirs) = (IF 1 <= m THEN m - 1 + 1 ELSE 0)
      /\ \A n \in 1 .. m - 1 + 1 : dirs[n] = p[1 + n - 1]
  BY <1>1, SubSeqProperties
<1> HIDE DEF dirs
<1>3. m - 1 + 1 = m /\ (m < 1 => m = 0)
  BY <1>1
<1>4. Len(dirs) = m
  BY <1>1, <1>2, <1>3
<1>5. ASSUME NEW n \in 1 .. m PROVE dirs[n] = p[n]
  <2>1. n \in 1 .. m - 1 + 1 /\ 1 + n - 1 = n
    BY <1>1
  <2> QED BY <1>2, <2>1
<1> QED BY <1>1, <1>2, <1>4, <1>5 DEF m, dirs

LEMMA FrontOfConcat ==
  ASSUME NEW S, NEW l \in Seq(S), NEW p \in Seq(S), p # <<>>
  PROVE  SubSeq(l \o p, 1, Len(l \o p) - 1) = l \o SubSeq(p, 1, Len(p) - 1)
<1> DEFINE dirs == SubSeq(p, 1, Len(p) - 1)
           whole == l \o p
           front == SubSeq(whole, 1, Len(whole) - 1)
           parts == l \o dirs
<1>1. /\ dirs \in Seq(S) /\ Len(dirs) = Len(p) - 1 /\ Len(p) \in Nat /\ Len(p) > 0
      /\ \A n \in 1 .. Len(p) - 1 : dirs[n] = p[n]
  BY FrontParts
<1>2. /\ whole \in Seq(S) /\ Len(whole) = Len(l) + Len(p) /\ Len(l) \in Nat
      /\ \A n \in 1 .. Len(l) : whole[n] = l[n]
      /\ \A n \in 1 .. Len(p) : whole[Len(l) + n] = p[n]
  BY ConcatParts
<1> HIDE DEF dirs, whole
<1>3. /\ parts \in Seq(S) /\ Len(parts) = Len(l) + Len(dirs)
      /\ \A n \in 1 .. Len(l) : parts[n] = l[n]
      /\ \A n \in 1 .. Len(dirs) : parts[Len(l) + n] = dirs[n]
  <2>1. dirs \in Seq(S)
    BY <1>1
  <2> QED BY ONLY <2>1, ConcatParts, l \in Seq(S)
<1>4. whole # <<>>
  <2>1. Len(whole) > 0
    BY <1>1, <1>2
  <2> QED BY <2>1
<1>5. /\ front \in Seq(S) /\ Len(front) = Len(whole) - 1
      /\ \A n \in 1 .. Len(whole) - 1 : front[n] = whole[n]
  BY <1>2, <1>4, FrontParts
<1> HIDE DEF parts, front
<1>6. Len(front) = Len(parts) /\ Len(front) = Len(l) + (Len(p) - 1)
  BY <1>1, <1>2, <1>3, <1>5
<1>7. ASSUME NEW n \in 1 .. Len(front) PROVE front[n] = parts[n]
  <2>1. n \in Int /\ n \in 1 .. Len(whole) - 1
    BY <1>5
  <2>2. CASE n \leq Len(l)
    <3>1. n \in 1 .. Len(l)
      BY <1>2, <2>1, <2>2
    <3> QED BY <1>2, <1>3, <1>5, <2>1, <3>1
  <2>3. CASE n > Len(l)
    <3>1. PICK k \in 1 .. Len(p) - 1 : n = Len(l) + k
      <4>1. n - Len(l) \in 1 .. Len(p) - 1 /\ n = Len(l) + (n - Len(l))
        BY <1>1, <1>2, <1>6, <2>1, <2>3
      <4> QED BY <4>1
    <3>2. k \in 1 .. Len(p) /\ k \in 1 .. Len(dirs)
      BY <1>1
    <3> QED BY <1>1, <1>2, <1>3, <1>5, <2>1, <3>1, <3>2
  <2> QED BY <1>2, <2>1, <2>2, <2>3
<1>8. front = parts
  BY <1>3, <1>5, <1>6, <1>7, SeqEqual
<1> QED BY <1>8 DEF front, parts, whole, dirs

\* The same, of runs that start in p, for a path's end and for its directories.
LEMMA SameFromStart ==
  ASSUME NEW S, NEW l \in Seq(S), NEW p \in Seq(S), p # <<>>, NEW run \in Seq(S),
         run # <<>>, \A n \in 1 .. Len(l) : l[n] # run[1]
  PROVE  /\ HasRun(l \o p, run) <=> HasRun(p, run)
         /\ HasDirectories(l \o p, run) <=> HasDirectories(p, run)
         /\ EndsWith(l \o p, run) <=> EndsWith(p, run)
<1>1. Len(l) \in Nat /\ Len(p) \in Nat /\ Len(run) \in Nat /\ Len(run) > 0
  OBVIOUS
<1>2. ASSUME NEW q \in Seq(S)
      PROVE  HasRun(l \o q, run) <=> HasRun(q, run)
  <2>1. 1 \in 1 .. Len(run) /\ Len(l) + 1 - 1 = Len(l)
    BY <1>1
  <2>2. \A n \in 1 .. Len(l) + 1 - 1 : n <= Len(l) + Len(q) => (l \o q)[n] # run[1]
    BY <2>1
  <2> QED BY <2>1, <2>2, SameRuns
<1>3. HasDirectories(l \o p, run) <=> HasDirectories(p, run)
  <2>1. SubSeq(p, 1, Len(p) - 1) \in Seq(S)
    BY FrontParts
  <2>2. HasRun(SubSeq(l \o p, 1, Len(l \o p) - 1), run)
          <=> HasRun(l \o SubSeq(p, 1, Len(p) - 1), run)
    BY FrontOfConcat
  <2> QED BY <1>2, <2>1, <2>2 DEF HasDirectories
<1>4. EndsWith(l \o p, run) <=> EndsWith(p, run)
  <2> DEFINE whole == l \o p
  <2>1. /\ whole \in Seq(S) /\ Len(whole) = Len(l) + Len(p)
        /\ \A n \in 1 .. Len(l) : whole[n] = l[n]
    BY ConcatParts
  <2>2. ASSUME NEW m \in Len(l) + 1 .. Len(l) + Len(p), NEW n \in Len(l) + 1 .. Len(l) + Len(p)
        PROVE  SubSeq(whole, m, n) = SubSeq(p, m - Len(l), n - Len(l))
    BY SubSeqOfConcat2
  <2> HIDE DEF whole
  <2> DEFINE first == Len(whole) - Len(run) + 1
  <2>3. CASE Len(run) \leq Len(p)
    <3>1. /\ first \in Len(l) + 1 .. Len(l) + Len(p)
          /\ Len(whole) \in Len(l) + 1 .. Len(l) + Len(p)
          /\ first - Len(l) = Len(p) - Len(run) + 1
          /\ Len(whole) - Len(l) = Len(p)
      BY <1>1, <2>1, <2>3
    <3>2. SubSeq(whole, first, Len(whole)) = SubSeq(p, Len(p) - Len(run) + 1, Len(p))
      BY <2>2, <3>1
    <3>3. Len(run) <= Len(whole)
      BY <1>1, <2>1, <2>3
    <3> QED BY <2>3, <3>2, <3>3 DEF EndsWith, whole
  <2>4. CASE Len(run) > Len(p)
    <3>1. ~EndsWith(p, run)
      BY <1>1, <2>4 DEF EndsWith
    <3>2. SUFFICES ASSUME EndsWith(whole, run) PROVE FALSE
      BY <3>1 DEF whole
    <3>3. Len(run) <= Len(whole) /\ SubSeq(whole, first, Len(whole)) = run
      BY <3>2 DEF EndsWith
    <3>4. /\ first \in 1 .. Len(whole) - Len(run) + 1 /\ first + Len(run) - 1 = Len(whole)
          /\ 1 \in 1 .. Len(run) /\ first + 1 - 1 = first /\ first \in 1 .. Len(l)
      BY <1>1, <2>1, <2>4, <3>3
    <3> HIDE DEF first
    <3>5. whole[first] = run[1]
      BY <2>1, <3>3, <3>4, RunAt
    <3> QED BY <2>1, <3>4, <3>5
  <2> QED BY <1>1, <2>3, <2>4
<1> QED BY <1>2, <1>3, <1>4

\* Every segment a path can have and every one the print lint looks for.
Segments ==
  STRING \cup Skipped
    \cup {"src", "tests", "examples", "scripts", "cli", "thermocline", "photophore",
          "pi-forge", "pi_forge", "describe-forge", "describe_forge", "server.py",
          "__main__.py"}

LEMMA PathParts ==
  ASSUME TypeOK
  PROVE  /\ location \in Seq(Segments) /\ path \in Seq(Segments)
         /\ path # <<>> /\ path[1] \notin LooksLike(LibraryFiles)
<1>1. PICK f \in Files : location = f[1] /\ path = f[2]
  BY DEF TypeOK
<1>2. location \in Seq(STRING) /\ path \in Seq(STRING)
  BY <1>1, FilesAssumption
<1>3. STRING \subseteq Segments
  BY DEF Segments
<1> QED BY <1>1, <1>2, <1>3, SeqMonotonic, FilesAssumption

\* The names that no directory above the checkout has.
Marks ==
  Skipped \cup {"src", "tests", "examples", "pi-forge", "describe-forge"}

\* A run is found in the absolute path where it is found in the repository's.
Travels(run) ==
  /\ HasRun(Absolute, run) <=> HasRun(path, run)
  /\ HasDirectories(Absolute, run) <=> HasDirectories(path, run)
  /\ EndsWith(Absolute, run) <=> EndsWith(path, run)

LEMMA MarkedRuns ==
  ASSUME TypeOK, Plain(location), NEW run \in Seq(Segments), run # <<>>, run[1] \in Marks
  PROVE  Travels(run)
<1>1. \A n \in 1 .. Len(location) : location[n] # run[1]
  BY DEF Plain, Marks
<1> QED BY <1>1, PathParts, SameFromStart DEF Absolute, Travels

\* Of runs of one to three segments, as the lints have them.
LEMMA MarkedTuples ==
  ASSUME TypeOK, Plain(location), NEW a \in Marks, NEW b \in Segments, NEW c \in Segments
  PROVE  Travels(<<a>>) /\ Travels(<<a, b>>) /\ Travels(<<a, b, c>>)
<1>1. a \in Segments
  BY DEF Marks, Segments
<1>2. <<a>> \in Seq(Segments) /\ <<a>> # <<>> /\ <<a>>[1] = a
  BY <1>1
<1>3. <<a, b>> \in Seq(Segments) /\ <<a, b>> # <<>> /\ <<a, b>>[1] = a
  BY <1>1
<1>4. <<a, b, c>> \in Seq(Segments) /\ <<a, b, c>> # <<>> /\ <<a, b, c>>[1] = a
  BY <1>1
<1>5. Travels(<<a>>)
  BY <1>2, MarkedRuns
<1>6. Travels(<<a, b>>)
  BY <1>3, MarkedRuns
<1>7. Travels(<<a, b, c>>)
  BY <1>4, MarkedRuns
<1> QED BY <1>5, <1>6, <1>7

\* A fragment whose k-th segment is nowhere among the first Len(l) + k - 1 of the
\* path is found in l \o p exactly where it is found in p.
LEMMA SameFragments ==
  ASSUME NEW S, NEW l \in Seq(S), NEW p \in Seq(S), NEW names, Len(names) \in Nat,
         NEW k \in 1 .. Len(names),
         \A n \in 1 .. Len(l) + k - 1 : n <= Len(l) + Len(p) => (l \o p)[n] \notin names[k]
  PROVE  HasFragment(l \o p, names) <=> HasFragment(p, names)
<1> DEFINE whole == l \o p
<1>1. /\ Len(l) \in Nat /\ Len(p) \in Nat /\ Len(whole) = Len(l) + Len(p)
      /\ \A n \in 1 .. Len(p) : whole[Len(l) + n] = p[n]
  BY ConcatParts
<1>2. \A n \in 1 .. Len(l) + k - 1 : n <= Len(l) + Len(p) => whole[n] \notin names[k]
  OBVIOUS
<1> HIDE DEF whole
<1>3. ASSUME HasFragment(whole, names) PROVE HasFragment(p, names)
  <2>1. PICK n \in 0 .. Len(whole) - Len(names) : \A i \in 1 .. Len(names) : whole[n + i] \in names[i]
    BY <1>3 DEF HasFragment
  <2>2. n >= Len(l)
    <3>1. SUFFICES ASSUME n < Len(l) PROVE FALSE
      BY <1>1
    <3>2. n + k \in 1 .. Len(l) + k - 1 /\ n + k <= Len(l) + Len(p)
      BY <1>1, <2>1, <3>1
    <3> QED BY <1>2, <2>1, <3>2
  <2> DEFINE m == n - Len(l)
  <2>3. m \in 0 .. Len(p) - Len(names) /\ Len(l) + m = n
    BY <1>1, <2>1, <2>2
  <2> HIDE DEF m
  <2>4. ASSUME NEW i \in 1 .. Len(names) PROVE p[m + i] \in names[i]
    <3>0. m \in Int /\ i \in Int /\ n \in Int
      BY <2>3
    <3>1. m + i \in 1 .. Len(p) /\ Len(l) + (m + i) = n + i
      <4>1. Len(p) - Len(names) \in Int /\ m >= 0 /\ m <= Len(p) - Len(names) /\ i >= 1 /\ i <= Len(names)
        BY <1>1, <2>3
      <4>2. m + i >= 1 /\ m + i <= Len(p)
        BY <1>1, <3>0, <4>1
      <4>3. m + i \in 1 .. Len(p)
        BY <1>1, <3>0, <4>2
      <4>4. Len(l) + (m + i) = (Len(l) + m) + i
        BY <1>1, <3>0
      <4> QED BY <2>3, <4>3, <4>4
    <3>2. whole[n + i] = p[m + i]
      BY <1>1, <3>1
    <3> QED BY <2>1, <3>2
  <2> QED BY <2>3, <2>4 DEF HasFragment
<1>4. ASSUME HasFragment(p, names) PROVE HasFragment(whole, names)
  <2>1. PICK n \in 0 .. Len(p) - Len(names) : \A i \in 1 .. Len(names) : p[n + i] \in names[i]
    BY <1>4 DEF HasFragment
  <2> DEFINE m == Len(l) + n
  <2>2. m \in 0 .. Len(whole) - Len(names)
    BY <1>1
  <2>3. ASSUME NEW i \in 1 .. Len(names) PROVE whole[m + i] \in names[i]
    <3>1. n + i \in 1 .. Len(p) /\ Len(l) + (n + i) = m + i
      BY <1>1
    <3>2. whole[m + i] = p[n + i]
      BY <1>1, <3>1
    <3> QED BY <2>1, <3>2
  <2> HIDE DEF m
  <2> QED BY <2>2, <2>3 DEF HasFragment
<1> QED BY <1>3, <1>4 DEF whole

\* What the network lint looks for starts in the repository: no directory above it
\* ends like the sibling, and nothing above its second level is called like a file
\* of the library.
LEMMA FragmentsTravel ==
  ASSUME NEW l \in Seq(STRING), NEW p \in Seq(STRING), Plain(l), p # <<>>,
         p[1] \notin LooksLike(LibraryFiles), NEW f \in Dispatchers \cup Isolated
  PROVE  HasFragment(l \o p, f) <=> HasFragment(p, f)
<1>1. /\ Len(l) \in Nat /\ Len(p) \in Nat /\ Len(p) > 0
      /\ \A n \in 1 .. Len(l) : (l \o p)[n] = l[n]
      /\ (l \o p)[Len(l) + 1] = p[1]
  <2>1. Len(p) > 0 /\ Len(p) \in Nat
    OBVIOUS
  <2> QED BY <2>1, ConcatParts
<1>2. CASE \/ f[1] = Ending["photophore"] /\ Len(f) \in Nat /\ 1 \in 1 .. Len(f)
  <2>1. \A n \in 1 .. Len(l) + 1 - 1 : n <= Len(l) + Len(p) => (l \o p)[n] \notin f[1]
    BY <1>1, <1>2 DEF Plain
  <2> QED BY <1>2, <2>1, SameFragments
<1>3. ASSUME NEW m \in LibraryFiles, f = <<Ending["thermocline"], Starting[m]>>
      PROVE  HasFragment(l \o p, f) <=> HasFragment(p, f)
  <2>1. f[2] \subseteq LooksLike(LibraryFiles) /\ Len(f) = 2 /\ 2 \in 1 .. Len(f) /\ Len(f) \in Nat
    BY <1>3 DEF LooksLike
  <2>2. \A n \in 1 .. Len(l) + 2 - 1 : n \in 1 .. Len(l) \/ n = Len(l) + 1
    BY <1>1
  <2>3. \A n \in 1 .. Len(l) : l[n] \notin f[2]
    BY <2>1 DEF Plain
  <2>4. \A n \in 1 .. Len(l) + 2 - 1 : n <= Len(l) + Len(p) => (l \o p)[n] \notin f[2]
    BY <1>1, <2>1, <2>2, <2>3
  <2> QED BY <2>1, <2>4, SameFragments
<1>4. ASSUME NEW m \in PhotophoreModules, f = <<Ending["photophore"], Starting[m]>>
      PROVE  f[1] = Ending["photophore"] /\ Len(f) \in Nat /\ 1 \in 1 .. Len(f)
  BY <1>4
<1>5. ASSUME f = <<Ending["photophore"], {"dispatch"}>>
      PROVE  f[1] = Ending["photophore"] /\ Len(f) \in Nat /\ 1 \in 1 .. Len(f)
  BY <1>5
<1>6. ASSUME NEW c, f = <<Ending["photophore"], {"cli"}, Starting[c]>>
      PROVE  f[1] = Ending["photophore"] /\ Len(f) \in Nat /\ 1 \in 1 .. Len(f)
  BY <1>6
<1> QED BY <1>2, <1>3, <1>4, <1>5, <1>6 DEF Dispatchers, Isolated

\* A path that starts at the checkout or above it has only plain directories there.
LEMMA PlainFromAbove ==
  ASSUME NEW l \in Seq(STRING), Plain(l), NEW n \in 1 .. Len(l) + 1
  PROVE  SubSeq(l, n, Len(l)) \in Seq(STRING) /\ Plain(SubSeq(l, n, Len(l)))
<1> DEFINE tail == SubSeq(l, n, Len(l))
<1>1. /\ Len(l) \in Nat /\ n \in Nat
      /\ \A i \in n .. Len(l) : l[i] \in STRING
  OBVIOUS
<1>2. /\ tail \in Seq(STRING)
      /\ Len(tail) = (IF n <= Len(l) THEN Len(l) - n + 1 ELSE 0)
      /\ \A i \in 1 .. Len(l) - n + 1 : tail[i] = l[n + i - 1]
  BY <1>1, SubSeqProperties
<1> HIDE DEF tail
<1>3. ASSUME NEW i \in 1 .. Len(tail)
      PROVE  n + i - 1 \in 1 .. Len(l) /\ tail[i] = l[n + i - 1]
  <2>1. i \in 1 .. Len(l) - n + 1
    BY <1>1, <1>2
  <2> QED BY <1>1, <1>2, <2>1
<1>4. Plain(tail)
  BY <1>3 DEF Plain
<1> QED BY <1>2, <1>4 DEF tail

\* The two lints judge every file by its place in the repository, wherever the
\* checkout is among directories that have none of the names they look for
\* (ast_lint_no_print.py, ast_lint_network_isolation.py).
LEMMA VerdictsFollowPath ==
  ASSUME TypeOK, Plain(location)
  PROVE  /\ PrintChecked(Absolute) <=> PrintChecked(path)
         /\ \A p \in FromAbove : NetworkChecked(p) <=> NetworkChecked(path)
<1>1. PrintChecked(Absolute) <=> PrintChecked(path)
  <2> USE DEF Segments, Marks
  <2>1. \A d \in Skipped : Travels(<<d>>)
    BY MarkedTuples
  <2>2. /\ Travels(<<"tests">>) /\ Travels(<<"examples">>)
        /\ Travels(<<"pi-forge">>) /\ Travels(<<"describe-forge">>)
    BY MarkedTuples
  <2>3. /\ Travels(<<"src", "thermocline">>) /\ Travels(<<"src", "photophore">>)
        /\ Travels(<<"src", "thermocline", "scripts">>) /\ Travels(<<"src", "photophore", "cli">>)
    BY MarkedTuples
  <2>4. /\ Travels(<<"pi-forge", "server.py">>) /\ Travels(<<"describe-forge", "server.py">>)
        /\ Travels(<<"pi-forge", "pi_forge", "__main__.py">>)
        /\ Travels(<<"describe-forge", "describe_forge", "__main__.py">>)
    BY MarkedTuples
  <2>5. PrintAllowed(Absolute) <=> PrintAllowed(path)
    BY <2>2, <2>3, <2>4 DEF PrintAllowed, Travels, ForgeEntries
  <2>6. PrintProtected(Absolute) <=> PrintProtected(path)
    BY <2>2, <2>3 DEF PrintProtected, Travels
  <2> QED BY <2>1, <2>5, <2>6 DEF PrintChecked, Travels
<1>2. ASSUME NEW p \in FromAbove PROVE NetworkChecked(p) <=> NetworkChecked(path)
  <2>1. PICK n \in 1 .. Len(location) + 1 : p = SubSeq(location, n, Len(location)) \o path
    BY DEF FromAbove
  <2>2. /\ location \in Seq(STRING) /\ path \in Seq(STRING)
        /\ path # <<>> /\ path[1] \notin LooksLike(LibraryFiles)
    BY FilesAssumption DEF TypeOK
  <2>3. \A f \in Dispatchers \cup Isolated : HasFragment(p, f) <=> HasFragment(path, f)
    <3> DEFINE outer == SubSeq(location, n, Len(location))
    <3>1. outer \in Seq(STRING) /\ Plain(outer)
      BY <2>2, PlainFromAbove
    <3> HIDE DEF outer
    <3>2. p = outer \o path
      BY <2>1 DEF outer
    <3> QED BY <2>2, <3>1, <3>2, FragmentsTravel
  <2> QED BY <2>3 DEF NetworkChecked
<1> QED BY <1>1, <1>2

\* So the verdict on a file depends neither on the machine the lint runs on nor on
\* whether it is given an absolute path or one from the checkout's top.
THEOREM LintsTravel == Spec => []VerdictsTravel
<1>1. TypeOK => VerdictsTravel
  BY VerdictsFollowPath DEF VerdictsTravel
<1>2. LintInv => TypeOK
  BY DEF LintInv
<1> QED BY <1>1, <1>2, LintInvariant, PTL
=============================================================================
