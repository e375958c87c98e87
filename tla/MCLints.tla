------------------------------ MODULE MCLints ------------------------------
(***************************************************************************)
(* An instance of SourceLints: the ways to bind and call that the lints    *)
(* document, those they do not follow, and files in and around the library.*)
(***************************************************************************)
EXTENDS SourceLints

MCModules == {"json", "json.decoder", "orjson", "urllib", "urllib.request", "builtins"}
MCItems == {"dumps", "dump", "print", "get"}
MCNames == MCModules \cup MCItems \cup {"j", "d"}
MCTop == [m \in MCModules |->
            CASE m = "json.decoder" -> "json" [] m = "urllib.request" -> "urllib" [] OTHER -> m]

Line(form, of, item, as) == [form |-> form, of |-> of, item |-> item, as |-> as]

Lines ==
  {Line("import", m, "", a) : m \in {"json", "orjson"}, a \in {"", "j"}}
  \cup {Line("import", m, "", "") : m \in {"json.decoder", "urllib.request", "builtins"}}
  \cup {Line("from", "json", i, a) : i \in {"dumps", "dump"}, a \in {"", "d"}}
  \cup {Line("from", "json", "*", ""), Line("from", "orjson", "dumps", "d"),
        Line("from", "urllib.request", "get", ""), Line("from", "builtins", "print", "d")}
  \cup {Line("call", o, "dumps", "") : o \in {"json", "j", "orjson"}}
  \cup {Line("call", "", f, "") : f \in {"dumps", "d", "print"}}
  \cup {Line("call", "builtins", "print", ""), Line("bind", "json", "dumps", "d"),
        Line("bind", "", "print", "d"), Line("dynamic", "urllib", "", "")}

MCPrograms == {{a, b, c} : a, b, c \in Lines}

Library == Package \o <<"envelope.py">>

\* Names that hold a word the lints look for, and the words themselves.
MCEnding ==
  [w \in {"photophore", "thermocline", ".egg-info"} |->
     {w} \cup (CASE w = "photophore" -> {"my-photophore"}
                [] w = ".egg-info" -> {"x.egg-info"} [] OTHER -> {})]
MCStarting ==
  [w \in LibraryFiles \cup PhotophoreModules \cup {"dispatch_cmds.py", "channel_cmds.py"} |->
     {w} \cup (IF w = "classifier" THEN {"classifiers"} ELSE {})]

\* At a plain place, under a directory named src, and a package at the top of a
\* checkout that only ends like the sibling repository.
MCFiles ==
  {<<"home", "thermocline">>} \X
    {Library, Package \o <<"scripts", "build_schemas.py">>, <<"tools", "at_coverage.py">>,
     <<"thermocline", "python", "tests", "test_lint.py">>}
  \cup {<<<<"home", "src", "thermocline">>, Library>>,
        <<<<"x", "my-photophore">>, <<"classifiers", "rules.py">>>>}
=============================================================================
