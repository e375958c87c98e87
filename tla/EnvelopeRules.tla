--------------------------- MODULE EnvelopeRules ---------------------------
(***************************************************************************)
(* The rules between the fields of an envelope, stated twice in the code:  *)
(* by the validators of envelope.py, which parse_strict runs, and by the   *)
(* JSON Schema files that scripts/build_schemas.py derives from the models *)
(* and completes by hand, which ports in other languages validate against. *)
(*                                                                         *)
(* A document is the JSON object of one of the five envelopes, reduced to  *)
(* the fields the rules are about; a field is Missing, Null or has a       *)
(* value.  Documents arrive, and those that parse are dumped again, with   *)
(* the defaults for what was left out.                                     *)
(***************************************************************************)
CONSTANTS
  Versions,   \* the values of the thermocline field
  Lists,      \* the lists of blocks, as sets: no rule looks at the order
  Received,   \* the documents that arrive
  Missing, Null, NotText, NoDocument

SupportedVersions == {"0.3.0", "0.3.1"}
HaltCodes == {"MANIFEST_TAMPER", "PASSTHROUGH_VIOLATION", "CONTRACT_MISMATCH",
              "STEP_AMBIGUOUS", "TOOL_UNAVAILABLE", "TIMEOUT", "PRIVACY_VIOLATION"}

Nothing == {Missing, Null}

\* One context block: content is base64 text or other text, a shadow is well
\* formed or has a relevance outside 0..1.
ContentBlocks ==
  [tier : {0, 1, 2, 3, Missing}, content : Nothing \cup {"base64", "text"},
   shadow : Nothing \cup {"shadow", "irrelevant"}]

Contexts == Nothing \cup Lists

Tasks == [type : {"task"}, thermocline : Versions, context : Contexts]

\* A job with the contexts of its steps.
Jobs == [type : {"job"}, thermocline : Versions, steps : SUBSET Contexts]

TaskResults ==
  [type : {"task_result"}, thermocline : Versions, envelope_id : {"id1", "id2", "not a uuid"},
   receipt_id : Nothing \cup {"id1", "id2", "not a uuid"}]

JobResults ==
  [type : {"job_result"}, thermocline : Versions,
   status : {"complete", "failed", "halted", "running", Missing},
   halt_reason : Nothing \cup {"TIMEOUT", "LUNCH"}, artifact : Nothing \cup {"artifact"}]

\* The type of an error envelope may be left out.
ErrorEnvelopes ==
  [type : {"task_error", "job_error", Missing}, thermocline : Versions,
   envelope_id : Nothing \cup {"id1", "not a uuid"}, job_id : Nothing \cup {"id1", "not a uuid"}]

Documents == Tasks \cup Jobs \cup TaskResults \cup JobResults \cup ErrorEnvelopes

\* What stands for no value is told from a value.
ASSUME RulesAssumption ==
  /\ Missing # Null /\ Missing # NotText
  /\ {Missing, Null, NotText} \cap SupportedVersions = {}
  /\ Lists \subseteq SUBSET ContentBlocks /\ Nothing \cap Lists = {}
  /\ Received \subseteq Documents
  /\ NoDocument \notin Documents
  /\ Nothing \cap {"base64", "text", "shadow", "irrelevant", "id1", "id2", "not a uuid",
                  "artifact", "TIMEOUT", "LUNCH", "task", "job", "task_result", "job_result",
                  "task_error", "job_error", "complete", "failed", "halted"} = {}
  /\ Nothing \cap {0, 1, 2, 3} = {}

VARIABLE doc

-----------------------------------------------------------------------------
(* envelope.py.                                                            *)

Uuid(v) == v \in {"id1", "id2"}
Given(v) == v \notin Nothing

\* Sensitive: a str is decoded as base64; every other field against its type.
BlockFieldErrors(b) ==
  {f \in {"tier", "content", "shadow"} :
     CASE f = "tier" -> b.tier \notin {0, 1, 2}
       [] f = "content" -> b.content = "text"
       [] f = "shadow" -> b.shadow = "irrelevant"}

\* Mutant: a tier-1 block may carry its content beside the shadow.
TierRuleShadowOnly(b) ==
  CASE b.tier = 0 -> ~Given(b.content) /\ ~Given(b.shadow)
    [] b.tier = 1 -> Given(b.shadow)
    [] OTHER -> Given(b.content) /\ ~Given(b.shadow)

\* _enforce_tier_semantics; it runs once the fields of the block are good.
TierRule(b) ==
  CASE b.tier = 0 -> ~Given(b.content) /\ ~Given(b.shadow)
    [] b.tier = 1 -> Given(b.shadow) /\ ~Given(b.content)
    [] OTHER -> Given(b.content) /\ ~Given(b.shadow)

BlockErrors(b) ==
  IF BlockFieldErrors(b) # {} THEN BlockFieldErrors(b)
  ELSE IF TierRule(b) THEN {} ELSE {"tier rule"}

\* The contexts of a document, one of the task or one of each step, and its blocks.
ContextsOf(d) ==
  CASE d.type = "task" -> {d.context}
    [] d.type = "job" -> d.steps
    [] OTHER -> {}

BlocksOf(d) == UNION (ContextsOf(d) \ Nothing)

\* A list may be left out, but not be null.
ContextErrors(d) ==
  (UNION {BlockErrors(b) : b \in BlocksOf(d)})
    \cup (IF Null \in ContextsOf(d) THEN {"context"} ELSE {})

\* _check_version, a validator of the field like any other; of a string, that is.
VersionErrors(d) ==
  CASE d.thermocline = Missing -> {"thermocline missing"}
    [] d.thermocline = NotText -> {"thermocline type"}
    [] d.thermocline \in SupportedVersions -> {}
    [] OTHER -> {"thermocline"}

IdErrors(d, ids) == {f \in ids : Given(d[f]) /\ ~Uuid(d[f])}

FieldErrors(d) ==
  VersionErrors(d) \cup ContextErrors(d) \cup
  CASE d.type \in {"task", "job"} -> {}
    [] d.type = "task_result" -> IdErrors(d, {"envelope_id", "receipt_id"})
    [] d.type = "job_result" ->
         {f \in {"status", "halt_reason"} :
            CASE f = "status" -> d.status \notin {"complete", "failed", "halted"}
              [] f = "halt_reason" -> Given(d.halt_reason) /\ d.halt_reason \notin HaltCodes}
    [] OTHER -> IdErrors(d, {"envelope_id", "job_id"})

\* _check_receipt_envelope_id.
ReceiptIdMatches(d) == Given(d.receipt_id) => d.receipt_id = d.envelope_id

\* _check_status_coupling.
StatusCoupled(d) ==
  IF d.status = "complete" THEN ~Given(d.halt_reason)
  ELSE ~Given(d.artifact) /\ Given(d.halt_reason)

\* The validators of a whole model.
ModelRule(d) ==
  CASE d.type = "task_result" -> ReceiptIdMatches(d)
    [] d.type = "job_result" -> StatusCoupled(d)
    [] OTHER -> TRUE

\* Mutant: the version is checked with the rules of the whole model.
ErrorsVersionLast(d) ==
  IF FieldErrors(d) \ {"thermocline"} # {} THEN FieldErrors(d) \ {"thermocline"}
  ELSE FieldErrors(d) \cup (IF ModelRule(d) THEN {} ELSE {"model rule"})

\* What Pydantic reports: a rule of the whole model is checked only when every
\* field was good.
Errors(d) ==
  IF FieldErrors(d) # {} THEN FieldErrors(d)
  ELSE IF ModelRule(d) THEN {} ELSE {"model rule"}

\* parse_strict: _re_raise_version_errors looks for the version among the errors.
Parse(d) ==
  CASE Errors(d) = {} -> "parsed"
    [] "thermocline" \in Errors(d) -> "UnsupportedVersionError"
    [] OTHER -> "ValidationError"

\* model_dump(mode="json"): what was left out is written as null, a list as empty
\* and the type of an error as its default.
NullFor(v) == IF v = Missing THEN Null ELSE v

DumpBlock(b) == [b EXCEPT !.content = NullFor(@), !.shadow = NullFor(@)]
DumpContext(c) == IF c = Missing THEN {} ELSE {DumpBlock(b) : b \in c}

\* What is dumped is a list too.
ASSUME ListsAssumption == \A c \in Lists \cup {Missing} : DumpContext(c) \in Lists

\* Mutant: the type has no default.
TypeWrittenAsNull(v) == NullFor(v)

TypeWritten(v) == IF v = Missing THEN "task_error" ELSE v

Dump(d) ==
  CASE d.type = "task" -> [d EXCEPT !.context = DumpContext(@)]
    [] d.type = "job" -> [d EXCEPT !.steps = {DumpContext(c) : c \in @}]
    [] d.type = "task_result" -> [d EXCEPT !.receipt_id = NullFor(@)]
    [] d.type = "job_result" ->
         [d EXCEPT !.halt_reason = NullFor(@), !.artifact = NullFor(@)]
    [] OTHER ->
         [d EXCEPT !.type = TypeWritten(@), !.envelope_id = NullFor(@), !.job_id = NullFor(@)]

-----------------------------------------------------------------------------
(* The schema files.  JSON Schema looks at a property only where it occurs;*)
(* required says that it does.                                             *)

Required(v) == v # Missing
IfPresent(v, ok) == v = Missing \/ ok

\* _CONTENT_PRESENT, _SHADOW_PRESENT and _CONTENT_ABSENT, _SHADOW_ABSENT.
Present(v) == Required(v) /\ IfPresent(v, v # Null)

\* Mutant: absence does not tolerate null.
AbsentNotNull(v) == ~Required(v)

Absent(v) == ~Required(v) \/ IfPresent(v, v = Null)

\* _tier_rule: if the tier is given and equals t then the clauses.
TierClause(b, t, clauses) == Required(b.tier) /\ b.tier = t => clauses

\* Mutant: the clauses for tier 0 are forgotten.
TierClausesButLocal(b) ==
  /\ TierClause(b, 1, Present(b.shadow) /\ Absent(b.content))
  /\ TierClause(b, 2, Present(b.content) /\ Absent(b.shadow))

\* _CONTENT_BLOCK_TIER_RULES, as _inject_tier_rules adds them.
TierClauses(b) ==
  /\ TierClause(b, 0, Absent(b.content) /\ Absent(b.shadow))
  /\ TierClause(b, 1, Present(b.shadow) /\ Absent(b.content))
  /\ TierClause(b, 2, Present(b.content) /\ Absent(b.shadow))

\* What model_json_schema derives from the annotations of the fields:
\* contentEncoding is an annotation, and the version is any string.
BlockDerived(b) ==
  /\ Required(b.tier) /\ b.tier \in {0, 1, 2}
  /\ IfPresent(b.shadow, b.shadow \in {Null, "shadow"})

IdOrNull(v) == IfPresent(v, v = Null \/ Uuid(v))

Derived(d) ==
  /\ Required(d.thermocline) /\ d.thermocline # NotText
  /\ Null \notin ContextsOf(d)
  /\ \A b \in BlocksOf(d) : BlockDerived(b)
  /\ CASE d.type \in {"task", "job"} -> TRUE
       [] d.type = "task_result" -> Uuid(d.envelope_id) /\ IdOrNull(d.receipt_id)
       [] d.type = "job_result" ->
            /\ Required(d.status) /\ d.status \in {"complete", "failed", "halted"}
            /\ IfPresent(d.halt_reason, d.halt_reason \in HaltCodes \cup {Null})
       [] OTHER -> IdOrNull(d.envelope_id) /\ IdOrNull(d.job_id)

\* Mutant: the clauses are added to the blocks of a task.
InjectedInTasks(d) == d.type = "task" => \A b \in BlocksOf(d) : TierClauses(b)

\* _inject_tier_rules: in every schema that has the definition of a block.
Injected(d) == \A b \in BlocksOf(d) : TierClauses(b)

\* generate_schema: what is derived, and the clauses added by hand.
SchemaValid(d) == Derived(d) /\ Injected(d)

-----------------------------------------------------------------------------
Init == doc = NoDocument

Receive == doc = NoDocument /\ doc' \in Received

Redump ==
  /\ doc # NoDocument /\ Parse(doc) = "parsed"
  /\ doc' = Dump(doc)

Discard == doc # NoDocument /\ doc' = NoDocument

Next == Receive \/ Redump \/ Discard

Spec == Init /\ [][Next]_doc

-----------------------------------------------------------------------------
TypeOK == doc \in Documents \cup {NoDocument}

\* The two statements of the tier rule agree on every task and every job whose
\* blocks have good fields, with null and absence mixed in any way: wherever one
\* bad block hides among the steps, both see it (build_schemas.py 63-70, 111-120,
\* test_envelope_tiers.py).
TierRulesInLockstep ==
  doc # NoDocument /\ (\A b \in BlocksOf(doc) : BlockFieldErrors(b) = {}) =>
    ((\A b \in BlocksOf(doc) : TierRule(b)) <=> Injected(doc))

\* What the library sends validates against the files it publishes, and parses
\* again to the same document: the explicit nulls and the defaults of a dump are no
\* violation (build_schemas.py 69-70, envelope.py).
DumpsAreAccepted ==
  doc # NoDocument /\ Parse(doc) = "parsed" =>
    /\ SchemaValid(doc) /\ SchemaValid(Dump(doc))
    /\ Parse(Dump(doc)) = "parsed"
    /\ Dump(Dump(doc)) = Dump(doc)

\* A version nobody supports comes out as UnsupportedVersionError, whatever else
\* is wrong with the document (THERMO-07; _re_raise_version_errors).
VersionErrorsAreTyped ==
  doc # NoDocument /\ doc.thermocline \notin SupportedVersions \cup {Missing, NotText} =>
    Parse(doc) = "UnsupportedVersionError"

\* The schema files are the contract for ports in other languages, and complete
\* but for three checks that a port has to make on its own: the version, the
\* base64 alphabet of content, and the rules of whole result envelopes.
PortsCheckTheRest ==
  doc # NoDocument /\ SchemaValid(doc) =>
    Errors(doc) \subseteq {"thermocline", "content", "model rule"}
=============================================================================
