------------------------ MODULE EnvelopeRulesProofs ------------------------
(***************************************************************************)
(* The two statements of the rules of EnvelopeRules agree for any          *)
(* documents, lists of blocks of any length included; and what parses      *)
(* survives a dump.                                                        *)
(***************************************************************************)
EXTENDS EnvelopeRules, TLAPS

(***************************************************************************)
(* One block whose fields are good: the validator's case is the clause of  *)
(* its tier.                                                               *)
(***************************************************************************)
LEMMA BlockLockstep ==
  ASSUME NEW b, BlockFieldErrors(b) = {}
  PROVE  TierRule(b) <=> TierClauses(b)
<1>1. b.tier \in {0, 1, 2}
  BY DEF BlockFieldErrors
<1>2. b.tier # Missing
  BY <1>1, RulesAssumption DEF Nothing
<1>3. \A v : Present(v) <=> Given(v)
  BY RulesAssumption DEF Present, Required, IfPresent, Given, Nothing
<1>4. \A v : Absent(v) <=> ~Given(v)
  BY RulesAssumption DEF Absent, Required, IfPresent, Given, Nothing
<1> QED
  BY <1>1, <1>2, <1>3, <1>4 DEF TierRule, TierClauses, TierClause, Required

(***************************************************************************)
(* TierRulesInLockstep holds: the validator _enforce_tier_semantics and    *)
(* the if/then clauses of the schema files accept the same blocks.         *)
(***************************************************************************)
THEOREM Lockstep == Spec => []TierRulesInLockstep
<1>1. TierRulesInLockstep
  BY BlockLockstep DEF TierRulesInLockstep, Injected
<1> QED
  BY <1>1, PTL

(***************************************************************************)
(* VersionErrorsAreTyped holds: a version nobody supports is reported as   *)
(* such, whatever else is wrong with the document.                         *)
(***************************************************************************)
THEOREM UnsupportedVersionsAreTyped == Spec => []VersionErrorsAreTyped
<1>1. VersionErrorsAreTyped
  <2> SUFFICES ASSUME doc.thermocline \notin SupportedVersions \cup {Missing, NotText}
               PROVE  Parse(doc) = "UnsupportedVersionError"
    BY DEF VersionErrorsAreTyped
  <2>1. "thermocline" \in VersionErrors(doc)
    BY DEF VersionErrors
  <2>2. "thermocline" \in Errors(doc) /\ Errors(doc) # {}
    BY <2>1 DEF Errors, FieldErrors
  <2> QED
    BY <2>2 DEF Parse
<1> QED
  BY <1>1, PTL

(***************************************************************************)
(* What a schema file says of a block leaves one check, the alphabet of    *)
(* its content.                                                            *)
(***************************************************************************)
LEMMA PortsCheckContent ==
  ASSUME NEW b, BlockDerived(b), TierClauses(b)
  PROVE  BlockErrors(b) \subseteq {"content"}
<1>1. b.tier \in {0, 1, 2} /\ b.shadow # "irrelevant"
  BY RulesAssumption DEF BlockDerived, IfPresent, Nothing
<1>2. BlockFieldErrors(b) \subseteq {"content"}
  BY <1>1 DEF BlockFieldErrors
<1>3. CASE BlockFieldErrors(b) # {}
  BY <1>2, <1>3 DEF BlockErrors
<1>4. CASE BlockFieldErrors(b) = {}
  BY <1>4, BlockLockstep DEF BlockErrors
<1> QED
  BY <1>3, <1>4

(***************************************************************************)
(* PortsCheckTheRest holds: a document that validates against its schema   *)
(* file fails, if at all, for its version, for the alphabet of a content   *)
(* or for a rule of a whole result.                                        *)
(***************************************************************************)
THEOREM PortsNeedThree == Spec => []PortsCheckTheRest
<1>1. PortsCheckTheRest
  <2> SUFFICES ASSUME SchemaValid(doc)
               PROVE  Errors(doc) \subseteq {"thermocline", "content", "model rule"}
    BY DEF PortsCheckTheRest
  <2>1. Derived(doc) /\ Injected(doc)
    BY DEF SchemaValid
  <2>2. VersionErrors(doc) \subseteq {"thermocline"}
    BY <2>1 DEF VersionErrors, Derived, Required
  <2>3. ContextErrors(doc) \subseteq {"content"}
    <3>1. \A b \in BlocksOf(doc) : BlockErrors(b) \subseteq {"content"}
      BY <2>1, PortsCheckContent DEF Derived, Injected
    <3>2. Null \notin ContextsOf(doc)
      BY <2>1 DEF Derived
    <3> QED
      BY <3>1, <3>2 DEF ContextErrors
  <2>4. \A v : IdOrNull(v) => ~Given(v) \/ Uuid(v)
    BY DEF IdOrNull, IfPresent, Given, Nothing
  <2>5. FieldErrors(doc) \subseteq VersionErrors(doc) \cup ContextErrors(doc)
    <3>1. CASE doc.type \in {"task", "job"}
      BY <3>1 DEF FieldErrors
    <3>2. CASE doc.type = "task_result"
      <4>1. IdErrors(doc, {"envelope_id", "receipt_id"}) = {}
        BY <2>1, <2>4, <3>2 DEF IdErrors, Derived
      <4> QED
        BY <3>2, <4>1 DEF FieldErrors
    <3>3. CASE doc.type = "job_result"
      <4>1. /\ doc.status \in {"complete", "failed", "halted"}
            /\ ~Given(doc.halt_reason) \/ doc.halt_reason \in HaltCodes
        BY <2>1, <3>3 DEF Derived, IfPresent, Given, Nothing
      <4> QED
        BY <3>3, <4>1 DEF FieldErrors
    <3>4. CASE doc.type \notin {"task", "job", "task_result", "job_result"}
      <4>1. IdErrors(doc, {"envelope_id", "job_id"}) = {}
        BY <2>1, <2>4, <3>4 DEF IdErrors, Derived
      <4> QED
        BY <3>4, <4>1 DEF FieldErrors
    <3> QED
      BY <3>1, <3>2, <3>3, <3>4
  <2> QED
    BY <2>2, <2>3, <2>5 DEF Errors
<1> QED
  BY <1>1, PTL

-----------------------------------------------------------------------------
(* What parses validates, and its dump parses again.                       *)

LEMMA BlockAccepted ==
  ASSUME NEW b \in ContentBlocks, BlockErrors(b) = {}
  PROVE  BlockDerived(b) /\ TierClauses(b)
<1>1. BlockFieldErrors(b) = {} /\ TierRule(b)
  BY DEF BlockErrors
<1>2. b.tier \in {0, 1, 2} /\ b.shadow # "irrelevant"
  BY <1>1 DEF BlockFieldErrors
<1>3. b.shadow \in {Missing, Null, "shadow"} /\ b.tier # Missing
  BY <1>2, RulesAssumption DEF ContentBlocks, Nothing
<1> QED
  BY <1>1, <1>2, <1>3, BlockLockstep DEF BlockDerived, Required, IfPresent

LEMMA BlockDumped ==
  ASSUME NEW b \in ContentBlocks
  PROVE  /\ DumpBlock(b) \in ContentBlocks
         /\ DumpBlock(DumpBlock(b)) = DumpBlock(b)
         /\ BlockErrors(b) = {} => BlockErrors(DumpBlock(b)) = {}
<1> DEFINE e == DumpBlock(b)
<1>1. /\ e \in ContentBlocks
      /\ e.tier = b.tier /\ e.content = NullFor(b.content) /\ e.shadow = NullFor(b.shadow)
  <2>1. /\ NullFor(b.content) \in Nothing \cup {"base64", "text"}
        /\ NullFor(b.shadow) \in Nothing \cup {"shadow", "irrelevant"}
    BY DEF ContentBlocks, NullFor, Nothing
  <2> QED
    BY <2>1 DEF ContentBlocks, DumpBlock
<1>2. \A v : NullFor(NullFor(v)) = NullFor(v) /\ (Given(NullFor(v)) <=> Given(v))
  BY DEF NullFor, Given, Nothing
<1> HIDE DEF e
<1>3. DumpBlock(e) = e
  <2>1. NullFor(e.content) = e.content /\ NullFor(e.shadow) = e.shadow
    BY <1>1, <1>2
  <2> QED
    BY <1>1, <2>1 DEF DumpBlock, ContentBlocks
<1>4. ASSUME BlockErrors(b) = {} PROVE BlockErrors(e) = {}
  <2>1. BlockFieldErrors(b) = {} /\ TierRule(b)
    BY <1>4 DEF BlockErrors
  <2>2. b.tier \in {0, 1, 2} /\ b.content # "text" /\ b.shadow # "irrelevant"
    BY <2>1 DEF BlockFieldErrors
  <2>3. e.tier = b.tier /\ e.content # "text" /\ e.shadow # "irrelevant"
    <3>1. e.tier = b.tier /\ e.content = NullFor(b.content) /\ e.shadow = NullFor(b.shadow)
      BY <1>1
    <3>2. Null # "text" /\ Null # "irrelevant"
      BY RulesAssumption DEF Nothing
    <3> QED
      BY <2>2, <3>1, <3>2 DEF NullFor
  <2>4. BlockFieldErrors(e) = {}
    BY <2>2, <2>3 DEF BlockFieldErrors
  <2>5. TierRule(e)
    BY <1>1, <1>2, <2>1 DEF TierRule
  <2> QED
    BY <2>4, <2>5 DEF BlockErrors
<1> QED
  BY <1>1, <1>3, <1>4 DEF e

\* A list, or nothing in its place, dumped.
LEMMA ContextDumped ==
  ASSUME NEW c \in Lists \cup {Missing}
  PROVE  /\ DumpContext(c) \in Lists /\ DumpContext(c) \notin Nothing
         /\ DumpContext(DumpContext(c)) = DumpContext(c)
         /\ \A e \in DumpContext(c) : \E b \in c : c # Missing /\ e = DumpBlock(b)
<1>1. DumpContext(c) \in Lists /\ DumpContext(c) \notin Nothing
  BY ListsAssumption, RulesAssumption
<1>2. \A e \in DumpContext(c) : \E b \in c : c # Missing /\ e = DumpBlock(b)
  BY DEF DumpContext
<1>3. \A e \in DumpContext(c) : DumpBlock(e) = e
  BY <1>2, BlockDumped, RulesAssumption
<1>4. DumpContext(c) # Missing
  BY <1>1 DEF Nothing
<1> HIDE DEF DumpContext
<1>5. {DumpBlock(e) : e \in DumpContext(c)} = DumpContext(c)
  BY <1>3
<1>6. DumpContext(DumpContext(c)) = DumpContext(c)
  BY <1>4, <1>5 DEF DumpContext
<1> QED
  BY <1>1, <1>2, <1>6

\* The kinds of documents, by their type.
LEMMA Kinds ==
  ASSUME NEW d \in Documents
  PROVE  \/ d \in Tasks /\ d.type = "task"
         \/ d \in Jobs /\ d.type = "job"
         \/ d \in TaskResults /\ d.type = "task_result"
         \/ d \in JobResults /\ d.type = "job_result"
         \/ d \in ErrorEnvelopes /\ d.type \notin {"task", "job", "task_result", "job_result"}
<1>1. Missing \notin {"task", "job", "task_result", "job_result"}
  BY RulesAssumption DEF Nothing
<1> QED
  BY <1>1 DEF Documents, Tasks, Jobs, TaskResults, JobResults, ErrorEnvelopes

LEMMA DocumentBlocks ==
  ASSUME NEW d \in Documents
  PROVE  ContextsOf(d) \subseteq Contexts /\ BlocksOf(d) \subseteq ContentBlocks
<1>1. ContextsOf(d) \subseteq Contexts
  <2>1. d \in Tasks => d.context \in Contexts
    BY DEF Tasks
  <2>2. d \in Jobs => d.steps \subseteq Contexts
    BY DEF Jobs
  <2> QED
    BY <2>1, <2>2, Kinds DEF ContextsOf
<1> QED
  BY <1>1, RulesAssumption DEF BlocksOf, Contexts

\* What the absence of errors says of every kind.
LEMMA NoErrors ==
  ASSUME NEW d, Errors(d) = {}
  PROVE  /\ d.thermocline \notin {Missing, NotText} /\ d.thermocline \in SupportedVersions
         /\ Null \notin ContextsOf(d) /\ \A b \in BlocksOf(d) : BlockErrors(b) = {}
         /\ d.type = "task_result" => /\ IdErrors(d, {"envelope_id", "receipt_id"}) = {}
                                      /\ ReceiptIdMatches(d)
         /\ d.type = "job_result" =>
              /\ d.status \in {"complete", "failed", "halted"}
              /\ Given(d.halt_reason) => d.halt_reason \in HaltCodes
              /\ StatusCoupled(d)
         /\ d.type \notin {"task", "job", "task_result", "job_result"} =>
              IdErrors(d, {"envelope_id", "job_id"}) = {}
<1>1. FieldErrors(d) = {} /\ ModelRule(d)
  BY DEF Errors
<1>2. VersionErrors(d) = {} /\ ContextErrors(d) = {}
  BY <1>1 DEF FieldErrors
<1>3. d.thermocline \notin {Missing, NotText} /\ d.thermocline \in SupportedVersions
  <2>1. "thermocline missing" \notin VersionErrors(d) /\ "thermocline type" \notin VersionErrors(d)
        /\ "thermocline" \notin VersionErrors(d)
    BY <1>2
  <2>2. CASE d.thermocline = Missing
    BY <2>1, <2>2, RulesAssumption DEF VersionErrors
  <2>3. CASE d.thermocline # Missing /\ d.thermocline = NotText
    BY <2>1, <2>3, RulesAssumption DEF VersionErrors
  <2>4. CASE d.thermocline \notin {Missing, NotText} /\ d.thermocline \notin SupportedVersions
    BY <2>1, <2>4 DEF VersionErrors
  <2> QED
    BY <2>2, <2>3, <2>4
<1>4. Null \notin ContextsOf(d) /\ \A b \in BlocksOf(d) : BlockErrors(b) = {}
  <2>1. "context" \notin ContextErrors(d) /\ \A e : e \notin ContextErrors(d)
    BY <1>2
  <2>2. Null \notin ContextsOf(d)
    <3> DEFINE bad == UNION {BlockErrors(b) : b \in BlocksOf(d)}
    <3>1. ContextErrors(d) = bad \cup (IF Null \in ContextsOf(d) THEN {"context"} ELSE {})
      BY DEF ContextErrors
    <3> HIDE DEF bad
    <3>2. Null \in ContextsOf(d) => "context" \in ContextErrors(d)
      BY <3>1
    <3> QED
      BY <2>1, <3>2
  <2>3. ASSUME NEW b \in BlocksOf(d), NEW e \in BlockErrors(b) PROVE FALSE
    BY <2>1, <2>3 DEF ContextErrors
  <2>4. \A b \in BlocksOf(d) : BlockErrors(b) = {}
    BY <2>3
  <2> QED
    BY <2>2, <2>4
<1>5. ASSUME d.type = "task_result"
      PROVE  IdErrors(d, {"envelope_id", "receipt_id"}) = {} /\ ReceiptIdMatches(d)
  BY <1>1, <1>5 DEF FieldErrors, ModelRule
<1>6. ASSUME d.type = "job_result"
      PROVE  /\ d.status \in {"complete", "failed", "halted"}
             /\ Given(d.halt_reason) => d.halt_reason \in HaltCodes
             /\ StatusCoupled(d)
  BY <1>1, <1>6 DEF FieldErrors, ModelRule
<1>7. ASSUME d.type \notin {"task", "job", "task_result", "job_result"}
      PROVE  IdErrors(d, {"envelope_id", "job_id"}) = {}
  BY <1>1, <1>7 DEF FieldErrors
<1> QED
  BY <1>3, <1>4, <1>5, <1>6, <1>7

\* parse_strict takes nothing that its schema file refuses.
LEMMA ParsedIsValid ==
  ASSUME NEW d \in Documents, Errors(d) = {}
  PROVE  SchemaValid(d)
<1>1. \A b \in BlocksOf(d) : BlockDerived(b) /\ TierClauses(b)
  BY NoErrors, DocumentBlocks, BlockAccepted
<1>2. \A v : ~Given(v) \/ Uuid(v) => IdOrNull(v)
  BY DEF Given, Nothing, IdOrNull, IfPresent
<1>3. ASSUME d.type = "task_result" PROVE Uuid(d.envelope_id) /\ IdOrNull(d.receipt_id)
  <2>1. d \in TaskResults
    BY <1>3, Kinds
  <2>2. Given(d.envelope_id)
    BY <2>1, RulesAssumption DEF TaskResults, Given
  <2>3. /\ Given(d.envelope_id) => Uuid(d.envelope_id)
        /\ Given(d.receipt_id) => Uuid(d.receipt_id)
    BY <1>3, NoErrors DEF IdErrors
  <2> QED
    BY <1>2, <2>2, <2>3
<1>4. ASSUME d.type = "job_result"
      PROVE  /\ Required(d.status) /\ d.status \in {"complete", "failed", "halted"}
             /\ IfPresent(d.halt_reason, d.halt_reason \in HaltCodes \cup {Null})
  <2>1. d.status \in {"complete", "failed", "halted"} /\ d.status # Missing
    BY <1>4, NoErrors, RulesAssumption DEF Nothing
  <2>2. Given(d.halt_reason) => d.halt_reason \in HaltCodes
    BY <1>4, NoErrors
  <2> QED
    BY <2>1, <2>2 DEF Required, IfPresent, Given, Nothing
<1>5. ASSUME d.type \notin {"task", "job", "task_result", "job_result"}
      PROVE  IdOrNull(d.envelope_id) /\ IdOrNull(d.job_id)
  <2>1. /\ Given(d.envelope_id) => Uuid(d.envelope_id)
        /\ Given(d.job_id) => Uuid(d.job_id)
    BY <1>5, NoErrors DEF IdErrors
  <2> QED
    BY <1>2, <2>1
<1>6. Required(d.thermocline) /\ d.thermocline # NotText /\ Null \notin ContextsOf(d)
  BY NoErrors DEF Required
<1>7. Derived(d)
  BY <1>1, <1>3, <1>4, <1>5, <1>6, Kinds DEF Derived
<1> QED
  BY <1>1, <1>7 DEF SchemaValid, Injected

\* The contexts and blocks of a dump are those of the document, dumped.
LEMMA DumpedBlocks ==
  ASSUME NEW contexts \in SUBSET (Lists \cup {Missing}),
         \A b \in UNION (contexts \ Nothing) : BlockErrors(b) = {}
  PROVE  LET dumped == {DumpContext(c) : c \in contexts}
         IN  /\ dumped \in SUBSET Lists /\ Null \notin dumped
             /\ \A e \in UNION (dumped \ Nothing) : BlockErrors(e) = {}
             /\ {DumpContext(c) : c \in dumped} = dumped
<1> DEFINE dumped == {DumpContext(c) : c \in contexts}
<1>1. /\ \A c \in contexts : /\ DumpContext(c) \in Lists /\ DumpContext(c) \notin Nothing
                             /\ DumpContext(DumpContext(c)) = DumpContext(c)
  BY ContextDumped
<1>2. dumped \in SUBSET Lists /\ Null \notin dumped
  BY <1>1 DEF Nothing
<1>3. {DumpContext(c) : c \in dumped} = dumped
  BY <1>1
<1>4. ASSUME NEW e \in UNION (dumped \ Nothing) PROVE BlockErrors(e) = {}
  <2>1. PICK c \in contexts : e \in DumpContext(c)
    OBVIOUS
  <2>2. PICK b \in c : c # Missing /\ e = DumpBlock(b)
    BY <2>1, ContextDumped
  <2>3. c \in Lists /\ c \notin Nothing
    BY <2>2, RulesAssumption
  <2>4. b \in ContentBlocks /\ BlockErrors(b) = {}
    BY <2>2, <2>3, RulesAssumption
  <2> QED
    BY <2>2, <2>4, BlockDumped
<1> QED
  BY <1>2, <1>3, <1>4

\* A document without errors, by the parts that Errors looks at.
LEMMA ErrorsAbsent ==
  ASSUME NEW d, d.thermocline \in SupportedVersions, Null \notin ContextsOf(d),
         \A b \in BlocksOf(d) : BlockErrors(b) = {},
         d.type = "task_result" => /\ IdErrors(d, {"envelope_id", "receipt_id"}) = {}
                                  /\ ReceiptIdMatches(d),
         d.type = "job_result" =>
           /\ d.status \in {"complete", "failed", "halted"}
           /\ Given(d.halt_reason) => d.halt_reason \in HaltCodes
           /\ StatusCoupled(d),
         d.type \notin {"task", "job", "task_result", "job_result"} =>
           IdErrors(d, {"envelope_id", "job_id"}) = {}
  PROVE  Errors(d) = {}
<1>1. VersionErrors(d) = {}
  BY RulesAssumption DEF VersionErrors
<1>2. ContextErrors(d) = {}
  BY DEF ContextErrors
<1>3. CASE d.type \in {"task", "job"}
  BY <1>1, <1>2, <1>3 DEF Errors, FieldErrors, ModelRule
<1>4. CASE d.type = "task_result"
  BY <1>1, <1>2, <1>4 DEF Errors, FieldErrors, ModelRule
<1>5. CASE d.type = "job_result"
  BY <1>1, <1>2, <1>5 DEF Errors, FieldErrors, ModelRule
<1>6. CASE d.type \notin {"task", "job", "task_result", "job_result"}
  BY <1>1, <1>2, <1>6 DEF Errors, FieldErrors, ModelRule
<1> QED
  BY <1>3, <1>4, <1>5, <1>6

\* A dump is what parses again, to the same document.
Settles(d) == Dump(d) \in Documents /\ Errors(Dump(d)) = {} /\ Dump(Dump(d)) = Dump(d)

LEMMA TaskSettles ==
  ASSUME NEW d \in Tasks, Errors(d) = {}
  PROVE  Settles(d)
<1> DEFINE e == Dump(d)
<1>1. d.type = "task" /\ ContextsOf(d) = {d.context} /\ d.context \in Contexts
  BY DEF Tasks, ContextsOf
<1>2. /\ d.thermocline \in SupportedVersions /\ d.context # Null
      /\ \A b \in UNION ({d.context} \ Nothing) : BlockErrors(b) = {}
  BY <1>1, NoErrors DEF BlocksOf
<1>3. d.context \in Lists \cup {Missing}
  BY <1>1, <1>2 DEF Contexts, Nothing
<1>4. DumpContext(d.context) \in Lists /\ DumpContext(DumpContext(d.context)) = DumpContext(d.context)
  BY <1>3, ContextDumped
<1>5. /\ Null # DumpContext(d.context)
      /\ \A b \in UNION ({DumpContext(d.context)} \ Nothing) : BlockErrors(b) = {}
  <2>1. {DumpContext(c) : c \in {d.context}} = {DumpContext(d.context)}
    OBVIOUS
  <2>2. {d.context} \in SUBSET (Lists \cup {Missing})
    BY <1>3
  <2>3. LET dumped == {DumpContext(c) : c \in {d.context}}
        IN  Null \notin dumped /\ \A b \in UNION (dumped \ Nothing) : BlockErrors(b) = {}
    BY <1>2, <2>2, DumpedBlocks
  <2>4. /\ Null \notin {DumpContext(d.context)}
        /\ \A b \in UNION ({DumpContext(d.context)} \ Nothing) : BlockErrors(b) = {}
    BY <2>1, <2>3
  <2> QED
    BY <2>4
<1>6. e = [d EXCEPT !.context = DumpContext(@)]
  BY <1>1 DEF Dump
<1> HIDE DEF e
<1>7. /\ e \in Tasks /\ e.type = "task" /\ e.thermocline = d.thermocline
      /\ e.context = DumpContext(d.context)
  BY <1>1, <1>4, <1>6 DEF Tasks, Contexts
<1>8. Errors(e) = {}
  <2>1. ContextsOf(e) = {e.context}
    BY <1>7 DEF ContextsOf
  <2> QED
    BY <1>2, <1>5, <1>7, <2>1, ErrorsAbsent DEF BlocksOf
<1>9. Dump(e) = e
  <2>1. Dump(e) = [e EXCEPT !.context = DumpContext(@)]
    BY <1>7 DEF Dump
  <2> QED
    BY <1>4, <1>7, <2>1 DEF Tasks
<1> QED
  BY <1>7, <1>8, <1>9 DEF Settles, e, Documents

LEMMA JobSettles ==
  ASSUME NEW d \in Jobs, Errors(d) = {}
  PROVE  Settles(d)
<1> DEFINE e == Dump(d)
           dumped == {DumpContext(c) : c \in d.steps}
<1>1. d.type = "job" /\ ContextsOf(d) = d.steps /\ d.steps \in SUBSET Contexts
  BY DEF Jobs, ContextsOf
<1>2. /\ d.thermocline \in SupportedVersions /\ Null \notin d.steps
      /\ \A b \in UNION (d.steps \ Nothing) : BlockErrors(b) = {}
  BY <1>1, NoErrors DEF BlocksOf
<1>3. d.steps \in SUBSET (Lists \cup {Missing})
  BY <1>1, <1>2 DEF Contexts, Nothing
<1>4. /\ dumped \in SUBSET Lists /\ Null \notin dumped
      /\ \A b \in UNION (dumped \ Nothing) : BlockErrors(b) = {}
      /\ {DumpContext(c) : c \in dumped} = dumped
  BY <1>2, <1>3, DumpedBlocks
<1>5. e = [d EXCEPT !.steps = dumped]
  BY <1>1 DEF Dump
<1> HIDE DEF e, dumped
<1>6. /\ e \in Jobs /\ e.type = "job" /\ e.thermocline = d.thermocline /\ e.steps = dumped
  BY <1>1, <1>4, <1>5 DEF Jobs, Contexts
<1>7. Errors(e) = {}
  <2>1. ContextsOf(e) = dumped
    BY <1>6 DEF ContextsOf
  <2> QED
    BY <1>2, <1>4, <1>6, <2>1, ErrorsAbsent DEF BlocksOf
<1>8. Dump(e) = e
  <2>1. Dump(e) = [e EXCEPT !.steps = {DumpContext(c) : c \in e.steps}]
    BY <1>6 DEF Dump
  <2>2. {DumpContext(c) : c \in e.steps} = e.steps
    BY <1>4, <1>6
  <2> QED
    BY <1>6, <2>1, <2>2 DEF Jobs
<1> QED
  BY <1>6, <1>7, <1>8 DEF Settles, e, Documents

LEMMA NullForParts ==
  ASSUME NEW v
  PROVE  /\ NullFor(v) = v \/ (v \in Nothing /\ NullFor(v) \in Nothing)
         /\ NullFor(NullFor(v)) = NullFor(v) /\ (Given(NullFor(v)) <=> Given(v))
<1>1. CASE v = Missing
  BY <1>1, RulesAssumption DEF NullFor, Given, Nothing
<1>2. CASE v # Missing
  <2>1. NullFor(v) = v
    BY <1>2 DEF NullFor
  <2>2. NullFor(NullFor(v)) = NullFor(v)
    BY <2>1
  <2> QED
    BY <2>1, <2>2 DEF Given
<1> QED
  BY <1>1, <1>2

LEMMA TaskResultSettles ==
  ASSUME NEW d \in TaskResults, Errors(d) = {}
  PROVE  Settles(d)
<1> DEFINE e == Dump(d)
<1>1. d.type = "task_result"
  BY DEF TaskResults
<1>2. /\ d.thermocline \in SupportedVersions
      /\ IdErrors(d, {"envelope_id", "receipt_id"}) = {} /\ ReceiptIdMatches(d)
  BY <1>1, NoErrors
<1>3. e = [d EXCEPT !.receipt_id = NullFor(@)]
  BY <1>1 DEF Dump
<1>4. NullFor(d.receipt_id) \in Nothing \cup {"id1", "id2", "not a uuid"}
  BY NullForParts DEF TaskResults
<1> HIDE DEF e
<1>5. /\ e \in TaskResults /\ e.type = "task_result" /\ e.thermocline = d.thermocline
      /\ e.envelope_id = d.envelope_id /\ e.receipt_id = NullFor(d.receipt_id)
  BY <1>1, <1>3, <1>4 DEF TaskResults
<1>6. Errors(e) = {}
  <2>1. IdErrors(e, {"envelope_id", "receipt_id"}) = {} /\ ReceiptIdMatches(e)
    <3>1. /\ Given(d.envelope_id) => Uuid(d.envelope_id)
          /\ Given(d.receipt_id) => Uuid(d.receipt_id)
          /\ Given(d.receipt_id) => d.receipt_id = d.envelope_id
      BY <1>2 DEF IdErrors, ReceiptIdMatches
    <3>2. Given(e.receipt_id) => Given(d.receipt_id) /\ e.receipt_id = d.receipt_id
      BY <1>5, NullForParts DEF Given
    <3> QED
      BY <1>5, <3>1, <3>2 DEF IdErrors, ReceiptIdMatches
  <2>2. ContextsOf(e) = {} /\ BlocksOf(e) = {}
    BY <1>5 DEF ContextsOf, BlocksOf
  <2> QED
    BY <1>2, <1>5, <2>1, <2>2, ErrorsAbsent
<1>7. Dump(e) = e
  <2>1. Dump(e) = [e EXCEPT !.receipt_id = NullFor(e.receipt_id)]
    BY <1>5 DEF Dump
  <2>2. NullFor(e.receipt_id) = e.receipt_id
    BY <1>5, NullForParts
  <2> QED
    BY <1>5, <2>1, <2>2 DEF TaskResults
<1> QED
  BY <1>5, <1>6, <1>7 DEF Settles, e, Documents

LEMMA JobResultSettles ==
  ASSUME NEW d \in JobResults, Errors(d) = {}
  PROVE  Settles(d)
<1> DEFINE e == Dump(d)
<1>1. d.type = "job_result"
  BY DEF JobResults
<1>2. /\ d.thermocline \in SupportedVersions /\ d.status \in {"complete", "failed", "halted"}
      /\ Given(d.halt_reason) => d.halt_reason \in HaltCodes
      /\ StatusCoupled(d)
  BY <1>1, NoErrors
<1>3. e = [d EXCEPT !.halt_reason = NullFor(@), !.artifact = NullFor(@)]
  BY <1>1 DEF Dump
<1>4. /\ NullFor(d.halt_reason) \in Nothing \cup {"TIMEOUT", "LUNCH"}
      /\ NullFor(d.artifact) \in Nothing \cup {"artifact"}
  BY NullForParts DEF JobResults
<1> HIDE DEF e
<1>5. /\ e \in JobResults /\ e.type = "job_result" /\ e.thermocline = d.thermocline
      /\ e.status = d.status /\ e.halt_reason = NullFor(d.halt_reason)
      /\ e.artifact = NullFor(d.artifact)
  BY <1>1, <1>3, <1>4 DEF JobResults
<1>6. Errors(e) = {}
  <2>1. /\ Given(e.halt_reason) <=> Given(d.halt_reason)
        /\ Given(e.artifact) <=> Given(d.artifact)
        /\ Given(e.halt_reason) => e.halt_reason = d.halt_reason
    BY <1>5, NullForParts DEF Given
  <2>2. StatusCoupled(e)
    BY <1>2, <1>5, <2>1 DEF StatusCoupled
  <2>3. ContextsOf(e) = {} /\ BlocksOf(e) = {}
    BY <1>5 DEF ContextsOf, BlocksOf
  <2> QED
    BY <1>2, <1>5, <2>1, <2>2, <2>3, ErrorsAbsent
<1>7. Dump(e) = e
  <2>1. Dump(e) = [e EXCEPT !.halt_reason = NullFor(e.halt_reason), !.artifact = NullFor(e.artifact)]
    BY <1>5 DEF Dump
  <2>2. NullFor(e.halt_reason) = e.halt_reason /\ NullFor(e.artifact) = e.artifact
    BY <1>5, NullForParts
  <2> QED
    BY <1>5, <2>1, <2>2 DEF JobResults
<1> QED
  BY <1>5, <1>6, <1>7 DEF Settles, e, Documents

LEMMA ErrorEnvelopeSettles ==
  ASSUME NEW d \in ErrorEnvelopes, Errors(d) = {}
  PROVE  Settles(d)
<1> DEFINE e == Dump(d)
<1>1. d.type \notin {"task", "job", "task_result", "job_result"}
  BY Kinds, RulesAssumption DEF ErrorEnvelopes, Nothing
<1>2. /\ d.thermocline \in SupportedVersions
      /\ IdErrors(d, {"envelope_id", "job_id"}) = {}
  BY <1>1, NoErrors
<1>3. e = [d EXCEPT !.type = TypeWritten(@), !.envelope_id = NullFor(@), !.job_id = NullFor(@)]
  BY <1>1 DEF Dump
<1>4. /\ NullFor(d.envelope_id) \in Nothing \cup {"id1", "not a uuid"}
      /\ NullFor(d.job_id) \in Nothing \cup {"id1", "not a uuid"}
      /\ TypeWritten(d.type) \in {"task_error", "job_error"}
  BY NullForParts DEF ErrorEnvelopes, TypeWritten
<1> HIDE DEF e
<1>5. /\ e \in ErrorEnvelopes /\ e.type \in {"task_error", "job_error"}
      /\ e.thermocline = d.thermocline
      /\ e.envelope_id = NullFor(d.envelope_id) /\ e.job_id = NullFor(d.job_id)
  BY <1>1, <1>3, <1>4 DEF ErrorEnvelopes
<1>6. Errors(e) = {}
  <2>1. /\ Given(d.envelope_id) => Uuid(d.envelope_id)
        /\ Given(d.job_id) => Uuid(d.job_id)
    BY <1>2 DEF IdErrors
  <2>2. /\ Given(e.envelope_id) => Given(d.envelope_id) /\ e.envelope_id = d.envelope_id
        /\ Given(e.job_id) => Given(d.job_id) /\ e.job_id = d.job_id
    BY <1>5, NullForParts DEF Given
  <2>3. IdErrors(e, {"envelope_id", "job_id"}) = {}
    BY <2>1, <2>2 DEF IdErrors
  <2>4. ContextsOf(e) = {} /\ BlocksOf(e) = {}
    BY <1>5 DEF ContextsOf, BlocksOf
  <2> QED
    BY <1>2, <1>5, <2>3, <2>4, ErrorsAbsent
<1>7. Dump(e) = e
  <2>1. Dump(e) = [e EXCEPT !.type = TypeWritten(e.type), !.envelope_id = NullFor(e.envelope_id),
                            !.job_id = NullFor(e.job_id)]
    BY <1>5 DEF Dump
  <2>2. NullFor(e.envelope_id) = e.envelope_id /\ NullFor(e.job_id) = e.job_id
    BY <1>5, NullForParts
  <2>3. TypeWritten(e.type) = e.type
    BY <1>5, RulesAssumption DEF TypeWritten, Nothing
  <2> QED
    BY <1>5, <2>1, <2>2, <2>3 DEF ErrorEnvelopes
<1> QED
  BY <1>5, <1>6, <1>7 DEF Settles, e, Documents

LEMMA DocumentSettles ==
  ASSUME NEW d \in Documents, Errors(d) = {}
  PROVE  Settles(d)
<1>1. d \in Tasks \cup Jobs \cup TaskResults \cup JobResults \cup ErrorEnvelopes
  BY DEF Documents
<1> QED
  BY <1>1, TaskSettles, JobSettles, TaskResultSettles, JobResultSettles, ErrorEnvelopeSettles

LEMMA ParsedIsErrorFree == ASSUME NEW d PROVE Parse(d) = "parsed" <=> Errors(d) = {}
BY DEF Parse

\* TypeOK holds: what arrives and what is dumped are documents.
THEOREM DocumentsTyped == Spec => []TypeOK
<1>1. Init => TypeOK
  BY DEF Init, TypeOK
<1>2. TypeOK /\ [Next]_doc => TypeOK'
  <2> SUFFICES ASSUME TypeOK, [Next]_doc PROVE TypeOK'
    OBVIOUS
  <2>1. CASE Receive
    BY <2>1, RulesAssumption DEF Receive, TypeOK
  <2>2. CASE Redump
    BY <2>2, DocumentSettles, ParsedIsErrorFree DEF Redump, TypeOK, Settles
  <2>3. CASE Discard
    BY <2>3 DEF Discard, TypeOK
  <2>4. CASE UNCHANGED doc
    BY <2>4 DEF TypeOK
  <2> QED
    BY <2>1, <2>2, <2>3, <2>4 DEF Next
<1> QED
  BY <1>1, <1>2, PTL DEF Spec

(***************************************************************************)
(* DumpsAreAccepted holds: whatever parses validates against its schema    *)
(* file, its dump does too, parses again and is its own dump.              *)
(***************************************************************************)
THEOREM DumpsRoundTrip == Spec => []DumpsAreAccepted
<1>1. TypeOK => DumpsAreAccepted
  <2> SUFFICES ASSUME TypeOK, doc # NoDocument, Parse(doc) = "parsed"
               PROVE  /\ SchemaValid(doc) /\ SchemaValid(Dump(doc))
                      /\ Parse(Dump(doc)) = "parsed"
                      /\ Dump(Dump(doc)) = Dump(doc)
    BY DEF DumpsAreAccepted
  <2>1. doc \in Documents /\ Errors(doc) = {}
    BY ParsedIsErrorFree DEF TypeOK
  <2>2. Settles(doc)
    BY <2>1, DocumentSettles
  <2> QED
    BY <2>1, <2>2, ParsedIsValid, ParsedIsErrorFree DEF Settles
<1> QED
  BY <1>1, DocumentsTyped, PTL
=============================================================================
