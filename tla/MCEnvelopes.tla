---------------------------- MODULE MCEnvelopes ----------------------------
(***************************************************************************)
(* An instance of EnvelopeRules: every block alone, and every block next   *)
(* to a good one, in a task, in a step, and in the step after a good one.  *)
(***************************************************************************)
EXTENDS EnvelopeRules

GoodBlock == [tier |-> 2, content |-> "base64", shadow |-> Missing]

FewLists ==
  {{}} \cup {{b} : b \in ContentBlocks} \cup {{b, GoodBlock} : b \in ContentBlocks}
FewContexts == Nothing \cup FewLists

MCLists == FewLists \cup {DumpContext(c) : c \in FewLists}

MCReceived ==
  TaskResults \cup JobResults \cup ErrorEnvelopes
    \cup [type : {"task"}, thermocline : Versions, context : FewContexts]
    \cup [type : {"job"}, thermocline : Versions,
          steps : {{}} \cup {{c} : c \in FewContexts} \cup {{c, {GoodBlock}} : c \in FewContexts}]
=============================================================================
