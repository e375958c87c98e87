----------------------------- MODULE MCExchange -----------------------------
(***************************************************************************)
(* Instances of SignedExchange: what callers sign and send.                *)
(***************************************************************************)
EXTENDS SignedExchange, TLC

CONSTANTS sovereign, forge, k1, k2, k3, c1, c2

MCSymmetry == Permutations(Keys)

Block(at, schemes, nodes) ==
  [at : at, scheme : schemes, node : nodes, sig : {Empty}]

NoBlock == Block({"none"}, {Missing}, {Missing})

\* A well-formed task, written the short way, and the result it leads to.
PlainDrafts ==
  [type : {"task"}, content : {c1}, shape : {"sparse"},
   block : Block({"dispatch_signature"}, {"brine"}, {sovereign})]
  \cup
  [type : {"task_result"}, content : {c1}, shape : {"dumped"},
   block : Block({"receipt_signature"}, {"brine"}, {forge})]

\* Tasks with one thing unusual about them: the type and the place of the block,
\* the shape and the content, or the scheme or the node the block declares.
OddDrafts ==
  [type : {"task", "task_error", "untyped"}, content : {c1}, shape : {"sparse"},
   block : NoBlock \cup
     Block({"dispatch_signature", "receipt_signature", "top level"}, {"brine"}, {sovereign})]
  \cup
  [type : {"task"}, content : Contents, shape : {"sparse", "version", "invalid"},
   block : Block({"dispatch_signature"}, {"brine"}, {sovereign})]
  \cup
  [type : {"task"}, content : {c1}, shape : {"sparse"},
   block : Block({"dispatch_signature"}, {"brine", "none", "pgp", "unrecognised", Missing},
                 {sovereign})
           \cup Block({"dispatch_signature"}, {"brine"}, {forge, Missing})]
=============================================================================
