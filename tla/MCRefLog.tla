------------------------------ MODULE MCRefLog ------------------------------
(* Instances of RefLog for TLC. *)
EXTENDS RefLog

\* The batches of the session's own flows: a write (commit edge and head in one
\* append), a merge's second parent, a rewind, a new branch, and the removals
\* and tags of the edit language.
MCBatches ==
  LET c1 == 1  c2 == 2 IN
  { <<RecordCommit(c1, {RootCommit}), SetHead(Main, c1)>>,
    <<RecordCommit(c2, {c1}), SetHead(Main, c2)>>,
    <<AddParent(c2, RootCommit)>>,
    <<SetHead(Main, RootCommit)>>,
    <<CreateBranch("s", c1)>>,
    <<RemoveBranch("s"), SetTag("v1", c1)>>,
    <<RemoveTag("v1")>> }

MCLegacy == {Rooted(Main, 1)}
=============================================================================
