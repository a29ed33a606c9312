------------------------------ MODULE RefStore ------------------------------
(***************************************************************************)
(* What a RefStore promises the session (trait RefStore, refs.rs): refs    *)
(* change only by the edits of one apply() call, in order; a call that     *)
(* returns Ok applied all of them; a call cut short by a crash or an I/O   *)
(* error applied a prefix.  MemRefStore is this specification read         *)
(* literally; FileRefStore is module RefLog, which must implement it.      *)
(***************************************************************************)
EXTENDS Refs

CONSTANT Batches    \* the edit sequences the session may hand to apply()

VARIABLES
  refs,    \* the refs load() would return
  call     \* the edits of the apply() call under way, << >> when there is none

storeVars == <<refs, call>>

StoreInit ==
  /\ refs \in RefsType
  /\ call = << >>

\* apply(edits) is called.
Call(edits) ==
  /\ call = << >>
  /\ call' = edits
  /\ UNCHANGED refs

\* apply() returns Ok.
Return ==
  /\ call # << >>
  /\ refs' = ApplyEdits(refs, call)
  /\ call' = << >>

\* The machine stops, or the append fails, after k of the edits.
CutShort(k) ==
  /\ call # << >>
  /\ refs' = ApplyEdits(refs, SubSeq(call, 1, k))
  /\ call' = << >>

StoreNext ==
  \/ \E edits \in Batches : Call(edits)
  \/ Return
  \/ \E k \in 0 .. Len(call) : CutShort(k)

StoreSpec == StoreInit /\ [][StoreNext]_storeVars
=============================================================================
