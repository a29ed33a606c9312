------------------------------ MODULE MCCopies ------------------------------
(* Instances of Copies for TLC. *)
EXTENDS Copies, TLC

Symmetry == Permutations(Names)

\* Once the last backup is over nothing reads the store any more: what it does
\* then is left out.
StoreRests == started = MaxBackups /\ backup = Idle => UNCHANGED <<store, owner>>
=============================================================================
