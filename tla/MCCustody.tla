----------------------------- MODULE MCCustody -----------------------------
(* Instances of Custody for TLC. *)
EXTENDS Custody, TLC

CONSTANTS k1, k2, k3, release, backup, p1, p2

MCRoleOf == [k \in Keys |-> IF k = k3 THEN backup ELSE release]

MCBackendOf == [k \in Keys |-> IF k = k2 THEN "aws-kms" ELSE "software"]

Root(status, g) == [status |-> status, generation |-> g, approvers |-> {p1, p2}]

\* One signer in the one role, and in the other none yet.
MCInitialRegisters == {[k \in Keys |-> IF k = k1 THEN Root("active", 1) ELSE Null]}

Symmetry == Permutations(Operators)
=============================================================================
