----------------------------- MODULE TrustRoots -----------------------------
(***************************************************************************)
(* The trust-root register of crates/loom-keys as a value: what makes one  *)
(* valid, the steps of a rotation, each of which makes a new register, and *)
(* what a verifier asks of the one it holds.                               *)
(*                                                                         *)
(* A key stands for its id in its role, and is registered under one public *)
(* half.                                                                   *)
(***************************************************************************)
EXTENDS Naturals, FiniteSets

CONSTANTS
  Keys, Roles,
  RoleOf,            \* RoleOf[k]: the role the key id is registered in
  BackendOf,         \* BackendOf[k]: "software" or "aws-kms"
  Ceremonies,        \* the sets of approvers a ceremony may record
  Updates,           \* what an artifact may say it is: its id, kind and version
  Null

Statuses == {"pending", "active", "retired", "revoked"}

\* TrustRoot.  The reason of a revocation is recorded with the status.
TrustRoots == [status : Statuses, generation : Nat, approvers : Ceremonies]

\* TrustRootRegister: the root of each key, or Null.
Registers == [Keys -> TrustRoots \cup {Null}]

\* An artifact: the key that signed it, what its signed manifest says it is, and
\* whether its payload is still the one the manifest commits to.
Artifacts == [key : Keys, about : Updates, vouched : BOOLEAN, intact : BOOLEAN]

-----------------------------------------------------------------------------

\* KeyStatus::verifies, KeyStatus::signs.
Verifies(root) == root.status \in {"active", "retired"}
Signs(root)    == root.status = "active"

\* dual_control_satisfied: two distinct approvers.
DualControl(root) == Cardinality(root.approvers) >= 2

Registered(reg) == {k \in Keys : reg[k] # Null}
InRole(reg, r)  == {k \in Registered(reg) : RoleOf[k] = r}

\* Everything that must be true of a register before anything trusts it.
Validate(reg) ==
  /\ Registered(reg) # {}
  /\ \A k \in Registered(reg) :
        reg[k].status \in {"active", "revoked"} => DualControl(reg[k])
  /\ \A r \in Roles : \A j, k \in InRole(reg, r) :
        Signs(reg[j]) /\ Signs(reg[k]) => j = k

\* KeyDirectory::trusted and signing_root: who verifies for the role, who signs.
Trusted(reg, r)      == {k \in InRole(reg, r) : Verifies(reg[k])}
SigningRoots(reg, r) == {k \in InRole(reg, r) : Signs(reg[k])}

\* A role in which some key got past staging still has one that verifies.
Unsealed(reg, r) ==
  (\E k \in InRole(reg, r) : reg[k].status # "pending") => Trusted(reg, r) # {}

ASSUME TrustRootsAssumption ==
  /\ RoleOf \in [Keys -> Roles]
  /\ BackendOf \in [Keys -> {"software", "aws-kms"}]
  /\ Null \notin TrustRoots /\ Null \notin Registers /\ Null \notin Artifacts

-----------------------------------------------------------------------------
(* Rotation: each step makes a new register, which must validate.           *)

\* The generations already given out in the role.
Highest(reg, r, g) == \A k \in InRole(reg, r) : reg[k].generation < g

Expandable(reg, k, g) == reg[k] = Null /\ Highest(reg, RoleOf[k], g)

Expanded(reg, k, g, approvers) ==
  [reg EXCEPT ![k] = [status |-> "pending", generation |-> g, approvers |-> approvers]]

\* Mutant: any key with a ceremony can be promoted.
ActivatableAgain(reg, k) ==
  /\ reg[k] # Null /\ DualControl(reg[k])
  /\ \A j \in InRole(reg, RoleOf[k]) : Signs(reg[j]) => reg[j].generation < reg[k].generation

Activatable(reg, k) ==
  /\ reg[k] # Null /\ reg[k].status = "pending" /\ DualControl(reg[k])
  /\ \A j \in InRole(reg, RoleOf[k]) :
        Signs(reg[j]) => reg[j].generation < reg[k].generation

\* Mutant: the key it supersedes is revoked with it.
ActivatedHarshly(reg, k) ==
  [j \in Keys |->
     IF j = k THEN [reg[j] EXCEPT !.status = "active"]
     ELSE IF j \in InRole(reg, RoleOf[k]) /\ Signs(reg[j]) THEN [reg[j] EXCEPT !.status = "revoked"]
     ELSE reg[j]]

\* The key signs, and the one that did before only verifies.
Activated(reg, k) ==
  [j \in Keys |->
     IF j = k THEN [reg[j] EXCEPT !.status = "active"]
     ELSE IF j \in InRole(reg, RoleOf[k]) /\ Signs(reg[j]) THEN [reg[j] EXCEPT !.status = "retired"]
     ELSE reg[j]]

Retirable(reg, k) == reg[k] # Null /\ Signs(reg[k])

Retired(reg, k) == [reg EXCEPT ![k].status = "retired"]

\* The keys that would still verify for the role.
Survivors(reg, k) == {j \in InRole(reg, RoleOf[k]) : j # k /\ Verifies(reg[j])}

\* Mutant: staged keys count as survivors.
RevocableLoose(reg, k, allow_seal) ==
  /\ reg[k] # Null /\ reg[k].status # "revoked" /\ DualControl(reg[k])
  /\ InRole(reg, RoleOf[k]) # {k} \/ allow_seal

Revocable(reg, k, allow_seal) ==
  /\ reg[k] # Null /\ reg[k].status # "revoked" /\ DualControl(reg[k])
  /\ Survivors(reg, k) # {} \/ allow_seal

Revoked(reg, k) == [reg EXCEPT ![k].status = "revoked"]

-----------------------------------------------------------------------------
(* What a verifier asks of the register it holds.                           *)

\* resolve: the key id an artifact names is one that may verify for the role.
Resolves(reg, r, k) == k \in Trusted(reg, r)

\* verify, of an artifact that names its key, as the signature of a backup does.
VerifyNamed(reg, r, a) == Resolves(reg, r, a.key) /\ a.intact

\* Mutant: whatever is registered is offered.
VerifyAnyKnown(reg, r, a) == \E k \in InRole(reg, r) : a.key = k

\* verify_any, of an artifact that does not: some trusted key verifies it.
VerifyAny(reg, r, a) == \E k \in Trusted(reg, r) : a.key = k

\* require_claim: it is the artifact that was approved.
RequireClaim(a, required) == a.about = required

\* Bundle::verify_with_directory: who signed it, then what it is.
VerifyWithDirectory(reg, r, a, required) ==
  VerifyAny(reg, r, a) /\ a.intact /\ RequireClaim(a, required)

\* from_file and for_root: a signer is made of a root that signs, by its backend.
\* (from_key, which drills and tests use, does not ask whether the root signs.)
SoftwareSigner(reg, k) == BackendOf[k] = "software" /\ k \in Registered(reg) /\ Signs(reg[k])
KmsSigner(reg, k)      == BackendOf[k] = "aws-kms"  /\ k \in Registered(reg) /\ Signs(reg[k])

\* Bundle::create.
Signed(k, u, vouched) == [key |-> k, about |-> u, vouched |-> vouched, intact |-> TRUE]
=============================================================================
