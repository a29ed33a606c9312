--------------------------- MODULE CustodyProofs ---------------------------
(***************************************************************************)
(* Proofs about Custody, for any keys, roles, ceremonies, operators and    *)
(* verifiers: the types of its state, and that no rotation, however its    *)
(* commands overlap or are cut short, takes the last key that verifies     *)
(* from a role without having been told to; and that, as long as no        *)
(* command published over another, a revocation holds, what was signed     *)
(* goes on verifying, and a key is staged before it verifies.              *)
(***************************************************************************)
EXTENDS Custody, TLAPS

USE DEF Contents

-----------------------------------------------------------------------------
(* The steps of a rotation make registers.                                  *)

\* Staging, promoting, retiring and revoking a key of a register make a register
\* again (rotation.rs: expand, activate, retire, revoke).
LEMMA RotationMakesRegisters ==
  ASSUME NEW reg \in Registers, NEW k \in Keys
  PROVE  /\ \A g \in Nat, approvers \in Ceremonies : Expanded(reg, k, g, approvers) \in Registers
         /\ reg[k] # Null => Activated(reg, k) \in Registers
         /\ reg[k] # Null => Retired(reg, k) \in Registers
         /\ reg[k] # Null => Revoked(reg, k) \in Registers
<1>1. reg \in [Keys -> TrustRoots \cup {Null}]
  BY DEF Registers
<1>2. \A g \in Nat, approvers \in Ceremonies : Expanded(reg, k, g, approvers) \in Registers
  BY <1>1 DEF Expanded, Registers, TrustRoots, Statuses
<1>3. ASSUME NEW j \in Keys, reg[j] # Null, NEW s \in Statuses
      PROVE  [reg[j] EXCEPT !.status = s] \in TrustRoots
  BY <1>1, <1>3 DEF TrustRoots
<1>4. ASSUME reg[k] # Null
      PROVE  Activated(reg, k) \in Registers
  <2>1. ASSUME NEW j \in Keys
        PROVE  Activated(reg, k)[j] \in TrustRoots \cup {Null}
    <3>1. CASE j = k
      <4>1. Activated(reg, k)[j] = [reg[j] EXCEPT !.status = "active"]
        BY <3>1 DEF Activated
      <4> QED  BY <1>3, <1>4, <3>1, <4>1 DEF Statuses
    <3>2. CASE j # k /\ j \in InRole(reg, RoleOf[k]) /\ Signs(reg[j])
      <4>1. Activated(reg, k)[j] = [reg[j] EXCEPT !.status = "retired"]
        BY <3>2 DEF Activated
      <4>2. reg[j] # Null
        BY <3>2 DEF InRole, Registered
      <4> QED  BY <1>3, <4>1, <4>2 DEF Statuses
    <3>3. CASE j # k /\ ~(j \in InRole(reg, RoleOf[k]) /\ Signs(reg[j]))
      <4>1. Activated(reg, k)[j] = reg[j]
        BY <3>3 DEF Activated
      <4> QED  BY <1>1, <4>1
    <3> QED  BY <3>1, <3>2, <3>3
  <2>2. Activated(reg, k) = [j \in Keys |-> Activated(reg, k)[j]]
    BY DEF Activated
  <2> QED  BY <2>1, <2>2 DEF Registers
<1>5. ASSUME reg[k] # Null
      PROVE  Retired(reg, k) \in Registers /\ Revoked(reg, k) \in Registers
  BY <1>1, <1>3, <1>5 DEF Retired, Revoked, Registers, Statuses
<1> QED  BY <1>2, <1>4, <1>5

-----------------------------------------------------------------------------
(* They seal no role.                                                       *)

\* A role that has a key that verifies, or none past staging, still does after a
\* key is staged.
LEMMA ExpandedUnsealed ==
  ASSUME NEW reg \in Registers, NEW k \in Keys, NEW g \in Nat, NEW approvers \in Ceremonies,
         NEW r \in Roles, Expandable(reg, k, g), Unsealed(reg, r)
  PROVE  Unsealed(Expanded(reg, k, g, approvers), r)
<1> DEFINE new == Expanded(reg, k, g, approvers)
<1>1. \A j \in Keys : j # k => new[j] = reg[j]
  BY DEF Expanded, Registers
<1>2. reg[k] = Null
  BY DEF Expandable
<1>3. new[k].status = "pending"
  BY DEF Expanded, Registers
<1>4. ASSUME NEW j \in InRole(new, r), new[j].status # "pending"
      PROVE  Trusted(new, r) # {}
  <2>1. j # k /\ j \in InRole(reg, r) /\ reg[j].status # "pending"
    BY <1>1, <1>3, <1>4 DEF InRole, Registered
  <2>2. PICK i \in InRole(reg, r) : Verifies(reg[i])
    BY <2>1 DEF Unsealed, Trusted
  <2>3. i \in Keys /\ i # k
    BY <1>2, <2>2 DEF InRole, Registered
  <2>4. i \in Trusted(new, r)
    BY <1>1, <2>2, <2>3 DEF Trusted, InRole, Registered
  <2> QED  BY <2>4
<1> QED  BY <1>4 DEF Unsealed

\* The same after a registered key's root is given another status, with which it
\* verifies, or while another key of its role does; what else changes goes from
\* signing to retired.
LEMMA StatusUnsealed ==
  ASSUME NEW reg \in Registers, NEW new \in Registers, NEW k \in Keys, NEW r \in Roles,
         reg[k] # Null, new[k] # Null,
         \A j \in Keys \ {k} :
           new[j] = reg[j] \/ (reg[j] # Null /\ new[j] # Null /\ Verifies(new[j])),
         RoleOf[k] = r => Trusted(new, r) # {},
         Unsealed(reg, r)
  PROVE  Unsealed(new, r)
<1>1. CASE RoleOf[k] = r
  BY <1>1 DEF Unsealed
<1>2. CASE RoleOf[k] # r
  <2>1. ASSUME NEW j \in InRole(new, r), new[j].status # "pending"
        PROVE  Trusted(new, r) # {}
    <3>1. j \in Keys \ {k}
      BY <1>2, <2>1 DEF InRole, Registered
    <3>2. CASE Verifies(new[j])
      BY <3>2 DEF Trusted
    <3>3. CASE new[j] = reg[j]
      <4>1. j \in InRole(reg, r) /\ reg[j].status # "pending"
        BY <2>1, <3>3 DEF InRole, Registered
      <4>2. PICK i \in InRole(reg, r) : Verifies(reg[i])
        BY <4>1 DEF Unsealed, Trusted
      <4>3. i \in Keys \ {k} /\ reg[i] # Null
        BY <1>2, <4>2 DEF InRole, Registered
      <4>4. new[i] # Null /\ Verifies(new[i])
        BY <4>2, <4>3
      <4>5. i \in Trusted(new, r)
        BY <4>2, <4>3, <4>4 DEF Trusted, InRole, Registered
      <4> QED  BY <4>5
    <3> QED  BY <3>1, <3>2, <3>3
  <2> QED  BY <2>1 DEF Unsealed
<1> QED  BY <1>1, <1>2

\* What each step of a rotation asks for keeps every role from being sealed, but
\* the role of a revocation that was told it may.
LEMMA RotationSealsNothing ==
  ASSUME NEW reg \in Registers, NEW k \in Keys, NEW r \in Roles, Unsealed(reg, r)
  PROVE  /\ Activatable(reg, k) => Unsealed(Activated(reg, k), r)
         /\ Retirable(reg, k) => Unsealed(Retired(reg, k), r)
         /\ \A allow_seal \in BOOLEAN :
              Revocable(reg, k, allow_seal) /\ ~(allow_seal /\ RoleOf[k] = r)
                => Unsealed(Revoked(reg, k), r)
<1>1. ASSUME Activatable(reg, k)
      PROVE  Unsealed(Activated(reg, k), r)
  <2> DEFINE new == Activated(reg, k)
  <2>1. reg[k] # Null /\ reg[k] \in TrustRoots
    BY <1>1 DEF Activatable, Registers
  <2>2. new \in Registers
    BY <2>1, RotationMakesRegisters
  <2>3. new[k].status = "active"
    BY <2>1 DEF Activated, TrustRoots
  <2>4. new[k] # Null
    <3>1. new[k] = [reg[k] EXCEPT !.status = "active"]
      BY DEF Activated
    <3>2. new[k] \in TrustRoots
      BY <2>1, <3>1 DEF TrustRoots, Statuses
    <3> QED  BY <3>2, TrustRootsAssumption
  <2>5. RoleOf[k] = r => k \in Trusted(new, r)
    BY <2>3, <2>4 DEF Trusted, InRole, Registered, Verifies
  <2>6. ASSUME NEW j \in Keys \ {k}, new[j] # reg[j]
        PROVE  reg[j] # Null /\ new[j] # Null /\ Verifies(new[j])
    <3>1. reg[j] # Null /\ reg[j] \in TrustRoots
      BY <2>6 DEF Activated, InRole, Registered, Registers
    <3>2. new[j] = [reg[j] EXCEPT !.status = "retired"]
      BY <2>6 DEF Activated
    <3>3. new[j] \in TrustRoots /\ new[j].status = "retired"
      BY <3>1, <3>2 DEF TrustRoots, Statuses
    <3> QED  BY <3>1, <3>3, TrustRootsAssumption DEF Verifies
  <2> QED  BY <2>1, <2>2, <2>4, <2>5, <2>6, StatusUnsealed
<1>2. ASSUME NEW s \in Statuses, reg[k] # Null,
             RoleOf[k] = r => s = "retired" \/ Survivors(reg, k) # {}
      PROVE  Unsealed([reg EXCEPT ![k].status = s], r)
  <2> DEFINE new == [reg EXCEPT ![k].status = s]
  <2>1. reg[k] \in TrustRoots
    BY <1>2 DEF Registers
  <2>2. new[k] \in TrustRoots /\ new[k].status = s
    BY <2>1 DEF Registers, TrustRoots
  <2>3. \A j \in Keys \ {k} : new[j] = reg[j]
    BY DEF Registers
  <2>4. new \in Registers
    BY <2>2 DEF Registers
  <2>5. new[k] # Null
    BY <2>2, TrustRootsAssumption
  <2>6. ASSUME RoleOf[k] = r
        PROVE  Trusted(new, r) # {}
    <3>1. CASE s = "retired"
      <4>1. k \in Trusted(new, r)
        BY <2>2, <2>5, <2>6, <3>1 DEF Trusted, InRole, Registered, Verifies
      <4> QED  BY <4>1
    <3>2. CASE Survivors(reg, k) # {}
      <4>1. PICK i \in InRole(reg, r) : i # k /\ Verifies(reg[i])
        BY <2>6, <3>2 DEF Survivors
      <4>2. i \in Keys \ {k} /\ reg[i] # Null /\ RoleOf[i] = r
        BY <4>1 DEF InRole, Registered
      <4>3. i \in Trusted(new, r)
        BY <2>3, <4>1, <4>2 DEF Trusted, InRole, Registered
      <4> QED  BY <4>3
    <3> QED  BY <1>2, <2>6, <3>1, <3>2
  <2> QED  BY <1>2, <2>3, <2>4, <2>5, <2>6, StatusUnsealed
<1>3. Retirable(reg, k) => Unsealed(Retired(reg, k), r)
  BY <1>2 DEF Retirable, Retired, Statuses
<1>4. ASSUME NEW allow_seal \in BOOLEAN, Revocable(reg, k, allow_seal),
             ~(allow_seal /\ RoleOf[k] = r)
      PROVE  Unsealed(Revoked(reg, k), r)
  <2>1. reg[k] # Null /\ (RoleOf[k] = r => Survivors(reg, k) # {})
    BY <1>4 DEF Revocable
  <2> QED  BY <1>2, <2>1 DEF Revoked, Statuses
<1> QED  BY <1>1, <1>3, <1>4

-----------------------------------------------------------------------------
(* Types.                                                                    *)

\* A command that is not idle has a register to write.
LEMMA PendingCommand ==
  ASSUME NEW c \in Commands
  PROVE  /\ c.at = "idle" \/ c \in Pending
         /\ c # Idle => c \in Pending
         /\ c \in Pending => c # Idle
  BY DEF Commands, Pending, Idle

\* A command that gets a register to write holds one of the right type.
LEMMA HoldTypes ==
  ASSUME TypeOK, NEW o \in Operators, NEW next \in Registers, NEW revokes \in SUBSET Keys,
         Hold(o, next, revokes), sealing' \in SUBSET Roles
  PROVE  TypeOK'
<1>1. command' \in [Operators -> Commands]
  <2>1. [at |-> "made", next |-> next, revokes |-> revokes, fd |-> "none", stale |-> FALSE]
          \in Commands
    BY DEF Commands, Pending
  <2> QED  BY <2>1 DEF TypeOK, Hold
<1>2. commands' \in 0..MaxCommands
  BY CustodyAssumption DEF TypeOK, Hold
<1> QED  BY <1>1, <1>2 DEF TypeOK, Hold

\* The four commands of a rotation.
Rotate(o) == Expand(o) \/ Activate(o) \/ Retire(o) \/ Revoke(o)

\* A command of a rotation keeps the types, whatever register it loaded.
LEMMA RotateTypes ==
  ASSUME TypeOK, NEW o \in Operators, Rotate(o)
  PROVE  TypeOK'
<1>1. file # Torn => file \in Registers
  BY DEF TypeOK
<1>2. CASE Expand(o)
  <2>1. PICK k \in Keys, g \in 1..MaxGeneration, approvers \in Ceremonies :
          Hold(o, Expanded(file, k, g, approvers), {})
    BY <1>2 DEF Expand
  <2>2. Expanded(file, k, g, approvers) \in Registers
    BY <1>1, <1>2, CustodyAssumption, RotationMakesRegisters DEF Expand
  <2> QED  BY <1>2, <2>1, <2>2, HoldTypes DEF Expand, TypeOK
<1>3. CASE Activate(o)
  <2>1. PICK k \in Keys : Activatable(file, k) /\ Hold(o, Activated(file, k), {})
    BY <1>3 DEF Activate
  <2>2. Activated(file, k) \in Registers
    BY <1>1, <1>3, <2>1, RotationMakesRegisters DEF Activate, Activatable
  <2> QED  BY <1>3, <2>1, <2>2, HoldTypes DEF Activate, TypeOK
<1>4. CASE Retire(o)
  <2>1. PICK k \in Keys : Retirable(file, k) /\ Hold(o, Retired(file, k), {})
    BY <1>4 DEF Retire
  <2>2. Retired(file, k) \in Registers
    BY <1>1, <1>4, <2>1, RotationMakesRegisters DEF Retire, Retirable
  <2> QED  BY <1>4, <2>1, <2>2, HoldTypes DEF Retire, TypeOK
<1>5. CASE Revoke(o)
  <2>1. PICK k \in Keys, allow_seal \in BOOLEAN :
          /\ Revocable(file, k, allow_seal) /\ Hold(o, Revoked(file, k), {k})
          /\ sealing' = IF allow_seal THEN sealing \cup {RoleOf[k]} ELSE sealing
    BY <1>5 DEF Revoke
  <2>2. Revoked(file, k) \in Registers
    BY <1>1, <1>5, <2>1, RotationMakesRegisters DEF Revoke, Revocable
  <2>3. sealing' \in SUBSET Roles
    BY <2>1, TrustRootsAssumption DEF TypeOK
  <2> QED  BY <2>1, <2>2, <2>3, HoldTypes
<1> QED  BY <1>2, <1>3, <1>4, <1>5 DEF Rotate

\* The steps that write the register out, or give that up.
LEMMA WritingTypes ==
  ASSUME TypeOK, NEW o \in Operators,
         OpenPartial(o) \/ Fill(o) \/ Rename(o) \/ GiveUp(o)
  PROVE  TypeOK'
<1> USE DEF TypeOK
<1>1. \A p \in Operators : command[p] # Idle => command[p] \in Pending
  BY PendingCommand
<1>2. Idle \in Commands /\ Pending \subseteq Commands
  BY DEF Commands, Pending
<1>3. CASE OpenPartial(o)
  <2>1. command[o] \in Pending
    BY <1>3, PendingCommand DEF OpenPartial, Idle
  <2>2. [command[o] EXCEPT !.at = "opened", !.fd = "partial"] \in Pending
    BY <2>1 DEF Pending
  <2> QED  BY <1>2, <1>3, <2>2 DEF OpenPartial
<1>4. CASE Fill(o)
  <2>1. command[o] \in Pending
    BY <1>4, PendingCommand DEF Fill, Idle
  <2>2. Over(partial, command[o].next) \subseteq Contents /\ Over(file, command[o].next) \subseteq Contents
    BY <2>1 DEF Over, Pending
  <2> DEFINE done == [command EXCEPT ![o].at = "filled"]
  <2>3. done \in [Operators -> Commands]
    <3>1. [command[o] EXCEPT !.at = "filled"] \in Pending
      BY <2>1 DEF Pending
    <3> QED  BY <1>2, <3>1
  <2>4. Outdated(done, o) \in [Operators -> Commands]
    <3>1. ASSUME NEW p \in Operators, done[p] # Idle
          PROVE  [done[p] EXCEPT !.stale = TRUE] \in Pending
      <4>1. done[p] \in Pending
        BY <2>3, <3>1, PendingCommand
      <4> QED  BY <4>1 DEF Pending
    <3> QED  BY <1>2, <2>3, <3>1 DEF Outdated
  <2>5. command' \in [Operators -> Commands]
    BY <1>4, <2>3, <2>4 DEF Fill
  <2>6. partial' \in Contents \cup {Null} /\ file' \in Contents /\ raced' \in BOOLEAN
    BY <1>4, <2>2 DEF Fill
  <2> QED  BY <1>4, <2>5, <2>6 DEF Fill
<1>5. CASE Rename(o)
  <2>1. CASE partial = Null
    BY <1>2, <1>5, <2>1 DEF Rename
  <2>2. CASE partial # Null
    <3>1. command[o] \in Pending
      BY <1>5, PendingCommand DEF Rename, Idle
    <3>2. ASSUME NEW p \in Operators, command[p] # Idle
          PROVE  [command[p] EXCEPT !.stale = TRUE, !.fd = Moved(command[p].fd)] \in Pending
      <4>1. command[p] \in Pending
        BY <1>1, <3>2
      <4>2. Moved(command[p].fd) \in {"none", "partial", "file", "gone"}
        BY <4>1 DEF Moved, Pending
      <4> QED  BY <4>1, <4>2 DEF Pending
    <3>3. command' \in [Operators -> Commands]
      BY <1>2, <1>5, <2>2, <3>2 DEF Rename
    <3>4. revoked' \in SUBSET Keys
      BY <1>5, <2>2, <3>1 DEF Rename, Pending
    <3>5. raced' \in BOOLEAN
      BY <1>5, <2>2, <3>1 DEF Rename, Pending
    <3>6. file' \in Contents /\ partial' = Null
      BY <1>5, <2>2 DEF Rename
    <3> QED  BY <1>5, <2>2, <3>3, <3>4, <3>5, <3>6 DEF Rename
  <2> QED  BY <2>1, <2>2
<1>6. CASE GiveUp(o)
  BY <1>2, <1>6 DEF GiveUp
<1> QED  BY <1>3, <1>4, <1>5, <1>6

\* Every step of operators, verifiers and signers keeps the types of the state.
THEOREM CustodyTypes == Spec => []TypeOK
<1>1. Init => TypeOK
  <2> SUFFICES ASSUME Init PROVE TypeOK
    OBVIOUS
  <2>1. file \in Registers /\ view \in [Verifiers -> Registers]
    BY CustodyAssumption DEF Init
  <2>2. command \in [Operators -> Commands]
    BY DEF Init, Commands
  <2>3. commands \in 0..MaxCommands
    BY CustodyAssumption DEF Init
  <2> QED  BY <2>1, <2>2, <2>3 DEF Init, TypeOK
<1>2. TypeOK /\ [Next]_vars => TypeOK'
  <2> SUFFICES ASSUME TypeOK, [Next]_vars PROVE TypeOK'
    OBVIOUS
  <2>1. CASE \E o \in Operators : Expand(o) \/ Activate(o) \/ Retire(o) \/ Revoke(o)
    BY <2>1, RotateTypes DEF Rotate
  <2>2. CASE \E o \in Operators : OpenPartial(o) \/ Fill(o) \/ Rename(o) \/ GiveUp(o)
    BY <2>2, WritingTypes
  <2>3. ASSUME NEW v \in Verifiers, LoadDirectory(v)
        PROVE  TypeOK'
    BY <2>3 DEF LoadDirectory, TypeOK
  <2>4. ASSUME NEW k \in Keys, NEW u \in Updates, NEW b \in BOOLEAN
        PROVE  Signed(k, u, b) \in Artifacts
    BY DEF Signed, Artifacts
  <2>5. ASSUME NEW v \in Verifiers, SignAsRoot(v)
        PROVE  TypeOK'
    <3>1. artifact' \in Artifacts
      BY <2>4, <2>5 DEF SignAsRoot, SigningRoots, InRole, Registered
    <3> QED  BY <2>5, <3>1 DEF SignAsRoot, TypeOK
  <2>6. CASE SignWithKeyFile
    BY <2>4, <2>6 DEF SignWithKeyFile, TypeOK
  <2>7. CASE Damage
    <3>1. artifact' \in Artifacts
      BY <2>7 DEF Damage, TypeOK, Artifacts
    <3> QED  BY <2>7, <3>1 DEF Damage, TypeOK
  <2>8. CASE UNCHANGED vars
    BY <2>8 DEF vars, TypeOK
  <2> QED  BY <2>1, <2>2, <2>3, <2>5, <2>6, <2>7, <2>8 DEF Next
<1> QED  BY <1>1, <1>2, PTL DEF Spec

-----------------------------------------------------------------------------
(* No role is sealed unasked.                                               *)

\* Every register of the next state is one of this state's, or a sound one.
LEMMA CopiesSound ==
  ASSUME SomeoneVerifies, sealing \subseteq sealing',
         \A reg \in Copies' : reg \in Copies \/ \A r \in Roles \ sealing' : Unsealed(reg, r)
  PROVE  SomeoneVerifies'
<1> SUFFICES ASSUME NEW reg \in Copies', NEW r \in Roles \ sealing'
             PROVE  Unsealed(reg, r)
  BY DEF SomeoneVerifies
<1> QED  BY DEF SomeoneVerifies

\* The registers a command adds: the one it has to write.
LEMMA HoldCopies ==
  ASSUME TypeOK, NEW o \in Operators, NEW next, NEW revokes, Hold(o, next, revokes),
         NEW reg \in Copies'
  PROVE  reg \in Copies \/ reg = next
<1>1. \A p \in Operators : command'[p] = command[p] \/ (p = o /\ command'[p].next = next)
  BY DEF Hold, TypeOK
<1>2. file' = file /\ partial' = partial /\ view' = view
  BY DEF Hold
<1> QED  BY <1>1, <1>2 DEF Copies

\* A command of a rotation leaves no role sealed in the register it makes, but
\* the role of a revocation that was told it may.
LEMMA RotateSound ==
  ASSUME TypeOK, SomeoneVerifies, NEW o \in Operators, Rotate(o)
  PROVE  SomeoneVerifies'
<1>1. file # Torn /\ file \in Registers
  BY DEF Rotate, Expand, Activate, Retire, Revoke, TypeOK
<1>2. \A r \in Roles \ sealing : Unsealed(file, r)
  <2>1. file # Null
    BY <1>1, TrustRootsAssumption
  <2> QED  BY <1>1, <2>1 DEF SomeoneVerifies, Copies
<1>3. ASSUME NEW next, NEW revokes, Hold(o, next, revokes), sealing \subseteq sealing',
             \A r \in Roles \ sealing' : Unsealed(next, r)
      PROVE  SomeoneVerifies'
  BY <1>3, HoldCopies, CopiesSound
<1>4. CASE Expand(o)
  <2>1. PICK k \in Keys, g \in 1..MaxGeneration, approvers \in Ceremonies :
          Expandable(file, k, g) /\ Hold(o, Expanded(file, k, g, approvers), {})
    BY <1>4 DEF Expand
  <2>2. g \in Nat
    BY CustodyAssumption
  <2>3. \A r \in Roles \ sealing : Unsealed(Expanded(file, k, g, approvers), r)
    BY <1>1, <1>2, <2>1, <2>2, ExpandedUnsealed
  <2> QED  BY <1>3, <1>4, <2>1, <2>3 DEF Expand
<1>5. CASE Activate(o)
  <2>1. PICK k \in Keys : Activatable(file, k) /\ Hold(o, Activated(file, k), {})
    BY <1>5 DEF Activate
  <2>2. \A r \in Roles \ sealing : Unsealed(Activated(file, k), r)
    BY <1>1, <1>2, <2>1, RotationSealsNothing
  <2> QED  BY <1>3, <1>5, <2>1, <2>2 DEF Activate
<1>6. CASE Retire(o)
  <2>1. PICK k \in Keys : Retirable(file, k) /\ Hold(o, Retired(file, k), {})
    BY <1>6 DEF Retire
  <2>2. \A r \in Roles \ sealing : Unsealed(Retired(file, k), r)
    BY <1>1, <1>2, <2>1, RotationSealsNothing
  <2> QED  BY <1>3, <1>6, <2>1, <2>2 DEF Retire
<1>7. CASE Revoke(o)
  <2>1. PICK k \in Keys, allow_seal \in BOOLEAN :
          /\ Revocable(file, k, allow_seal) /\ Hold(o, Revoked(file, k), {k})
          /\ sealing' = IF allow_seal THEN sealing \cup {RoleOf[k]} ELSE sealing
    BY <1>7 DEF Revoke
  <2>2. ASSUME NEW r \in Roles \ sealing'
        PROVE  Unsealed(Revoked(file, k), r)
    <3>1. r \notin sealing /\ ~(allow_seal /\ RoleOf[k] = r)
      BY <2>1
    <3> QED  BY <1>1, <1>2, <2>1, <3>1, RotationSealsNothing
  <2> QED  BY <1>3, <2>1, <2>2
<1> QED  BY <1>4, <1>5, <1>6, <1>7 DEF Rotate

\* Whatever way commands overlap on the files, what is written, renamed or loaded
\* is a register that some command had made.
LEMMA WritingCopies ==
  ASSUME TypeOK, NEW o \in Operators,
         OpenPartial(o) \/ Fill(o) \/ Rename(o) \/ GiveUp(o)
  PROVE  /\ sealing' = sealing
         /\ Copies' \subseteq Copies
<1>1. sealing' = sealing
  BY DEF OpenPartial, Fill, Rename, GiveUp
<1>2. view' = view
  BY DEF OpenPartial, Fill, Rename, GiveUp
<1>3. command \in [Operators -> Commands]
  BY DEF TypeOK
<1>4. Idle.at = "idle"
  BY DEF Idle
<1>5. ASSUME NEW p \in Operators
      PROVE  command'[p] = Idle \/ (command[p] # Idle /\ command'[p].next = command[p].next)
  <2>1. command[p] = Idle \/ command[p] \in Pending
    BY <1>3 DEF Commands
  <2>2. CASE OpenPartial(o)
    BY <1>3, <1>4, <2>1, <2>2 DEF OpenPartial, Pending
  <2>3. CASE Fill(o)
    <3> DEFINE done == [command EXCEPT ![o].at = "filled"]
    <3>1. command[o] # Idle /\ command[o] \in Pending
      BY <1>3, <1>4, <2>3 DEF Fill, Commands
    <3>2. done[p] = command[p] \/ (command[p] # Idle /\ done[p].next = command[p].next)
      BY <1>3, <2>1, <3>1 DEF Pending
    <3>3. Outdated(done, o)[p] = done[p] \/ (p # o /\ done[p] # Idle /\ Outdated(done, o)[p] = [done[p] EXCEPT !.stale = TRUE])
      BY DEF Outdated
    <3>4. p # o => done[p] = command[p]
      BY <1>3
    <3>5. command' = done \/ command' = Outdated(done, o)
      BY <2>3 DEF Fill
    <3>6. CASE command' = done
      BY <2>1, <3>2, <3>6
    <3>7. CASE command' = Outdated(done, o)
      BY <2>1, <3>2, <3>3, <3>4, <3>7 DEF Pending
    <3> QED  BY <3>5, <3>6, <3>7
  <2>4. CASE Rename(o)
    <3>1. CASE p = o \/ command[p] = Idle
      <4>1. command'[p] = Idle
        BY <1>3, <2>4, <3>1 DEF Rename
      <4> QED  BY <4>1
    <3>2. CASE p # o /\ command[p] # Idle /\ partial = Null
      <4>1. command'[p] = command[p]
        BY <1>3, <2>4, <3>2 DEF Rename
      <4> QED  BY <3>2, <4>1
    <3>3. CASE p # o /\ command[p] # Idle /\ partial # Null
      <4>1. command'[p] = [command[p] EXCEPT !.stale = TRUE, !.fd = Moved(command[p].fd)]
        BY <2>4, <3>3 DEF Rename
      <4>2. command[p] \in Pending
        BY <2>1, <3>3
      <4>3. command'[p].next = command[p].next
        BY <4>1, <4>2 DEF Pending
      <4> QED  BY <3>3, <4>3
    <3> QED  BY <3>1, <3>2, <3>3
  <2>5. CASE GiveUp(o)
    BY <1>3, <2>1, <2>5 DEF GiveUp
  <2> QED  BY <2>2, <2>3, <2>4, <2>5
<1>6. ASSUME NEW f, f = file' \/ f = partial', f \notin {Null, Torn}
      PROVE  f \in {file, partial} \/ (command[o] # Idle /\ f = command[o].next)
  <2>1. CASE OpenPartial(o)
    BY <1>6, <2>1 DEF OpenPartial
  <2>2. CASE Fill(o)
    <3>1. command[o] # Idle
      BY <1>4, <2>2 DEF Fill
    <3> QED  BY <1>6, <2>2, <3>1 DEF Fill, Over
  <2>3. CASE Rename(o)
    BY <1>6, <2>3 DEF Rename
  <2>4. CASE GiveUp(o)
    BY <1>6, <2>4 DEF GiveUp
  <2> QED  BY <2>1, <2>2, <2>3, <2>4
<1>7. ASSUME NEW reg \in Copies'
      PROVE  reg \in Copies
  <2>1. reg \notin {Null, Torn}
    BY <1>7 DEF Copies
  <2>2. CASE reg \in {file', partial'}
    BY <1>6, <2>1, <2>2 DEF Copies
  <2>3. CASE \E p \in Operators : command'[p] # Idle /\ reg = command'[p].next
    BY <1>5, <2>1, <2>3 DEF Copies
  <2>4. CASE \E v \in Verifiers : reg = view'[v]
    BY <1>2, <2>1, <2>4 DEF Copies
  <2> QED  BY <1>7, <2>2, <2>3, <2>4 DEF Copies
<1> QED  BY <1>1, <1>7

\* No sequence of rotations takes the last key that verifies from a role that no
\* revocation was told to seal, in any register published, being written or
\* loaded.
THEOREM CustodySealed == Spec => []SomeoneVerifies
<1>1. Init => SomeoneVerifies
  <2> SUFFICES ASSUME Init, NEW reg \in Copies PROVE \A r \in Roles : Unsealed(reg, r)
    BY DEF SomeoneVerifies
  <2>1. reg = file
    BY DEF Init, Copies
  <2> QED  BY <2>1, CustodyAssumption DEF Init
<1>2. TypeOK /\ SomeoneVerifies /\ [Next]_vars => SomeoneVerifies'
  <2> SUFFICES ASSUME TypeOK, SomeoneVerifies, [Next]_vars PROVE SomeoneVerifies'
    OBVIOUS
  <2>1. CASE \E o \in Operators : Expand(o) \/ Activate(o) \/ Retire(o) \/ Revoke(o)
    BY <2>1, RotateSound DEF Rotate
  <2>2. CASE \E o \in Operators : OpenPartial(o) \/ Fill(o) \/ Rename(o) \/ GiveUp(o)
    BY <2>2, WritingCopies, CopiesSound
  <2>3. ASSUME NEW v \in Verifiers, LoadDirectory(v)
        PROVE  SomeoneVerifies'
    <3>1. \A w \in Verifiers : view'[w] \in {view[w], file}
      BY <2>3 DEF LoadDirectory, TypeOK
    <3>2. Copies' \subseteq Copies
      BY <2>3, <3>1 DEF LoadDirectory, Copies
    <3> QED  BY <2>3, <3>2, CopiesSound DEF LoadDirectory
  <2>4. CASE (\E v \in Verifiers : SignAsRoot(v)) \/ SignWithKeyFile \/ Damage \/ UNCHANGED vars
    <3>1. UNCHANGED <<file, partial, command, view, sealing>>
      BY <2>4 DEF SignAsRoot, SignWithKeyFile, Damage, vars
    <3> QED  BY <3>1, CopiesSound DEF Copies
  <2> QED  BY <2>1, <2>2, <2>3, <2>4 DEF Next
<1> QED  BY <1>1, <1>2, CustodyTypes, PTL DEF Spec

-----------------------------------------------------------------------------
(* What a rotation leaves alone.                                            *)

\* What one command of a rotation may do to a key of a register: it begins to
\* verify only if it was staged, stops only if it is the one revoked, and once
\* revoked it stays revoked.
FollowsAt(old, new, revokes, k) ==
  /\ k \in Registered(new) /\ Verifies(new[k])
       => k \in Registered(old) /\ (Verifies(old[k]) \/ old[k].status = "pending")
  /\ k \notin revokes /\ k \in Registered(old) /\ Verifies(old[k])
       => k \in Registered(new) /\ Verifies(new[k])
  /\ k \in revokes \/ (k \in Registered(old) /\ old[k].status = "revoked")
       => k \in Registered(new) /\ new[k].status = "revoked"

\* The same of every key.
Follows(old, new, revokes) == \A k \in Keys : FollowsAt(old, new, revokes, k)

\* A command that is not outdated made its register from the one published.
MadeFromFile ==
  \A o \in Operators : command[o] # Idle /\ ~command[o].stale
    => Follows(file, command[o].next, command[o].revokes)

\* A revocation that was reported done is in the register.
RevokedInFile == \A k \in revoked : k \in Registered(file) /\ file[k].status = "revoked"

\* What verified in a register some process still holds verifies in the one
\* published, or was revoked; and so does the key of what a signer signed.
StillVerifies(k) == k \notin revoked => k \in Registered(file) /\ Verifies(file[k])

ViewsFollow ==
  \A v \in Verifiers : \A k \in Registered(view[v]) : Verifies(view[v][k]) => StillVerifies(k)

ArtifactFollows == artifact # Null /\ artifact.vouched => StillVerifies(artifact.key)

\* As long as no command published over another.
InTurn ==
  ~raced => file # Torn /\ MadeFromFile /\ RevokedInFile /\ ViewsFollow /\ ArtifactFollows

\* A root given another status is a root with that status.
LEMMA StatusGiven ==
  ASSUME NEW root \in TrustRoots, NEW s \in Statuses
  PROVE  /\ [root EXCEPT !.status = s] # Null
         /\ [root EXCEPT !.status = s].status = s
<1>1. [root EXCEPT !.status = s] \in TrustRoots /\ [root EXCEPT !.status = s].status = s
  BY DEF TrustRoots
<1> QED  BY <1>1, TrustRootsAssumption

\* Every step of a rotation follows the register it was made from.
LEMMA RotationFollows ==
  ASSUME NEW reg \in Registers, NEW k \in Keys
  PROVE  /\ \A g \in Nat, approvers \in Ceremonies :
              Expandable(reg, k, g) => Follows(reg, Expanded(reg, k, g, approvers), {})
         /\ Activatable(reg, k) => Follows(reg, Activated(reg, k), {})
         /\ Retirable(reg, k) => Follows(reg, Retired(reg, k), {})
         /\ \A allow_seal \in BOOLEAN :
              Revocable(reg, k, allow_seal) => Follows(reg, Revoked(reg, k), {k})
<1>1. \A j \in Keys : reg[j] # Null => reg[j] \in TrustRoots
  BY DEF Registers
<1>2. ASSUME NEW g \in Nat, NEW approvers \in Ceremonies, Expandable(reg, k, g)
      PROVE  Follows(reg, Expanded(reg, k, g, approvers), {})
  <2> DEFINE new == Expanded(reg, k, g, approvers)
  <2>1. reg[k] = Null /\ new[k].status = "pending" /\ \A j \in Keys \ {k} : new[j] = reg[j]
    BY <1>2 DEF Expandable, Expanded, Registers
  <2> HIDE DEF new
  <2>2. FollowsAt(reg, new, {}, k)
    BY <2>1 DEF FollowsAt, Registered, Verifies
  <2>3. \A j \in Keys \ {k} : FollowsAt(reg, new, {}, j)
    BY <2>1 DEF FollowsAt, Registered
  <2>4. \A j \in Keys : FollowsAt(reg, new, {}, j)
    BY <2>2, <2>3
  <2> QED  BY <2>4 DEF Follows, new
<1>3. ASSUME Activatable(reg, k)
      PROVE  Follows(reg, Activated(reg, k), {})
  <2> DEFINE new == Activated(reg, k)
  <2>1. reg[k] # Null /\ reg[k].status = "pending"
    BY <1>3 DEF Activatable
  <2>2. new[k] # Null /\ new[k].status = "active"
    BY <1>1, <2>1, StatusGiven DEF Activated, Statuses
  <2>3. ASSUME NEW j \in Keys \ {k}
        PROVE  new[j] = reg[j] \/ (/\ reg[j] # Null /\ reg[j].status = "active"
                                   /\ new[j] # Null /\ new[j].status = "retired")
    <3>1. CASE j \in InRole(reg, RoleOf[k]) /\ Signs(reg[j])
      <4>1. reg[j] # Null /\ reg[j].status = "active"
        BY <3>1 DEF InRole, Registered, Signs
      <4>2. new[j] = [reg[j] EXCEPT !.status = "retired"]
        BY <3>1 DEF Activated
      <4> QED  BY <1>1, <4>1, <4>2, StatusGiven DEF Statuses
    <3>2. CASE ~(j \in InRole(reg, RoleOf[k]) /\ Signs(reg[j]))
      BY <3>2 DEF Activated
    <3> QED  BY <3>1, <3>2
  <2> HIDE DEF new
  <2>4. FollowsAt(reg, new, {}, k)
    BY <2>1, <2>2 DEF FollowsAt, Registered, Verifies
  <2>5. \A j \in Keys \ {k} : FollowsAt(reg, new, {}, j)
    BY <2>3 DEF FollowsAt, Registered, Verifies
  <2>6. \A j \in Keys : FollowsAt(reg, new, {}, j)
    BY <2>4, <2>5
  <2> QED  BY <2>6 DEF Follows, new
<1>4. ASSUME Retirable(reg, k)
      PROVE  Follows(reg, Retired(reg, k), {})
  <2> DEFINE new == Retired(reg, k)
  <2>1. reg[k] # Null /\ reg[k].status = "active"
    BY <1>4 DEF Retirable, Signs
  <2>2. new[k] = [reg[k] EXCEPT !.status = "retired"] /\ \A j \in Keys \ {k} : new[j] = reg[j]
    BY DEF Retired, Registers
  <2>3. new[k] # Null /\ new[k].status = "retired"
    BY <1>1, <2>1, <2>2, StatusGiven DEF Statuses
  <2> HIDE DEF new
  <2>4. FollowsAt(reg, new, {}, k)
    BY <2>1, <2>3 DEF FollowsAt, Registered, Verifies
  <2>5. \A j \in Keys \ {k} : FollowsAt(reg, new, {}, j)
    BY <2>2 DEF FollowsAt, Registered
  <2>6. \A j \in Keys : FollowsAt(reg, new, {}, j)
    BY <2>4, <2>5
  <2> QED  BY <2>6 DEF Follows, new
<1>5. ASSUME NEW allow_seal \in BOOLEAN, Revocable(reg, k, allow_seal)
      PROVE  Follows(reg, Revoked(reg, k), {k})
  <2> DEFINE new == Revoked(reg, k)
  <2>1. reg[k] # Null
    BY <1>5 DEF Revocable
  <2>2. new[k] = [reg[k] EXCEPT !.status = "revoked"] /\ \A j \in Keys \ {k} : new[j] = reg[j]
    BY DEF Revoked, Registers
  <2>3. new[k] # Null /\ new[k].status = "revoked"
    BY <1>1, <2>1, <2>2, StatusGiven DEF Statuses
  <2> HIDE DEF new
  <2>4. FollowsAt(reg, new, {k}, k)
    BY <2>1, <2>3 DEF FollowsAt, Registered, Verifies
  <2>5. \A j \in Keys \ {k} : FollowsAt(reg, new, {k}, j)
    BY <2>2 DEF FollowsAt, Registered
  <2>6. \A j \in Keys : FollowsAt(reg, new, {k}, j)
    BY <2>4, <2>5
  <2> QED  BY <2>6 DEF Follows, new
<1> QED  BY <1>2, <1>3, <1>4, <1>5

\* A command of a rotation makes its register from the one it loaded.
LEMMA RotateInTurn ==
  ASSUME TypeOK, InTurn, NEW o \in Operators, Rotate(o)
  PROVE  InTurn'
<1>1. file # Torn /\ file \in Registers
  BY DEF Rotate, Expand, Activate, Retire, Revoke, TypeOK
<1>2. \E next \in Registers, revokes \in SUBSET Keys :
        Hold(o, next, revokes) /\ Follows(file, next, revokes)
  <2>1. CASE Expand(o)
    <3>1. PICK k \in Keys, g \in 1..MaxGeneration, approvers \in Ceremonies :
            Expandable(file, k, g) /\ Hold(o, Expanded(file, k, g, approvers), {})
      BY <2>1 DEF Expand
    <3>2. g \in Nat
      BY CustodyAssumption
    <3> QED  BY <1>1, <3>1, <3>2, RotationMakesRegisters, RotationFollows
  <2>2. CASE Activate(o)
    <3>1. PICK k \in Keys : Activatable(file, k) /\ Hold(o, Activated(file, k), {})
      BY <2>2 DEF Activate
    <3> QED  BY <1>1, <3>1, RotationMakesRegisters, RotationFollows DEF Activatable
  <2>3. CASE Retire(o)
    <3>1. PICK k \in Keys : Retirable(file, k) /\ Hold(o, Retired(file, k), {})
      BY <2>3 DEF Retire
    <3> QED  BY <1>1, <3>1, RotationMakesRegisters, RotationFollows DEF Retirable
  <2>4. CASE Revoke(o)
    <3>1. PICK k \in Keys, allow_seal \in BOOLEAN :
            Revocable(file, k, allow_seal) /\ Hold(o, Revoked(file, k), {k})
      BY <2>4 DEF Revoke
    <3> QED  BY <1>1, <3>1, RotationMakesRegisters, RotationFollows DEF Revocable
  <2> QED  BY <2>1, <2>2, <2>3, <2>4 DEF Rotate
<1>3. PICK next \in Registers, revokes \in SUBSET Keys :
        Hold(o, next, revokes) /\ Follows(file, next, revokes)
  BY <1>2
<1>4. UNCHANGED <<file, view, artifact, revoked, raced>>
  BY <1>3 DEF Hold
<1>5. ASSUME MadeFromFile
      PROVE  MadeFromFile'
  <2> SUFFICES ASSUME NEW p \in Operators, command'[p] # Idle, ~command'[p].stale
               PROVE  Follows(file, command'[p].next, command'[p].revokes)
    BY <1>4 DEF MadeFromFile
  <2>1. CASE p = o
    <3>1. command'[o] = [at |-> "made", next |-> next, revokes |-> revokes, fd |-> "none", stale |-> FALSE]
      BY <1>3 DEF Hold, TypeOK
    <3> QED  BY <1>3, <2>1, <3>1
  <2>2. CASE p # o
    <3>1. command'[p] = command[p]
      BY <1>3, <2>2 DEF Hold, TypeOK
    <3> QED  BY <1>5, <3>1 DEF MadeFromFile
  <2> QED  BY <2>1, <2>2
<1> QED  BY <1>4, <1>5 DEF InTurn, RevokedInFile, ViewsFollow, ArtifactFollows, StillVerifies

\* Nothing is published by a step that leaves the register and every command
\* what they were, but for how far one has got.
LEMMA NothingPublished ==
  ASSUME TypeOK, InTurn, NEW o \in Operators, UNCHANGED <<file, view, artifact, revoked, raced>>,
         \A p \in Operators :
           \/ command'[p] = Idle
           \/ command'[p] = command[p]
           \/ /\ command[p] # Idle
              /\ command'[p].stale = command[p].stale
              /\ command'[p].next = command[p].next
              /\ command'[p].revokes = command[p].revokes
  PROVE  InTurn'
<1>1. ASSUME MadeFromFile
      PROVE  MadeFromFile'
  BY <1>1 DEF MadeFromFile
<1> QED  BY <1>1 DEF InTurn, RevokedInFile, ViewsFollow, ArtifactFollows, StillVerifies

\* The register a command puts in place, in its turn, follows the one before.
LEMMA RenameInTurn ==
  ASSUME TypeOK, InTurn, NEW o \in Operators, Rename(o), partial # Null, ~raced'
  PROVE  InTurn' /\ Follows(file, file', command[o].revokes)
<1>1. /\ ~raced /\ ~command[o].stale /\ file' = command[o].next
      /\ revoked' = revoked \cup command[o].revokes
      /\ UNCHANGED <<view, artifact>>
  <2>1. raced' = (raced \/ command[o].stale \/ partial # command[o].next)
    BY DEF Rename
  <2> QED  BY <2>1 DEF Rename
<1>2. command[o] \in Pending
  BY PendingCommand DEF Rename, TypeOK, Idle
<1>3. file # Torn /\ MadeFromFile /\ RevokedInFile /\ ViewsFollow /\ ArtifactFollows
  BY <1>1 DEF InTurn
<1>4. Follows(file, file', command[o].revokes)
  <2>1. command[o].at = "filled" /\ Idle.at = "idle"
    BY DEF Rename, Idle
  <2>2. command[o] # Idle
    BY <2>1
  <2> QED  BY <1>1, <1>3, <2>2 DEF MadeFromFile
<1>5. command[o].revokes \in SUBSET Keys /\ revoked \in SUBSET Keys /\ command[o].next \in Registers
  BY <1>2 DEF Pending, TypeOK
<1>6. file' # Torn
  BY <1>1, <1>5, CustodyAssumption
<1>7. MadeFromFile'
  <2>1. ASSUME NEW p \in Operators, command'[p] # Idle
        PROVE  command'[p].stale
    <3>1. command'[p] = [command[p] EXCEPT !.stale = TRUE, !.fd = Moved(command[p].fd)] /\ command[p] # Idle
      BY <2>1 DEF Rename
    <3>2. command[p] \in Pending
      BY <3>1, PendingCommand DEF TypeOK
    <3> QED  BY <3>1, <3>2 DEF Pending
  <2> QED  BY <2>1 DEF MadeFromFile
<1>8. RevokedInFile'
  <2> SUFFICES ASSUME NEW k \in revoked'
               PROVE  k \in Registered(file') /\ file'[k].status = "revoked"
    BY DEF RevokedInFile
  <2>1. k \in Keys /\ (k \in command[o].revokes \/ k \in revoked)
    BY <1>1, <1>5
  <2>2. k \in revoked => k \in Registered(file) /\ file[k].status = "revoked"
    BY <1>3 DEF RevokedInFile
  <2> QED  BY <1>4, <2>1, <2>2 DEF Follows, FollowsAt
<1>9. ASSUME NEW k \in Keys, StillVerifies(k)
      PROVE  StillVerifies(k)'
  BY <1>1, <1>4, <1>9 DEF StillVerifies, Follows, FollowsAt
<1>10. ViewsFollow'
  <2>1. \A v \in Verifiers : \A k \in Registered(view[v]) : Verifies(view[v][k]) => StillVerifies(k)'
    BY <1>3, <1>9 DEF ViewsFollow, Registered
  <2>2. view' = view
    BY <1>1
  <2> QED  BY <2>1, <2>2 DEF ViewsFollow
<1>11. ArtifactFollows'
  <2>1. artifact # Null => artifact.key \in Keys
    BY DEF TypeOK, Artifacts
  <2>2. ASSUME NEW k \in Keys, artifact # Null, artifact.vouched, k = artifact.key
        PROVE  StillVerifies(k)'
    BY <1>3, <1>9, <2>2 DEF ArtifactFollows
  <2>3. artifact' = artifact
    BY <1>1
  <2> QED  BY <2>1, <2>2, <2>3 DEF ArtifactFollows, StillVerifies
<1> QED  BY <1>4, <1>6, <1>7, <1>8, <1>10, <1>11 DEF InTurn

\* The steps that write the register out publish in turn, or race.
LEMMA WritingInTurn ==
  ASSUME TypeOK, InTurn, NEW o \in Operators,
         OpenPartial(o) \/ Fill(o) \/ Rename(o) \/ GiveUp(o)
  PROVE  /\ InTurn'
         /\ ~raced' => file' = file \/ Follows(file, file', command[o].revokes)
<1>1. \A p \in Operators : command[p] # Idle => command[p] \in Pending
  BY PendingCommand DEF TypeOK
<1>2. command \in [Operators -> Commands] /\ raced \in BOOLEAN
  BY DEF TypeOK
<1>3. CASE OpenPartial(o)
  <2>1. command[o] \in Pending
    BY <1>3, PendingCommand DEF OpenPartial, Idle, TypeOK
  <2>2. UNCHANGED <<file, view, artifact, revoked, raced>>
    BY <1>3 DEF OpenPartial
  <2>3. \A p \in Operators : p # o => command'[p] = command[p]
    BY <1>2, <1>3 DEF OpenPartial
  <2>4. command'[o] = [command[o] EXCEPT !.at = "opened", !.fd = "partial"] /\ command[o] # Idle
    BY <1>2, <1>3 DEF OpenPartial, Idle
  <2>5. /\ command'[o].stale = command[o].stale /\ command'[o].next = command[o].next
        /\ command'[o].revokes = command[o].revokes
    BY <2>1, <2>4 DEF Pending
  <2>6. InTurn'
    BY <2>2, <2>3, <2>4, <2>5, NothingPublished
  <2> QED  BY <2>2, <2>6
<1>4. CASE Fill(o)
  <2>1. command[o] \in Pending /\ command[o] # Idle
    BY <1>4, PendingCommand DEF Fill, Idle, TypeOK
  <2>2. CASE raced'
    BY <2>2 DEF InTurn
  <2>3. CASE ~raced'
    <3>1. UNCHANGED <<file, view, artifact, revoked, raced>> /\ command' = [command EXCEPT ![o].at = "filled"]
      BY <1>4, <2>3 DEF Fill
    <3>2. \A p \in Operators : p # o => command'[p] = command[p]
      BY <1>2, <3>1
    <3>3. /\ command'[o].stale = command[o].stale /\ command'[o].next = command[o].next
          /\ command'[o].revokes = command[o].revokes
      BY <1>2, <2>1, <3>1 DEF Pending
    <3>4. InTurn'
      BY <2>1, <3>1, <3>2, <3>3, NothingPublished
    <3> QED  BY <3>1, <3>4
  <2> QED  BY <2>2, <2>3
<1>5. CASE Rename(o)
  <2>1. CASE raced'
    BY <2>1 DEF InTurn
  <2>2. CASE ~raced' /\ partial # Null
    BY <1>5, <2>2, RenameInTurn
  <2>3. CASE partial = Null
    <3>1. UNCHANGED <<file, view, artifact, revoked, raced>> /\ command' = [command EXCEPT ![o] = Idle]
      BY <1>5, <2>3 DEF Rename
    <3>2. \A p \in Operators : command'[p] = Idle \/ command'[p] = command[p]
      BY <1>2, <3>1
    <3>3. InTurn'
      BY <3>1, <3>2, NothingPublished
    <3> QED  BY <3>1, <3>3
  <2> QED  BY <2>1, <2>2, <2>3
<1>6. CASE GiveUp(o)
  <2>1. UNCHANGED <<file, view, artifact, revoked, raced>>
    BY <1>6 DEF GiveUp
  <2>2. \A p \in Operators : command'[p] = Idle \/ command'[p] = command[p]
    BY <1>2, <1>6 DEF GiveUp
  <2>3. InTurn'
    BY <2>1, <2>2, NothingPublished
  <2> QED  BY <2>1, <2>3
<1> QED  BY <1>3, <1>4, <1>5, <1>6

\* The steps of verifiers and signers keep what was published.
LEMMA VerifiersInTurn ==
  ASSUME TypeOK, InTurn,
         \/ \E v \in Verifiers : LoadDirectory(v) \/ SignAsRoot(v)
         \/ SignWithKeyFile \/ Damage \/ UNCHANGED vars
  PROVE  InTurn' /\ file' = file
<1>1. UNCHANGED <<file, command, revoked, raced>>
  BY DEF LoadDirectory, SignAsRoot, SignWithKeyFile, Damage, vars
<1>2. MadeFromFile' = MadeFromFile /\ RevokedInFile' = RevokedInFile
      /\ \A k : StillVerifies(k)' = StillVerifies(k)
  BY <1>1 DEF MadeFromFile, RevokedInFile, StillVerifies
<1>3. ASSUME ViewsFollow, file # Torn
      PROVE  ViewsFollow'
  <2>1. CASE \E v \in Verifiers : LoadDirectory(v)
    <3>1. \A w \in Verifiers : view'[w] = view[w] \/ view'[w] = file
      BY <2>1 DEF LoadDirectory, TypeOK
    <3>2. \A k \in Registered(file) : Verifies(file[k]) => StillVerifies(k)
      BY DEF StillVerifies
    <3> QED  BY <1>2, <1>3, <3>1, <3>2 DEF ViewsFollow
  <2>2. CASE view' = view
    BY <1>2, <1>3, <2>2 DEF ViewsFollow
  <2> QED  BY <2>1, <2>2 DEF SignAsRoot, SignWithKeyFile, Damage, vars
<1>4. ASSUME ArtifactFollows, ViewsFollow
      PROVE  ArtifactFollows'
  <2>1. CASE \E v \in Verifiers : SignAsRoot(v)
    <3>1. PICK v \in Verifiers, r \in Roles : \E k \in SigningRoots(view[v], r), u \in Updates :
            artifact' = Signed(k, u, TRUE)
      BY <2>1 DEF SignAsRoot
    <3>2. PICK k \in SigningRoots(view[v], r), u \in Updates : artifact' = Signed(k, u, TRUE)
      BY <3>1
    <3>3. k \in Registered(view[v]) /\ Verifies(view[v][k])
      BY DEF SigningRoots, InRole, Signs, Verifies
    <3>4. StillVerifies(k)' /\ artifact'.key = k
      BY <1>2, <1>4, <3>2, <3>3 DEF ViewsFollow, Signed
    <3> QED  BY <3>4 DEF ArtifactFollows
  <2>2. CASE SignWithKeyFile
    <3>1. ~artifact'.vouched
      BY <2>2 DEF SignWithKeyFile, Signed
    <3> QED  BY <3>1 DEF ArtifactFollows
  <2>3. CASE Damage
    <3>1. artifact # Null /\ artifact'.vouched = artifact.vouched /\ artifact'.key = artifact.key
      BY <2>3 DEF Damage, TypeOK, Artifacts
    <3> QED  BY <1>2, <1>4, <3>1 DEF ArtifactFollows
  <2>4. CASE artifact' = artifact
    BY <1>2, <1>4, <2>4 DEF ArtifactFollows
  <2> QED  BY <2>1, <2>2, <2>3, <2>4 DEF LoadDirectory, vars
<1> QED  BY <1>1, <1>2, <1>3, <1>4 DEF InTurn

\* Every step publishes in turn, or races.
LEMMA StepInTurn ==
  ASSUME TypeOK, InTurn, [Next]_vars
  PROVE  /\ InTurn'
         /\ ~raced' => file' = file \/ \E revokes : Follows(file, file', revokes)
<1>1. CASE \E o \in Operators : Expand(o) \/ Activate(o) \/ Retire(o) \/ Revoke(o)
  <2>1. file' = file
    BY <1>1 DEF Expand, Activate, Retire, Revoke, Hold
  <2> QED  BY <1>1, <2>1, RotateInTurn DEF Rotate
<1>2. CASE \E o \in Operators : OpenPartial(o) \/ Fill(o) \/ Rename(o) \/ GiveUp(o)
  BY <1>2, WritingInTurn
<1>3. CASE \/ \E v \in Verifiers : LoadDirectory(v) \/ SignAsRoot(v)
           \/ SignWithKeyFile \/ Damage \/ UNCHANGED vars
  BY <1>3, VerifiersInTurn
<1> QED  BY <1>1, <1>2, <1>3 DEF Next

\* As long as no command published over another, every command that is not
\* outdated made its register from the one published, every revocation reported
\* is in it, and what a process holds or a signer signed is honoured by it.
THEOREM CustodyInTurn == Spec => []InTurn
<1>1. Init => InTurn
  <2> SUFFICES ASSUME Init PROVE InTurn
    OBVIOUS
  <2>1. file \in Registers
    BY CustodyAssumption DEF Init
  <2>2. file # Torn
    BY <2>1, CustodyAssumption
  <2>3. ViewsFollow
    BY DEF Init, ViewsFollow, StillVerifies
  <2> QED  BY <2>2, <2>3 DEF Init, InTurn, MadeFromFile, RevokedInFile, ArtifactFollows
<1>2. TypeOK /\ InTurn /\ [Next]_vars => InTurn'
  BY StepInTurn
<1> QED  BY <1>1, <1>2, CustodyTypes, PTL DEF Spec

\* Once a revocation was reported done, no verifier that loads the register
\* accepts anything of that key again, by name or not, for any artifact and any
\* later rotation, as long as no command published over a register it was not made
\* from.  (One that does may bring the key back: there is no lock on the register.)
THEOREM CustodyRevocationHolds == Spec => []RevocationHolds
<1>1. InTurn => RevocationHolds
  <2> SUFFICES ASSUME InTurn, ~raced, artifact # Null, artifact.key \in revoked,
                      NEW r \in Roles, NEW u \in Updates
               PROVE  ~VerifyWithDirectory(file, r, artifact, u) /\ ~VerifyNamed(file, r, artifact)
    BY DEF RevocationHolds
  <2>1. file[artifact.key].status = "revoked"
    BY DEF InTurn, RevokedInFile
  <2>2. artifact.key \notin Trusted(file, r)
    BY <2>1 DEF Trusted, Verifies
  <2> QED  BY <2>2 DEF VerifyWithDirectory, VerifyAny, VerifyNamed, Resolves
<1> QED  BY <1>1, CustodyInTurn, PTL

\* What a signer of the register signed goes on verifying through every later
\* rotation, until its key is revoked, as long as no command published over a
\* register it was not made from.
THEOREM CustodyKeepsVerifying == Spec => []KeepsVerifying
<1>1. InTurn => KeepsVerifying
  <2> SUFFICES ASSUME InTurn, ~raced, artifact # Null, artifact.vouched, artifact.intact,
                      artifact.key \notin revoked
               PROVE  VerifyWithDirectory(file, RoleOf[artifact.key], artifact, artifact.about)
    BY DEF KeepsVerifying
  <2>1. artifact.key \in Registered(file) /\ Verifies(file[artifact.key])
    BY DEF InTurn, ArtifactFollows, StillVerifies
  <2>2. artifact.key \in Trusted(file, RoleOf[artifact.key])
    BY <2>1 DEF Trusted, InRole
  <2> QED  BY <2>2 DEF VerifyWithDirectory, VerifyAny, RequireClaim
<1> QED  BY <1>1, CustodyInTurn, PTL

\* No step makes a key verify that the register did not have staged, as long as no
\* command published over a register it was not made from.
THEOREM CustodyStagedFirst == Spec => StagedFirst
<1> DEFINE Staged ==
      ~raced' => \A k \in Keys :
        k \in Registered(file') /\ Verifies(file'[k])
          => k \in Registered(file) /\ (Verifies(file[k]) \/ file[k].status = "pending")
<1>1. TypeOK /\ InTurn /\ [Next]_vars => Staged
  BY StepInTurn DEF Follows, FollowsAt
<1>2. TypeOK /\ InTurn /\ [Next]_vars => [Staged]_vars
  BY <1>1
<1> QED  BY <1>2, CustodyTypes, CustodyInTurn, PTL DEF Spec, StagedFirst
=============================================================================
