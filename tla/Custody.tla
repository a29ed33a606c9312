------------------------------ MODULE Custody ------------------------------
(***************************************************************************)
(* Trust-root custody: the register of crates/loom-keys, the `loomctl      *)
(* keys` commands that change it, and the verifiers that read it.          *)
(*                                                                         *)
(* The register is a file.  A command loads it, makes the next register    *)
(* from it and writes that beside the file and over it by a rename; there  *)
(* is no lock, and every command uses the same .partial file.  A verifier  *)
(* holds the register it loaded until it loads again, and a signature is   *)
(* accepted or not by that copy.                                           *)
(*                                                                         *)
(* One artifact in circulation is followed: every property below is about  *)
(* each artifact by itself.                                                *)
(***************************************************************************)
EXTENDS TrustRoots

CONSTANTS
  MaxGeneration,     \* bound: the highest generation an operator asks for
  MaxCommands,       \* bound: commands that get as far as a register to write
  Operators,         \* people running loomctl keys
  Verifiers,         \* processes that hold a loaded register
  InitialRegisters,  \* registers a deployment may start from
  Torn               \* what a file holds that does not parse

\* What a file may hold: a register, or bytes that do not parse.
Contents == Registers \cup {Torn}

ASSUME CustodyAssumption ==
  /\ MaxGeneration \in Nat /\ MaxCommands \in Nat
  /\ InitialRegisters \subseteq Registers
  /\ \A reg \in InitialRegisters : Validate(reg) /\ \A r \in Roles : Unsealed(reg, r)
  /\ Torn \notin Registers \cup {Null}

VARIABLES
  file,       \* the register file
  partial,    \* its .partial sibling: contents, or Null
  command,    \* command[o]: what the operator's command has left to do
  view,       \* view[v]: the register the process loaded
  artifact,   \* the artifact followed, or Null
  revoked,    \* history: the keys whose revocation was reported done
  sealing,    \* history: the roles a command was told it may seal
  raced,      \* history: a register was published over one it was not made from
  commands    \* how many commands there were

vars == <<file, partial, command, view, artifact, revoked, sealing, raced, commands>>

Idle == [at |-> "idle"]

-----------------------------------------------------------------------------

Init ==
  /\ file \in InitialRegisters
  /\ partial = Null
  /\ command = [o \in Operators |-> Idle]
  /\ view = [v \in Verifiers |-> file]
  /\ artifact = Null
  /\ revoked = {} /\ sealing = {} /\ raced = FALSE /\ commands = 0

\* A command loads the register, makes the next one and has it to write.  One
\* that is refused changes nothing.
Hold(o, next, revokes) ==
  /\ command[o] = Idle /\ commands < MaxCommands
  /\ Validate(next)
  /\ commands' = commands + 1
  /\ command' = [command EXCEPT ![o] =
       [at |-> "made", next |-> next, revokes |-> revokes, fd |-> "none", stale |-> FALSE]]
  /\ UNCHANGED <<file, partial, view, artifact, revoked, raced>>

Expand(o) ==
  /\ file # Torn
  /\ \E k \in Keys, g \in 1..MaxGeneration, approvers \in Ceremonies :
       Expandable(file, k, g) /\ Hold(o, Expanded(file, k, g, approvers), {})
  /\ UNCHANGED sealing

Activate(o) ==
  /\ file # Torn
  /\ \E k \in Keys : Activatable(file, k) /\ Hold(o, Activated(file, k), {})
  /\ UNCHANGED sealing

Retire(o) ==
  /\ file # Torn
  /\ \E k \in Keys : Retirable(file, k) /\ Hold(o, Retired(file, k), {})
  /\ UNCHANGED sealing

Revoke(o) ==
  /\ file # Torn
  /\ \E k \in Keys, allow_seal \in BOOLEAN :
       /\ Revocable(file, k, allow_seal)
       /\ Hold(o, Revoked(file, k), {k})
       /\ sealing' = IF allow_seal THEN sealing \cup {RoleOf[k]} ELSE sealing

\* The .partial file is opened and cut to nothing.
OpenPartial(o) ==
  /\ command[o].at = "made"
  /\ partial' = Torn
  /\ command' = [command EXCEPT ![o].at = "opened", ![o].fd = "partial"]
  /\ UNCHANGED <<file, view, artifact, revoked, sealing, raced, commands>>

\* What one register written over other bytes may leave.
Over(old, next) == IF old = Torn THEN {next} ELSE {next, Torn}

\* Everyone else's register was made from one that is no longer there.
Outdated(cmds, o) ==
  [p \in Operators |-> IF p # o /\ cmds[p] # Idle THEN [cmds[p] EXCEPT !.stale = TRUE] ELSE cmds[p]]

\* The register is written, to wherever the file it opened is by now.
Fill(o) ==
  /\ command[o].at = "opened"
  /\ LET c == command[o]
         done == [command EXCEPT ![o].at = "filled"]
     IN \/ /\ c.fd = "partial"
           /\ partial' \in Over(partial, c.next)
           /\ command' = done
           /\ UNCHANGED <<file, raced>>
        \/ /\ c.fd = "file"
           /\ file' \in Over(file, c.next)
           /\ raced' = TRUE
           /\ command' = Outdated(done, o)
           /\ UNCHANGED partial
        \/ /\ c.fd = "gone"
           /\ command' = done
           /\ UNCHANGED <<file, partial, raced>>
  /\ UNCHANGED <<view, artifact, revoked, sealing, commands>>

\* Where an open file is after .partial was renamed over the register.
Moved(fd) == CASE fd = "partial" -> "file" [] fd = "file" -> "gone" [] OTHER -> fd

\* .partial is renamed over the register: the command is done.  There is none if
\* somebody else's rename took it: the command failed.
Rename(o) ==
  /\ command[o].at = "filled"
  /\ IF partial = Null
     THEN /\ command' = [command EXCEPT ![o] = Idle]
          /\ UNCHANGED <<file, partial, revoked, raced>>
     ELSE /\ file' = partial /\ partial' = Null
          /\ raced' = (raced \/ command[o].stale \/ partial # command[o].next)
          /\ revoked' = revoked \cup command[o].revokes
          /\ command' = [p \in Operators |->
               IF p = o THEN Idle
               ELSE IF command[p] = Idle THEN Idle
               ELSE [command[p] EXCEPT !.stale = TRUE, !.fd = Moved(command[p].fd)]]
  /\ UNCHANGED <<view, artifact, sealing, commands>>

\* The operator's process ends, or a write of its fails: the command is given up.
GiveUp(o) ==
  /\ command[o] # Idle
  /\ command' = [command EXCEPT ![o] = Idle]
  /\ UNCHANGED <<file, partial, view, artifact, revoked, sealing, raced, commands>>

\* KeyDirectory::load.  What does not parse or validate is refused.  So is what is
\* no regular file, others may write or is longer than 256 KiB; nothing here is,
\* though only load, and not the commands that write, looks at the length.
LoadDirectory(v) ==
  /\ file # Torn /\ Validate(file)
  /\ view' = [view EXCEPT ![v] = file]
  /\ UNCHANGED <<file, partial, command, artifact, revoked, sealing, raced, commands>>

\* A signer made for a root of the register its process holds, as the drill does.
SignAsRoot(v) ==
  /\ \E r \in Roles : \E k \in SigningRoots(view[v], r), u \in Updates :
       /\ SoftwareSigner(view[v], k) \/ KmsSigner(view[v], k)
       /\ artifact' = Signed(k, u, TRUE)
  /\ UNCHANGED <<file, partial, command, view, revoked, sealing, raced, commands>>

\* loom-bundle-tool sign: a key file, and no register is asked.
SignWithKeyFile ==
  /\ \E k \in Keys, u \in Updates :
       /\ BackendOf[k] = "software"
       /\ artifact' = Signed(k, u, FALSE)
  /\ UNCHANGED <<file, partial, command, view, revoked, sealing, raced, commands>>

\* The payload that arrives is not the one that was signed.
Damage ==
  /\ artifact # Null
  /\ artifact' = [artifact EXCEPT !.intact = FALSE]
  /\ UNCHANGED <<file, partial, command, view, revoked, sealing, raced, commands>>

Next ==
  \/ \E o \in Operators :
        \/ Expand(o) \/ Activate(o) \/ Retire(o) \/ Revoke(o)
        \/ OpenPartial(o) \/ Fill(o) \/ Rename(o) \/ GiveUp(o)
  \/ \E v \in Verifiers : LoadDirectory(v) \/ SignAsRoot(v)
  \/ SignWithKeyFile
  \/ Damage

Spec == Init /\ [][Next]_vars

-----------------------------------------------------------------------------

\* A command that has a register to write.
Pending ==
  [at : {"made", "opened", "filled"}, next : Registers, revokes : SUBSET Keys,
   fd : {"none", "partial", "file", "gone"}, stale : BOOLEAN]

Commands == {Idle} \cup Pending

\* The values the variables take.
TypeOK ==
  /\ file \in Contents /\ partial \in Contents \cup {Null}
  /\ command \in [Operators -> Commands]
  /\ view \in [Verifiers -> Registers]
  /\ artifact \in Artifacts \cup {Null}
  /\ revoked \in SUBSET Keys /\ sealing \in SUBSET Roles /\ raced \in BOOLEAN
  /\ commands \in 0..MaxCommands

\* Every register in the system: published, being written, or loaded.
Copies ==
  ({file, partial} \cup {command[o].next : o \in {p \in Operators : command[p] # Idle}}
    \cup {view[v] : v \in Verifiers}) \ {Null, Torn}

\* No sequence of commands, overlapping or left half done, takes the last key
\* that verifies away from a role, unless a revocation was told to seal it
\* (rotation.rs: "refused unless the caller says that is what they mean").
SomeoneVerifies == \A reg \in Copies : \A r \in Roles \ sealing : Unsealed(reg, r)

\* Once a revocation was reported done, no verifier that loads the register
\* accepts anything of that key again, by name or not, unless one command
\* published over another.
RevocationHolds ==
  ~raced /\ artifact # Null /\ artifact.key \in revoked
    => \A r \in Roles, u \in Updates :
         ~VerifyWithDirectory(file, r, artifact, u) /\ ~VerifyNamed(file, r, artifact)

\* What a signer of the register signed goes on verifying through every later
\* rotation, until its key is revoked ("last week's backups and yesterday's
\* bundles keep verifying"), unless one command published over another.
KeepsVerifying ==
  ~raced /\ artifact # Null /\ artifact.vouched /\ artifact.intact /\ artifact.key \notin revoked
    => VerifyWithDirectory(file, RoleOf[artifact.key], artifact, artifact.about)

\* A key begins to verify only from the register that had it staged: nothing is
\* trusted before it was there to distribute, and a revoked key never comes
\* back, unless one command published over another.
StagedFirst ==
  [][~raced' => \A k \in Keys :
       k \in Registered(file') /\ Verifies(file'[k])
         => k \in Registered(file) /\ (Verifies(file[k]) \/ file[k].status = "pending")]_vars
=============================================================================
