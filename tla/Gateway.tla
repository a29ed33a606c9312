------------------------------ MODULE Gateway ------------------------------
(***************************************************************************)
(* The action gateway of crates/loom-action: agents propose, callers hand  *)
(* proposals to execute(), which decides and acts under one lock and keeps *)
(* what it decided, by idempotency key, in memory.                         *)
(*                                                                         *)
(* A connector is external: it does its work or not, and then answers, or  *)
(* panics.  The kill switch has a lock of its own, and the claims cited as *)
(* evidence live in the database, which may mark them stale at any time.   *)
(***************************************************************************)
EXTENDS Policy, FiniteSets

CONSTANTS
  Callers,            \* threads that call execute
  Ids,                \* idempotency keys
  ActionTypes,
  Connectors,         \* Connectors[a]: "production", "simulated", or "none"
  ClaimKeys, Labels,
  Policies,           \* the rule sets a gateway may be built with
  Offers,             \* what agents propose, each citing some claims
  Actor, Purpose,
  MaxLosses,          \* bound: panics and restarts together
  Null

Statuses == {"refused", "succeeded", "failed", "indeterminate"}

\* ActionRecord, as far as anything looks at it again.
Records == [status : Statuses, action : ActionTypes, justified_by : SUBSET ClaimKeys]

ASSUME GatewayAssumption ==
  /\ Connectors \in [ActionTypes -> {"production", "simulated", "none"}]
  /\ Offers \subseteq [id : Ids, action : ActionTypes, simulation : BOOLEAN, label : Labels,
                      cites : SUBSET ClaimKeys]
  /\ MaxLosses \in Nat
  /\ Null \notin Callers /\ Null \notin Records

VARIABLES
  rules,       \* the policy set the gateway was built with
  kill,        \* KillSwitch, for this gateway's tenant
  lock,        \* who holds the state lock, or Null
  done,        \* done[id]: its ActionRecord, or Null
  call,        \* call[c]: the proposal the caller is executing and how far it is
  claims,      \* claims[k]: the claim in the database: its status, or "uncited",
               \* which has no evidence
  effects,     \* history: effects[id]: how often the world was changed for it
  forgotten,   \* history: forgotten[id]: how many of them no record can tell any more
  late,        \* history: changes since actions were last disabled
  panics, restarts

losses == <<forgotten, panics, restarts>>
vars == <<rules, kill, lock, done, call, claims, effects, late, losses>>

ClaimStates == {"asserted", "stale", "uncited"}

Proposals ==
  [id : Ids, action : ActionTypes, simulation : BOOLEAN, label : Labels,
   evidence : UNION {[ks -> ClaimStates] : ks \in SUBSET ClaimKeys}]

Idle == [at |-> "idle"]

-----------------------------------------------------------------------------

\* Mutant: the global switch is not looked at.
IsDisabledTenant(switch) == switch.tenant

\* is_disabled, for the gateway's own tenant.
IsDisabled(switch) == switch.global \/ switch.tenant

\* is_action_eligible, of the copy the proposal carries.
Eligible(p, k) == p.evidence[k] = "asserted"

\* may_authorize_action.
Request(p) == [actor |-> Actor, label |-> p.label, purpose |-> Purpose, action |-> p.action]

\* Checks 2 to 4 of decide_and_run.
EvidenceStands(p) == DOMAIN p.evidence # {} /\ \A k \in DOMAIN p.evidence : Eligible(p, k)
PolicyAllows(p)   == EngineDecide(Compile(rules), Request(p)) = "allow"
Contained(p)      == Connectors[p.action] # "none"
                     /\ (p.simulation => Connectors[p.action] = "simulated")

\* Mutant: the connector's word is recorded as it is.
StatusOfVerbatim(outcome) == outcome

\* Mutant: no answer to be had counts as a failure.
StatusOfGuess(outcome) ==
  CASE outcome = "succeeded"        -> "succeeded"
    [] outcome = "without_receipt"  -> "succeeded"
    [] OTHER                        -> "failed"

\* The translation of a ConnectorOutcome.
StatusOf(outcome) ==
  CASE outcome = "succeeded" -> "succeeded"
    [] outcome = "failed"    -> "failed"
    [] outcome \in {"without_receipt", "indeterminate"} -> "indeterminate"

\* What a connector may answer once it did its work, and if it did not.
Outcomes(worked) ==
  IF worked THEN {"succeeded", "without_receipt", "indeterminate"} ELSE {"failed", "indeterminate"}

-----------------------------------------------------------------------------

Init ==
  /\ rules \in Policies
  /\ kill = [global |-> FALSE, tenant |-> FALSE]
  /\ lock = Null
  /\ done = [id \in Ids |-> Null]
  /\ call = [c \in Callers |-> Idle]
  /\ claims \in [ClaimKeys -> {"asserted", "uncited"}]
  /\ effects = [id \in Ids |-> 0]
  /\ forgotten = effects
  /\ late = 0 /\ panics = 0 /\ restarts = 0

\* AgentStore::propose, and a caller that takes it to execute: the evidence is
\* the claims as they are now.  A retry is the same again, and a caller may wait
\* as long as it likes before it is let in.
Propose(c, o) ==
  /\ call[c].at = "idle"
  /\ call' = [call EXCEPT ![c] =
       [at |-> "waiting",
        p  |-> [id |-> o.id, action |-> o.action, simulation |-> o.simulation,
                label |-> o.label, evidence |-> [k \in o.cites |-> claims[k]]]]]
  /\ UNCHANGED <<rules, kill, lock, done, claims, effects, late, losses>>

\* Mutant: the records are not looked up.
BeginAlways(c) ==
  /\ call[c].at = "waiting" /\ lock = Null
  /\ lock' = c /\ call' = [call EXCEPT ![c].at = "deciding"]
  /\ UNCHANGED <<rules, kill, done, claims, effects, late, losses>>

\* execute: takes the lock; a decision already on record is the answer.
Begin(c) ==
  /\ call[c].at = "waiting" /\ lock = Null
  /\ IF done[call[c].p.id] # Null
     THEN lock' = Null /\ call' = [call EXCEPT ![c] = Idle]
     ELSE lock' = c /\ call' = [call EXCEPT ![c].at = "deciding"]
  /\ UNCHANGED <<rules, kill, done, claims, effects, late, losses>>

\* The record is inserted and the lock released.
Conclude(c, status) ==
  /\ done' = [done EXCEPT ![call[c].p.id] =
       [status |-> status, action |-> call[c].p.action,
        justified_by |-> DOMAIN call[c].p.evidence]]
  /\ lock' = Null
  /\ call' = [call EXCEPT ![c] = Idle]

\* The kill switch is read under its own lock, and the lock let go.
CheckKill(c) ==
  /\ call[c].at = "deciding" /\ lock = c
  /\ IF IsDisabled(kill) THEN Conclude(c, "refused")
     ELSE call' = [call EXCEPT ![c].at = "checking"] /\ UNCHANGED <<lock, done>>
  /\ UNCHANGED <<rules, kill, claims, effects, late, losses>>

\* Evidence, policy, connector, containment.
CheckRest(c) ==
  /\ call[c].at = "checking" /\ lock = c
  /\ LET p == call[c].p
     IN  IF EvidenceStands(p) /\ PolicyAllows(p) /\ Contained(p)
         THEN call' = [call EXCEPT ![c].at = "acting"] /\ UNCHANGED <<lock, done>>
         ELSE Conclude(c, "refused")
  /\ UNCHANGED <<rules, kill, claims, effects, late, losses>>

\* External: a production connector changes the world; a simulated one does not.
ConnectorWorks(c) ==
  /\ call[c].at = "acting"
  /\ call' = [call EXCEPT ![c].at = "worked"]
  /\ IF Connectors[call[c].p.action] = "production"
     THEN /\ effects' = [effects EXCEPT ![call[c].p.id] = @ + 1]
          /\ late' = IF kill.global THEN late + 1 ELSE late
     ELSE UNCHANGED <<effects, late>>
  /\ UNCHANGED <<rules, kill, lock, done, claims, losses>>

\* The connector answers.
Finish(c, outcome) ==
  /\ call[c].at \in {"acting", "worked"}
  /\ outcome \in Outcomes(call[c].at = "worked")
  /\ Conclude(c, StatusOf(outcome))
  /\ UNCHANGED <<rules, kill, claims, effects, late, losses>>

\* Mutant: a poisoned lock stays locked.
PanicPoisons(c) ==
  /\ call[c].at \in {"acting", "worked"} /\ panics + restarts < MaxLosses
  /\ panics' = panics + 1
  /\ call' = [call EXCEPT ![c] = Idle]
  /\ UNCHANGED <<rules, kill, lock, done, claims, effects, forgotten, late, restarts>>

\* A connector that panics: the lock is poisoned, which the next to take it
\* overlooks, and nothing is recorded.
Panic(c) ==
  /\ call[c].at \in {"acting", "worked"} /\ panics + restarts < MaxLosses
  /\ panics' = panics + 1
  /\ forgotten' = IF call[c].at = "worked"
                  THEN [forgotten EXCEPT ![call[c].p.id] = effects[call[c].p.id]] ELSE forgotten
  /\ lock' = Null
  /\ call' = [call EXCEPT ![c] = Idle]
  /\ UNCHANGED <<rules, kill, done, claims, effects, late, restarts>>

\* disable_all, enable_all and disable_tenant; nothing enables a tenant again.
DisableAll ==
  /\ ~kill.global
  /\ kill' = [kill EXCEPT !.global = TRUE] /\ late' = 0
  /\ UNCHANGED <<rules, lock, done, call, claims, effects, losses>>

EnableAll ==
  /\ kill.global
  /\ kill' = [kill EXCEPT !.global = FALSE]
  /\ UNCHANGED <<rules, lock, done, call, claims, effects, late, losses>>

DisableTenant ==
  /\ ~kill.tenant
  /\ kill' = [kill EXCEPT !.tenant = TRUE]
  /\ UNCHANGED <<rules, lock, done, call, claims, effects, late, losses>>

\* mark_stale, in the database.
MarkStale(k) ==
  /\ claims[k] = "asserted"
  /\ claims' = [claims EXCEPT ![k] = "stale"]
  /\ UNCHANGED <<rules, kill, lock, done, call, effects, late, losses>>

\* The process ends, and another builds its gateway anew.
Restart ==
  /\ panics + restarts < MaxLosses
  /\ restarts' = restarts + 1
  /\ forgotten' = effects
  /\ kill' = [global |-> FALSE, tenant |-> FALSE]
  /\ lock' = Null
  /\ done' = [id \in Ids |-> Null]
  /\ call' = [c \in Callers |-> Idle]
  /\ late' = 0
  /\ UNCHANGED <<rules, claims, effects, panics>>

Next ==
  \/ \E c \in Callers :
       \/ \E o \in Offers : Propose(c, o)
       \/ Begin(c) \/ CheckKill(c) \/ CheckRest(c)
       \/ ConnectorWorks(c) \/ Panic(c)
       \/ \E outcome \in {"succeeded", "without_receipt", "failed", "indeterminate"} : Finish(c, outcome)
  \/ DisableAll \/ EnableAll \/ DisableTenant
  \/ \E k \in ClaimKeys : MarkStale(k)
  \/ Restart

\* The thread that holds the lock goes on, and a connector answers or panics.
Fairness ==
  \A c \in Callers :
    WF_vars(CheckKill(c) \/ CheckRest(c) \/ Panic(c)
            \/ \E outcome \in {"succeeded", "failed", "indeterminate"} : Finish(c, outcome))

Spec == Init /\ [][Next]_vars /\ Fairness

-----------------------------------------------------------------------------
(* Properties. *)

Stages == {"waiting", "deciding", "checking", "acting", "worked"}

\* Every call is at a stage of execute and carries a proposal; what is on record
\* for a key is a whole ActionRecord with one of the four statuses.
TypeOK ==
  /\ rules \in Policies
  /\ kill \in [global : BOOLEAN, tenant : BOOLEAN]
  /\ lock \in Callers \cup {Null}
  /\ done \in [Ids -> {Null} \cup Records]
  /\ call \in [Callers -> {Idle} \cup [at : Stages, p : Proposals]]
  /\ claims \in [ClaimKeys -> ClaimStates]
  /\ effects \in [Ids -> Nat] /\ forgotten \in [Ids -> Nat]
  /\ late \in Nat /\ panics \in Nat /\ restarts \in Nat

\* AT-028: however many callers retry a key, at once or in turn, the world is
\* changed for it once, and once more at most for each panic or restart that lost
\* a record.
AtMostOnce == \A id \in Ids : effects[id] <= 1 + panics + restarts

\* AT-028 as it is stated: once for each key.
AtMostOnceEver == \A id \in Ids : effects[id] <= 1

\* AT-007, AT-031, AT-034, AT-037: whatever reaches a production connector was
\* proposed on a real branch, cites evidence that stood when it was proposed, and
\* the policy as written, not as indexed, permits it.
Authorized ==
  \A c \in Callers :
    call[c].at \in {"acting", "worked"} /\ Connectors[call[c].p.action] # "simulated" =>
      /\ ~call[c].p.simulation
      /\ DOMAIN call[c].p.evidence # {}
      /\ \A k \in DOMAIN call[c].p.evidence : call[c].p.evidence[k] = "asserted"
      /\ Permits(rules, Request(call[c].p))

\* AT-033: once actions are disabled, at most the one that had passed the switch
\* still changes the world, however long the switch stays thrown.
DisableHolds == kill.global => late <= 1

\* to_executed over records, and the irreversible section of a recall plan.
Executed == {id \in Ids : done[id] # Null /\ done[id].status = "succeeded"}
Irreversible(contaminated) == {id \in Executed : done[id].justified_by \cap contaminated # {}}

\* AT-022: whichever claims turn out contaminated, each decided action that rested
\* on one and changed the world is in the irreversible section or on record as
\* unknown, and none is there that changed nothing, simulations apart.  What the
\* records tell is measured against the changes since the key last lost its
\* record: a panic after the work, or a restart, forgets those before.
RecallNames ==
  \A contaminated \in SUBSET ClaimKeys, id \in Ids :
    done[id] # Null /\ done[id].justified_by \cap contaminated # {} =>
      /\ effects[id] > forgotten[id] =>
           id \in Irreversible(contaminated) \/ done[id].status = "indeterminate"
      /\ id \in Irreversible(contaminated) =>
           effects[id] > forgotten[id] \/ Connectors[done[id].action] = "simulated"

\* The lock all actions pass through is always let go, if connectors answer.
Released == \A c \in Callers : lock = c ~> lock # c
=============================================================================
