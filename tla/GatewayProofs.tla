--------------------------- MODULE GatewayProofs ---------------------------
(***************************************************************************)
(* The gateway's safety for every number of callers, keys, policies and    *)
(* connectors, and however often it panics or restarts.                    *)
(***************************************************************************)
EXTENDS Gateway, TLAPS

USE DEF losses

\* How far a call is once it holds the lock.
Inside == {"deciding", "checking", "acting", "worked"}

\* The caller that is inside holds the lock, and its key has no record yet.
LockInv ==
  /\ \A c \in Callers : call[c].at \in Inside <=> lock = c
  /\ \A c \in Callers : lock = c => done[call[c].p.id] = Null

\* Each change of the world is accounted for: by the record of its key, by the
\* call whose connector has worked, or by a panic or restart.
Accounted(id) ==
  done[id] # Null \/ \E c \in Callers : call[c].at = "worked" /\ call[c].p.id = id

CountInv ==
  \A id \in Ids : effects[id] <= panics + restarts + IF Accounted(id) THEN 1 ELSE 0

\* Past the switch, and not yet worked.
Past == \E c \in Callers : call[c].at \in {"checking", "acting"}

SwitchInv == kill.global => late <= 1 /\ (Past => late = 0)

\* What is on record of a change of the world: that it happened, or that nobody
\* knows.
Told(id) == done[id] # Null /\ done[id].status \in {"succeeded", "indeterminate"}

\* Since a key last lost its record the world and the records tell the same: what
\* changed is told, or about to be, and what is told as done is done.
Since(id) == effects[id] > forgotten[id]

WorldInv ==
  /\ \A c \in Callers : call[c].at \in {"acting", "worked"} => Connectors[call[c].p.action] # "none"
  /\ \A id \in Ids : forgotten[id] <= effects[id]
  /\ \A id \in Ids : Since(id) =>
       Told(id) \/ \E c \in Callers : call[c].at = "worked" /\ call[c].p.id = id
  /\ \A id \in Ids : done[id] # Null /\ done[id].status = "succeeded" =>
       Since(id) \/ Connectors[done[id].action] = "simulated"
  /\ \A c \in Callers : call[c].at = "worked" =>
       Since(call[c].p.id) \/ Connectors[call[c].p.action] = "simulated"

IInv == TypeOK /\ LockInv /\ CountInv /\ SwitchInv /\ WorldInv /\ Authorized

-----------------------------------------------------------------------------

\* What the indexed engine allows, the rules as written permit.
LEMMA EngineFaithful ==
  ASSUME NEW rs, NEW req, EngineDecide(Compile(rs), req) = "allow"
  PROVE  Permits(rs, req)
<1> DEFINE applicable == {r \in Specific(Compile(rs), req.action) \cup Compile(rs).any_action :
                            AppliesTo(r, req)}
<1>1. applicable = {r \in rs : AppliesTo(r, req)}
  BY DEF Specific, Compile, AppliesTo, Matches
<1>2. /\ ~ \E r \in applicable : r.effect = "deny"
      /\ \E r \in applicable : r.effect = "allow"
  BY DEF EngineDecide
<1> QED
  BY <1>1, <1>2 DEF Permits

\* A call that is on its way carries a proposal.
LEMMA Calling ==
  ASSUME TypeOK, NEW c \in Callers, call[c].at # "idle"
  PROVE  /\ call[c] \in [at : Stages, p : Proposals]
         /\ call[c].p \in Proposals
         /\ call[c].p.id \in Ids
         /\ call[c].p.action \in ActionTypes
         /\ DOMAIN call[c].p.evidence \subseteq ClaimKeys
<1>1. call[c] \in [at : Stages, p : Proposals]
  BY DEF TypeOK, Idle
<1>2. call[c].p \in Proposals
  BY <1>1
<1>3. PICK ks \in SUBSET ClaimKeys : call[c].p.evidence \in [ks -> ClaimStates]
  BY <1>2 DEF Proposals
<1> QED
  BY <1>1, <1>2, <1>3 DEF Proposals

\* Recording a status and returning keeps every type.
LEMMA ConcludeTypes ==
  ASSUME TypeOK, NEW c \in Callers, call[c].at # "idle",
         NEW status \in Statuses, Conclude(c, status)
  PROVE  /\ lock' \in Callers \cup {Null}
         /\ done' \in [Ids -> {Null} \cup Records]
         /\ call' \in [Callers -> {Idle} \cup [at : Stages, p : Proposals]]
  BY Calling DEF TypeOK, Conclude, Records

\* Every step of the gateway, its callers and its connectors keeps the types.
LEMMA TypeNext == TypeOK /\ [Next]_vars => TypeOK'
<1> SUFFICES ASSUME TypeOK, [Next]_vars PROVE TypeOK'
  OBVIOUS
<1>1. ASSUME NEW c \in Callers, NEW o \in Offers, Propose(c, o) PROVE TypeOK'
  <2>1. [k \in o.cites |-> claims[k]] \in [o.cites -> ClaimStates] /\ o.cites \in SUBSET ClaimKeys
    BY <1>1, GatewayAssumption DEF TypeOK
  <2> DEFINE p == [id |-> o.id, action |-> o.action, simulation |-> o.simulation,
                   label |-> o.label, evidence |-> [k \in o.cites |-> claims[k]]]
  <2>2. p \in Proposals
    BY <2>1, GatewayAssumption DEF Proposals
  <2>3. call' \in [Callers -> {Idle} \cup [at : Stages, p : Proposals]]
    BY <1>1, <2>2 DEF TypeOK, Propose, Stages
  <2> QED
    BY <1>1, <2>3 DEF TypeOK, Propose
<1>2. ASSUME NEW c \in Callers, Begin(c) PROVE TypeOK'
  <2>1. call' \in [Callers -> {Idle} \cup [at : Stages, p : Proposals]]
    BY <1>2, Calling DEF TypeOK, Begin, Stages
  <2> QED
    BY <1>2, <2>1 DEF TypeOK, Begin
<1>3. ASSUME NEW c \in Callers, CheckKill(c) PROVE TypeOK'
  <2>1. CASE IsDisabled(kill)
    BY <1>3, <2>1, ConcludeTypes DEF TypeOK, CheckKill, Statuses
  <2>2. CASE ~IsDisabled(kill)
    <3>1. call' \in [Callers -> {Idle} \cup [at : Stages, p : Proposals]]
      BY <1>3, <2>2, Calling DEF TypeOK, CheckKill, Stages
    <3> QED
      BY <1>3, <2>2, <3>1 DEF TypeOK, CheckKill
  <2> QED
    BY <2>1, <2>2
<1>4. ASSUME NEW c \in Callers, CheckRest(c) PROVE TypeOK'
  <2>1. CASE Conclude(c, "refused")
    BY <1>4, <2>1, ConcludeTypes DEF TypeOK, CheckRest, Statuses
  <2>2. CASE call' = [call EXCEPT ![c].at = "acting"] /\ UNCHANGED <<lock, done>>
    <3>1. call' \in [Callers -> {Idle} \cup [at : Stages, p : Proposals]]
      BY <1>4, <2>2, Calling DEF TypeOK, CheckRest, Stages
    <3> QED
      BY <1>4, <2>2, <3>1 DEF TypeOK, CheckRest
  <2> QED
    BY <1>4, <2>1, <2>2 DEF CheckRest
<1>5. ASSUME NEW c \in Callers, ConnectorWorks(c) PROVE TypeOK'
  <2>1. call' \in [Callers -> {Idle} \cup [at : Stages, p : Proposals]]
    BY <1>5, Calling DEF TypeOK, ConnectorWorks, Stages
  <2>2. effects' \in [Ids -> Nat] /\ late' \in Nat
    BY <1>5, Calling DEF TypeOK, ConnectorWorks
  <2> QED
    BY <1>5, <2>1, <2>2 DEF TypeOK, ConnectorWorks
<1>6. ASSUME NEW c \in Callers, NEW outcome, Finish(c, outcome) PROVE TypeOK'
  <2>1. StatusOf(outcome) \in Statuses
    BY <1>6 DEF Finish, Outcomes, StatusOf, Statuses
  <2> QED
    BY <1>6, <2>1, ConcludeTypes DEF TypeOK, Finish
<1>7. ASSUME NEW c \in Callers, Panic(c) PROVE TypeOK'
  <2>1. call' \in [Callers -> {Idle} \cup [at : Stages, p : Proposals]]
    BY <1>7 DEF TypeOK, Panic
  <2>2. forgotten' \in [Ids -> Nat]
    BY <1>7, Calling DEF TypeOK, Panic
  <2> QED
    BY <1>7, <2>1, <2>2 DEF TypeOK, Panic
<1>8. CASE DisableAll \/ EnableAll \/ DisableTenant
  <2>1. kill' \in [global : BOOLEAN, tenant : BOOLEAN]
    <3>1. CASE DisableAll
      BY <3>1, Zenon DEF TypeOK, DisableAll
    <3>2. CASE EnableAll
      BY <3>2, Zenon DEF TypeOK, EnableAll
    <3>3. CASE DisableTenant
      BY <3>3, Zenon DEF TypeOK, DisableTenant
    <3> QED
      BY <1>8, <3>1, <3>2, <3>3
  <2>2. late' \in Nat
    BY <1>8 DEF TypeOK, DisableAll, EnableAll, DisableTenant
  <2>3. UNCHANGED <<rules, lock, done, call, claims, effects, losses>>
    BY <1>8 DEF DisableAll, EnableAll, DisableTenant
  <2> QED
    BY <2>1, <2>2, <2>3 DEF TypeOK
<1>9. ASSUME NEW k \in ClaimKeys, MarkStale(k) PROVE TypeOK'
  BY <1>9 DEF TypeOK, MarkStale, ClaimStates
<1>10. CASE Restart
  BY <1>10 DEF TypeOK, Restart
<1>11. CASE UNCHANGED vars
  BY <1>11 DEF TypeOK, vars
<1> QED
  BY <1>1, <1>2, <1>3, <1>4, <1>5, <1>6, <1>7, <1>8, <1>9, <1>10, <1>11 DEF Next

\* No action leaves two callers inside, or one inside with a decided key.
LEMMA LockNext == TypeOK /\ LockInv /\ [Next]_vars => LockInv'
<1> SUFFICES ASSUME TypeOK, LockInv, [Next]_vars PROVE LockInv'
  OBVIOUS
<1> USE GatewayAssumption
<1>1. ASSUME NEW c \in Callers, NEW o \in Offers, Propose(c, o) PROVE LockInv'
  BY <1>1 DEF TypeOK, LockInv, Propose, Inside
<1>2. ASSUME NEW c \in Callers, Begin(c) PROVE LockInv'
  BY <1>2, Calling DEF TypeOK, LockInv, Begin, Inside, Idle
<1>3. ASSUME NEW c \in Callers, NEW status, lock = c, Conclude(c, status) PROVE LockInv'
  BY <1>3 DEF TypeOK, LockInv, Conclude, Inside, Idle
<1>4. ASSUME NEW c \in Callers, NEW stage \in Inside, lock = c,
             call' = [call EXCEPT ![c].at = stage], UNCHANGED <<lock, done>>
      PROVE  LockInv'
  BY <1>4, Calling DEF TypeOK, LockInv, Inside
<1>5. ASSUME NEW c \in Callers, CheckKill(c) PROVE LockInv'
  BY <1>3, <1>4, <1>5 DEF CheckKill, Inside
<1>6. ASSUME NEW c \in Callers, CheckRest(c) PROVE LockInv'
  BY <1>3, <1>4, <1>6 DEF CheckRest, Inside
<1>7. ASSUME NEW c \in Callers, ConnectorWorks(c) PROVE LockInv'
  BY <1>4, <1>7 DEF ConnectorWorks, LockInv, Inside
<1>8. ASSUME NEW c \in Callers, NEW outcome, Finish(c, outcome) PROVE LockInv'
  BY <1>3, <1>8 DEF Finish, LockInv, Inside
<1>9. ASSUME NEW c \in Callers, Panic(c) PROVE LockInv'
  BY <1>9 DEF TypeOK, LockInv, Panic, Inside, Idle
<1>10. CASE DisableAll \/ EnableAll \/ DisableTenant
  BY <1>10 DEF LockInv, DisableAll, EnableAll, DisableTenant
<1>11. ASSUME NEW k \in ClaimKeys, MarkStale(k) PROVE LockInv'
  BY <1>11 DEF LockInv, MarkStale
<1>12. CASE Restart
  BY <1>12 DEF LockInv, Restart, Inside, Idle
<1>13. CASE UNCHANGED vars
  BY <1>13 DEF LockInv, vars
<1> QED
  BY <1>1, <1>2, <1>5, <1>6, <1>7, <1>8, <1>9, <1>10, <1>11, <1>12, <1>13 DEF Next

\* A change of the world is accounted for as long as no record is lost.
LEMMA CountNext == TypeOK /\ LockInv /\ CountInv /\ [Next]_vars => CountInv'
<1> SUFFICES ASSUME TypeOK, LockInv, CountInv, [Next]_vars,
                    NEW id \in Ids
             PROVE  effects'[id] <= panics' + restarts' + IF Accounted(id)' THEN 1 ELSE 0
  BY DEF CountInv
<1> DEFINE Goal == effects'[id] <= panics' + restarts' + IF Accounted(id)' THEN 1 ELSE 0
<1> USE GatewayAssumption
<1>1. /\ effects[id] \in Nat /\ panics \in Nat /\ restarts \in Nat
      /\ effects[id] <= panics + restarts + IF Accounted(id) THEN 1 ELSE 0
  BY DEF TypeOK, CountInv
<1>2. ASSUME UNCHANGED <<effects, panics, restarts>>, Accounted(id) => Accounted(id)' PROVE Goal
  BY <1>1, <1>2
<1>3. ASSUME NEW c \in Callers, NEW o \in Offers, Propose(c, o) PROVE Goal
  <2>1. Accounted(id) => Accounted(id)'
    BY <1>3 DEF TypeOK, Accounted, Propose
  <2> QED
    BY <1>2, <1>3, <2>1 DEF Propose
<1>4. ASSUME NEW c \in Callers, Begin(c) PROVE Goal
  <2>1. Accounted(id) => Accounted(id)'
    BY <1>4, Calling DEF TypeOK, Accounted, Begin
  <2> QED
    BY <1>2, <1>4, <2>1 DEF Begin
<1>5. ASSUME NEW c \in Callers, NEW status \in Statuses, call[c].at # "idle",
             Conclude(c, status), UNCHANGED <<effects, panics, restarts>>
      PROVE  Goal
  <2> DEFINE record == [status |-> status, action |-> call[c].p.action,
                        justified_by |-> DOMAIN call[c].p.evidence]
  <2>1. record # Null
    BY <1>5, Calling DEF Records
  <2>2. /\ done' = [done EXCEPT ![call[c].p.id] = record]
        /\ call' = [call EXCEPT ![c] = Idle]
    BY <1>5 DEF Conclude
  <2> HIDE DEF record
  <2>3. Accounted(id) => Accounted(id)'
    BY <2>1, <2>2, <1>5, Calling DEF TypeOK, Accounted
  <2> QED
    BY <1>2, <1>5, <2>3
<1>6. ASSUME NEW c \in Callers, NEW stage, call[c].at # "worked", call[c].at # "idle",
             call' = [call EXCEPT ![c].at = stage], UNCHANGED <<done, effects, panics, restarts>>
      PROVE  Goal
  <2>1. Accounted(id) => Accounted(id)'
    BY <1>6 DEF TypeOK, Accounted
  <2> QED
    BY <1>2, <1>6, <2>1
<1>7. ASSUME NEW c \in Callers, CheckKill(c) PROVE Goal
  BY <1>5, <1>6, <1>7 DEF CheckKill, Statuses
<1>8. ASSUME NEW c \in Callers, CheckRest(c) PROVE Goal
  BY <1>5, <1>6, <1>8 DEF CheckRest, Statuses
<1>9. ASSUME NEW c \in Callers, ConnectorWorks(c) PROVE Goal
  <2>1. /\ call[c].at = "acting" /\ lock = c /\ call[c].p.id \in Ids /\ done[call[c].p.id] = Null
        /\ \A d \in Callers : call[d].at = "worked" => d = c
    BY <1>9, Calling DEF LockInv, ConnectorWorks, Inside
  <2>2. CASE id = call[c].p.id
    <3>1. ~Accounted(id)
      BY <2>1, <2>2 DEF Accounted
    <3>2. Accounted(id)'
      BY <1>9, <2>2, Calling DEF TypeOK, Accounted, ConnectorWorks
    <3>3. effects'[id] <= effects[id] + 1 /\ UNCHANGED <<panics, restarts>>
      BY <1>9, <1>1 DEF TypeOK, ConnectorWorks
    <3>4. effects'[id] \in Nat
      BY <1>9, <1>1 DEF TypeOK, ConnectorWorks
    <3> QED
      BY <1>1, <3>1, <3>2, <3>3, <3>4
  <2>3. CASE id # call[c].p.id
    <3>1. Accounted(id) => Accounted(id)'
      BY <1>9, <2>1 DEF TypeOK, Accounted, ConnectorWorks
    <3>2. effects'[id] = effects[id] /\ UNCHANGED <<panics, restarts>>
      BY <1>9, <2>3 DEF TypeOK, ConnectorWorks
    <3> QED
      BY <1>1, <3>1, <3>2
  <2> QED
    BY <2>2, <2>3
<1>10. ASSUME NEW c \in Callers, NEW outcome, Finish(c, outcome) PROVE Goal
  <2>1. StatusOf(outcome) \in Statuses
    BY <1>10 DEF Finish, Outcomes, StatusOf, Statuses
  <2> QED
    BY <1>5, <1>10, <2>1 DEF Finish
<1>11. ASSUME NEW c \in Callers, Panic(c) PROVE Goal
  <2>1. panics' = panics + 1 /\ UNCHANGED <<effects, restarts>>
    BY <1>11 DEF Panic
  <2> QED
    BY <1>1, <2>1
<1>12. CASE Restart
  <2>1. restarts' = restarts + 1 /\ UNCHANGED <<effects, panics>>
    BY <1>12 DEF Restart
  <2> QED
    BY <1>1, <2>1
<1>13. ASSUME UNCHANGED <<done, call, effects, panics, restarts>> PROVE Goal
  BY <1>2, <1>13 DEF Accounted
<1>14. CASE DisableAll \/ EnableAll \/ DisableTenant
  BY <1>13, <1>14 DEF DisableAll, EnableAll, DisableTenant
<1>15. ASSUME NEW k \in ClaimKeys, MarkStale(k) PROVE Goal
  BY <1>13, <1>15 DEF MarkStale
<1>16. CASE UNCHANGED vars
  BY <1>13, <1>16 DEF vars
<1> QED
  BY <1>3, <1>4, <1>7, <1>8, <1>9, <1>10, <1>11, <1>12, <1>14, <1>15, <1>16 DEF Next

\* Once the switch is thrown, only the call that was past it still counts.
LEMMA SwitchNext == TypeOK /\ LockInv /\ SwitchInv /\ [Next]_vars => SwitchInv'
<1> SUFFICES ASSUME TypeOK, LockInv, SwitchInv, [Next]_vars PROVE SwitchInv'
  OBVIOUS
<1> USE GatewayAssumption
<1>0. late \in Nat
  BY DEF TypeOK
<1>1. ASSUME UNCHANGED <<kill, late>>, Past' => Past PROVE SwitchInv'
  BY <1>1 DEF SwitchInv
<1>2. ASSUME NEW c \in Callers, NEW o \in Offers, Propose(c, o) PROVE SwitchInv'
  <2>1. Past' => Past
    BY <1>2 DEF TypeOK, Past, Propose
  <2> QED
    BY <1>1, <1>2, <2>1 DEF Propose
<1>3. ASSUME NEW c \in Callers, Begin(c) PROVE SwitchInv'
  <2>1. Past' => Past
    BY <1>3, Calling DEF TypeOK, Past, Begin, Idle
  <2> QED
    BY <1>1, <1>3, <2>1 DEF Begin
<1>4. ASSUME NEW c \in Callers, NEW status, Conclude(c, status), UNCHANGED <<kill, late>>
      PROVE  SwitchInv'
  <2>1. Past' => Past
    BY <1>4 DEF TypeOK, Past, Conclude, Idle
  <2> QED
    BY <1>1, <1>4, <2>1
<1>5. ASSUME NEW c \in Callers, CheckKill(c) PROVE SwitchInv'
  <2>1. CASE IsDisabled(kill)
    BY <1>4, <1>5, <2>1 DEF CheckKill
  <2>2. CASE ~IsDisabled(kill)
    BY <1>5, <2>2 DEF CheckKill, SwitchInv, IsDisabled
  <2> QED
    BY <2>1, <2>2
<1>6. ASSUME NEW c \in Callers, CheckRest(c) PROVE SwitchInv'
  <2>1. CASE Conclude(c, "refused")
    BY <1>4, <1>6, <2>1 DEF CheckRest
  <2>2. CASE call' = [call EXCEPT ![c].at = "acting"]
    <3>1. Past' => Past
      BY <1>6, <2>2 DEF TypeOK, Past, CheckRest
    <3> QED
      BY <1>1, <1>6, <3>1 DEF CheckRest
  <2> QED
    BY <1>6, <2>1, <2>2 DEF CheckRest
<1>7. ASSUME NEW c \in Callers, ConnectorWorks(c) PROVE SwitchInv'
  <2>1. call[c].at = "acting" /\ call' = [call EXCEPT ![c].at = "worked"]
    BY <1>7 DEF ConnectorWorks
  <2>2. \A d \in Callers : call[d].at \in Inside => d = c
    BY <2>1 DEF LockInv, Inside
  <2>3. ~Past'
    BY <2>1, <2>2, Calling DEF TypeOK, Past, Inside
  <2>4. kill.global => late = 0
    BY <2>1 DEF SwitchInv, Past
  <2>5. late' \in {late, late + 1} /\ kill' = kill
    BY <1>7 DEF ConnectorWorks
  <2>6. kill.global => late' <= 1
    BY <2>4, <2>5
  <2> QED
    BY <2>3, <2>5, <2>6 DEF SwitchInv
<1>8. ASSUME NEW c \in Callers, NEW outcome, Finish(c, outcome) PROVE SwitchInv'
  BY <1>4, <1>8 DEF Finish
<1>9. ASSUME NEW c \in Callers, Panic(c) PROVE SwitchInv'
  <2>1. Past' => Past
    BY <1>9 DEF TypeOK, Past, Panic, Idle
  <2> QED
    BY <1>1, <1>9, <2>1 DEF Panic
<1>10. CASE DisableAll
  BY <1>10 DEF DisableAll, SwitchInv
<1>11. CASE EnableAll
  <2>1. ~kill'.global
    BY <1>11 DEF TypeOK, EnableAll
  <2> QED
    BY <2>1 DEF SwitchInv
<1>12. CASE DisableTenant
  <2>1. kill'.global = kill.global
    BY <1>12 DEF TypeOK, DisableTenant
  <2>2. UNCHANGED <<late, call>>
    BY <1>12 DEF DisableTenant
  <2> QED
    BY <2>1, <2>2 DEF SwitchInv, Past
<1>13. CASE Restart
  BY <1>13 DEF Restart, SwitchInv
<1>14. ASSUME UNCHANGED <<kill, late, call>> PROVE SwitchInv'
  BY <1>1, <1>14 DEF Past
<1>15. ASSUME NEW k \in ClaimKeys, MarkStale(k) PROVE SwitchInv'
  BY <1>14, <1>15 DEF MarkStale
<1>16. CASE UNCHANGED vars
  BY <1>14, <1>16 DEF vars
<1> QED
  BY <1>2, <1>3, <1>5, <1>6, <1>7, <1>8, <1>9, <1>10, <1>11, <1>12, <1>13, <1>15, <1>16 DEF Next

\* Only the checks let a call through to a connector.
LEMMA AuthorizedNext == TypeOK /\ Authorized /\ [Next]_vars => Authorized'
<1> SUFFICES ASSUME TypeOK, Authorized, [Next]_vars PROVE Authorized'
  OBVIOUS
<1>0. rules' = rules
  BY DEF Next, vars, Propose, Begin, CheckKill, CheckRest, ConnectorWorks, Finish, Panic,
         DisableAll, EnableAll, DisableTenant, MarkStale, Restart
<1>1. ASSUME \A d \in Callers : call'[d].at \in {"acting", "worked"} =>
               call[d].at \in {"acting", "worked"} /\ call'[d].p = call[d].p
      PROVE  Authorized'
  BY <1>0, <1>1 DEF Authorized, Request
<1>2. ASSUME NEW c \in Callers, NEW o \in Offers, Propose(c, o) PROVE Authorized'
  BY <1>1, <1>2 DEF TypeOK, Propose
<1>3. ASSUME NEW c \in Callers, Begin(c) PROVE Authorized'
  BY <1>1, <1>3, Calling DEF TypeOK, Begin, Idle
<1>4. ASSUME NEW c \in Callers, NEW status, Conclude(c, status) PROVE Authorized'
  BY <1>1, <1>4 DEF TypeOK, Conclude, Idle
<1>5. ASSUME NEW c \in Callers, CheckKill(c) PROVE Authorized'
  <2>1. CASE call' = [call EXCEPT ![c].at = "checking"]
    BY <1>1, <1>5, <2>1, Calling DEF TypeOK, CheckKill
  <2> QED
    BY <1>4, <1>5, <2>1 DEF CheckKill
<1>6. ASSUME NEW c \in Callers, CheckRest(c) PROVE Authorized'
  <2>1. CASE Conclude(c, "refused")
    BY <1>4, <2>1
  <2>2. CASE /\ EvidenceStands(call[c].p) /\ PolicyAllows(call[c].p) /\ Contained(call[c].p)
             /\ call' = [call EXCEPT ![c].at = "acting"]
    <3>1. Permits(rules, Request(call[c].p))
      BY <2>2, EngineFaithful DEF PolicyAllows
    <3>2. call'[c].p = call[c].p /\ \A d \in Callers \ {c} : call'[d] = call[d]
      BY <1>6, <2>2, Calling DEF TypeOK, CheckRest
    <3>3. Connectors[call[c].p.action] # "simulated" => ~call[c].p.simulation
      BY <2>2 DEF Contained
    <3> QED
      BY <1>0, <2>2, <3>1, <3>2, <3>3 DEF Authorized, EvidenceStands, Eligible, Request
  <2> QED
    BY <1>6, <2>1, <2>2 DEF CheckRest
<1>7. ASSUME NEW c \in Callers, ConnectorWorks(c) PROVE Authorized'
  BY <1>1, <1>7, Calling DEF TypeOK, ConnectorWorks
<1>8. ASSUME NEW c \in Callers, NEW outcome, Finish(c, outcome) PROVE Authorized'
  BY <1>4, <1>8 DEF Finish
<1>9. ASSUME NEW c \in Callers, Panic(c) PROVE Authorized'
  BY <1>1, <1>9 DEF TypeOK, Panic, Idle
<1>10. CASE Restart
  BY <1>1, <1>10 DEF Restart, Idle
<1>11. CASE DisableAll \/ EnableAll \/ DisableTenant
  BY <1>1, <1>11 DEF DisableAll, EnableAll, DisableTenant
<1>12. ASSUME NEW k \in ClaimKeys, MarkStale(k) PROVE Authorized'
  BY <1>1, <1>12 DEF MarkStale
<1>13. CASE UNCHANGED vars
  BY <1>1, <1>13 DEF vars
<1> QED
  BY <1>2, <1>3, <1>5, <1>6, <1>7, <1>8, <1>9, <1>10, <1>11, <1>12, <1>13 DEF Next

\* A connector was found before it is called, and what it does is told: as a
\* success when it worked, as unknown when it did not say, and never as undone.
LEMMA WorldNext == TypeOK /\ LockInv /\ WorldInv /\ [Next]_vars => WorldInv'
<1> SUFFICES ASSUME TypeOK, LockInv, WorldInv, [Next]_vars PROVE WorldInv'
  OBVIOUS
<1> USE GatewayAssumption
<1>1. ASSUME UNCHANGED <<done, effects, forgotten>>,
             \A c \in Callers : call'[c].at \in {"acting", "worked"} \/ call[c].at = "worked" =>
                                  call'[c] = call[c]
      PROVE  WorldInv'
  BY <1>1, Calling DEF WorldInv, Told, Since
<1>2. ASSUME NEW c \in Callers, NEW o \in Offers, Propose(c, o) PROVE WorldInv'
  BY <1>1, <1>2 DEF TypeOK, Propose
<1>3. ASSUME NEW c \in Callers, Begin(c) PROVE WorldInv'
  <2>1. /\ call[c].at = "waiting" /\ UNCHANGED <<done, effects, forgotten>>
        /\ \A d \in Callers \ {c} : call'[d] = call[d]
        /\ call'[c].at \notin {"acting", "worked"}
    BY <1>3, Calling DEF TypeOK, Begin, Idle
  <2> QED
    BY <1>1, <2>1
<1>4. ASSUME NEW c \in Callers, NEW status \in Statuses, call[c].at \in Inside, Conclude(c, status),
             UNCHANGED <<effects, forgotten>>,
             call[c].at = "worked" => status \in {"succeeded", "indeterminate"},
             call[c].at # "worked" => status # "succeeded"
      PROVE  WorldInv'
  <2> DEFINE record == [status |-> status, action |-> call[c].p.action,
                        justified_by |-> DOMAIN call[c].p.evidence]
  <2>1. /\ call[c].at # "idle" /\ lock = c /\ call[c].p.id \in Ids /\ call[c].p.action \in ActionTypes
        /\ \A d \in Callers : call[d].at \in Inside => d = c
    BY <1>4, Calling DEF LockInv, Inside
  <2>2. record \in Records /\ record # Null /\ record.status = status
        /\ record.action = call[c].p.action
    BY <1>4, <2>1, Calling DEF Records
  <2>3. /\ done' = [done EXCEPT ![call[c].p.id] = record] /\ call' = [call EXCEPT ![c] = Idle]
    BY <1>4 DEF Conclude
  <2> HIDE DEF record
  <2>4. /\ done'[call[c].p.id] = record /\ \A id \in Ids \ {call[c].p.id} : done'[id] = done[id]
        /\ call'[c].at = "idle" /\ \A d \in Callers \ {c} : call'[d] = call[d]
    BY <2>1, <2>3 DEF TypeOK, Idle
  <2>5. \A d \in Callers : call'[d].at \notin Inside
    BY <2>1, <2>4 DEF Inside
  <2>6. ASSUME NEW id \in Ids, Since(id)'
        PROVE  Told(id)'
    <3>1. Told(id) \/ \E d \in Callers : call[d].at = "worked" /\ call[d].p.id = id
      BY <1>4, <2>6 DEF WorldInv, Since
    <3>2. CASE id = call[c].p.id
      <4>1. ~Told(id)
        BY <2>1, <3>2 DEF LockInv, Told
      <4>2. call[c].at = "worked"
        BY <2>1, <3>1, <4>1 DEF Inside
      <4> QED
        BY <1>4, <2>2, <2>4, <3>2, <4>2 DEF Told
    <3>3. CASE id # call[c].p.id
      BY <2>1, <2>4, <3>1, <3>3 DEF Told, Inside
    <3> QED
      BY <3>2, <3>3
  <2>7. ASSUME NEW id \in Ids, done'[id] # Null, done'[id].status = "succeeded"
        PROVE  Since(id)' \/ Connectors[done'[id].action] = "simulated"
    BY <1>4, <2>1, <2>2, <2>4, <2>7 DEF WorldInv, Since
  <2> QED
    BY <1>4, <2>5, <2>6, <2>7 DEF WorldInv, Inside
<1>5. ASSUME NEW c \in Callers, CheckKill(c) PROVE WorldInv'
  <2>1. CASE IsDisabled(kill)
    BY <1>4, <1>5, <2>1 DEF CheckKill, Statuses, Inside
  <2>2. CASE ~IsDisabled(kill)
    <3>1. /\ call[c].at = "deciding" /\ UNCHANGED <<done, effects, forgotten>>
          /\ call'[c].at = "checking" /\ \A d \in Callers \ {c} : call'[d] = call[d]
      BY <1>5, <2>2, Calling DEF TypeOK, CheckKill
    <3> QED
      BY <1>1, <3>1
  <2> QED
    BY <2>1, <2>2
<1>6. ASSUME NEW c \in Callers, CheckRest(c) PROVE WorldInv'
  <2>1. CASE Conclude(c, "refused")
    BY <1>4, <1>6, <2>1 DEF CheckRest, Statuses, Inside
  <2>2. CASE Contained(call[c].p) /\ call' = [call EXCEPT ![c].at = "acting"] /\ UNCHANGED <<lock, done>>
    <3>1. /\ call'[c].p = call[c].p /\ call'[c].at = "acting" /\ call[c].at = "checking"
          /\ \A d \in Callers \ {c} : call'[d] = call[d]
          /\ UNCHANGED <<done, effects, forgotten>>
      BY <1>6, <2>2, Calling DEF TypeOK, CheckRest
    <3>2. Connectors[call[c].p.action] # "none"
      BY <2>2 DEF Contained
    <3> QED
      BY <3>1, <3>2, Calling DEF WorldInv, Told, Since
  <2> QED
    BY <1>6, <2>1, <2>2 DEF CheckRest
<1>7. ASSUME NEW c \in Callers, ConnectorWorks(c) PROVE WorldInv'
  <2>1. /\ call[c].at = "acting" /\ call[c].p.id \in Ids /\ call[c].p.action \in ActionTypes
        /\ call'[c].at = "worked" /\ call'[c].p = call[c].p
        /\ \A d \in Callers \ {c} : call'[d] = call[d]
        /\ UNCHANGED <<done, forgotten>>
    BY <1>7, Calling DEF TypeOK, ConnectorWorks
  <2>2. Connectors[call[c].p.action] \in {"production", "simulated"}
    BY <2>1 DEF WorldInv
  <2>3. \A id \in Ids : effects[id] \in Nat /\ forgotten[id] \in Nat /\ forgotten[id] <= effects[id]
    BY DEF TypeOK, WorldInv
  <2>4. CASE Connectors[call[c].p.action] = "production"
    <3>1. /\ effects'[call[c].p.id] = effects[call[c].p.id] + 1
          /\ \A id \in Ids \ {call[c].p.id} : effects'[id] = effects[id]
      BY <1>7, <2>1, <2>4 DEF TypeOK, ConnectorWorks
    <3>2. /\ Since(call[c].p.id)'
          /\ \A id \in Ids : (Since(id) => Since(id)') /\ forgotten'[id] <= effects'[id]
      BY <2>1, <2>3, <3>1, Calling DEF Since
    <3>3. \A d \in Callers : call[d].at = "worked" => call[d].p.id \in Ids
      BY Calling
    <3>4. \A id \in Ids : Since(id)' => Since(id) \/ id = call[c].p.id
      BY <2>1, <3>1 DEF Since
    <3> QED
      BY <2>1, <2>2, <3>2, <3>3, <3>4 DEF WorldInv, Told
  <2>5. CASE Connectors[call[c].p.action] = "simulated"
    <3>1. effects' = effects
      BY <1>7, <2>5 DEF ConnectorWorks
    <3> QED
      BY <2>1, <2>5, <3>1, Calling DEF WorldInv, Told, Since
  <2> QED
    BY <2>2, <2>4, <2>5
<1>8. ASSUME NEW c \in Callers, NEW outcome, Finish(c, outcome) PROVE WorldInv'
  <2>1. /\ StatusOf(outcome) \in Statuses
        /\ call[c].at = "worked" => StatusOf(outcome) \in {"succeeded", "indeterminate"}
        /\ call[c].at # "worked" => StatusOf(outcome) # "succeeded"
    BY <1>8 DEF Finish, Outcomes, StatusOf, Statuses
  <2> QED
    BY <1>4, <1>8, <2>1 DEF Finish, Inside
<1>9. ASSUME NEW c \in Callers, Panic(c) PROVE WorldInv'
  <2>1. /\ call[c].at \in {"acting", "worked"} /\ call[c].p.id \in Ids
        /\ \A d \in Callers : d # c => call[d].at \notin Inside
        /\ call'[c].at = "idle" /\ \A d \in Callers \ {c} : call'[d] = call[d]
        /\ UNCHANGED <<done, effects>>
    BY <1>9, Calling DEF TypeOK, LockInv, Inside, Panic, Idle
  <2>2. \A d \in Callers : call'[d].at \notin {"acting", "worked"}
    BY <2>1 DEF Inside
  <2>3. /\ \A id \in Ids : forgotten'[id] <= effects'[id] /\ (Since(id)' => Since(id))
        /\ \A id \in Ids : id # call[c].p.id => forgotten'[id] = forgotten[id]
        /\ \A id \in Ids : call[c].at = "worked" /\ id = call[c].p.id => ~Since(id)'
    <3>1. \A id \in Ids : effects[id] \in Nat /\ forgotten[id] \in Nat /\ forgotten[id] <= effects[id]
      BY DEF TypeOK, WorldInv
    <3>2. CASE call[c].at = "worked"
      <4>1. /\ forgotten'[call[c].p.id] = effects[call[c].p.id]
            /\ \A id \in Ids : id # call[c].p.id => forgotten'[id] = forgotten[id]
        BY <1>9, <2>1, <3>2 DEF TypeOK, Panic
      <4>2. \A id \in Ids : forgotten'[id] <= effects[id] /\ forgotten[id] <= forgotten'[id]
        BY <3>1, <4>1
      <4>3. \A id \in Ids : forgotten'[id] \in Nat
        BY <3>1, <4>1
      <4> QED
        BY <2>1, <3>1, <4>1, <4>2, <4>3 DEF Since
    <3>3. CASE call[c].at = "acting"
      <4>1. forgotten' = forgotten
        BY <1>9, <3>3 DEF Panic
      <4> QED
        BY <2>1, <3>1, <3>3, <4>1 DEF Since
    <3> QED
      BY <2>1, <3>2, <3>3
  <2>4. done[call[c].p.id] = Null
    BY <2>1 DEF LockInv, Inside
  <2>5. ASSUME NEW id \in Ids, Since(id)' PROVE Told(id)'
    <3>1. Told(id) \/ \E d \in Callers : call[d].at = "worked" /\ call[d].p.id = id
      BY <2>3, <2>5 DEF WorldInv
    <3>2. ~ \E d \in Callers : call[d].at = "worked" /\ call[d].p.id = id
      <4>1. ASSUME NEW d \in Callers, call[d].at = "worked", call[d].p.id = id PROVE FALSE
        <5>1. d = c
          BY <2>1, <4>1 DEF Inside
        <5> QED
          BY <2>3, <2>5, <4>1, <5>1
      <4> QED
        BY <4>1
    <3> QED
      BY <2>1, <3>1, <3>2 DEF Told
  <2>6. ASSUME NEW id \in Ids, done'[id] # Null, done'[id].status = "succeeded"
        PROVE  Since(id)' \/ Connectors[done'[id].action] = "simulated"
    BY <2>1, <2>3, <2>4, <2>6 DEF WorldInv, Since
  <2> QED
    BY <2>2, <2>3, <2>5, <2>6 DEF WorldInv
<1>10. CASE Restart
  <2>1. \A d \in Callers : call'[d].at = "idle"
    BY <1>10 DEF Restart, Idle
  <2>2. \A id \in Ids : done'[id] = Null /\ forgotten'[id] = effects'[id] /\ effects'[id] \in Nat
    BY <1>10 DEF TypeOK, Restart
  <2> QED
    BY <2>1, <2>2 DEF WorldInv, Since
<1>11. CASE DisableAll \/ EnableAll \/ DisableTenant
  BY <1>1, <1>11 DEF DisableAll, EnableAll, DisableTenant
<1>12. ASSUME NEW k \in ClaimKeys, MarkStale(k) PROVE WorldInv'
  BY <1>1, <1>12 DEF MarkStale
<1>13. CASE UNCHANGED vars
  BY <1>1, <1>13 DEF vars
<1> QED
  BY <1>2, <1>3, <1>5, <1>6, <1>7, <1>8, <1>9, <1>10, <1>11, <1>12, <1>13 DEF Next

-----------------------------------------------------------------------------

\* A gateway as new() leaves it satisfies the inductive invariant.
LEMMA InitInv == Init => IInv
<1> SUFFICES ASSUME Init PROVE IInv
  OBVIOUS
<1> USE GatewayAssumption
<1>1. TypeOK
  BY DEF Init, TypeOK, ClaimStates
<1>2. LockInv /\ SwitchInv /\ WorldInv /\ Authorized
  BY DEF Init, LockInv, SwitchInv, WorldInv, Since, Told, Authorized, Inside, Idle
<1>3. CountInv
  BY DEF Init, CountInv
<1> QED
  BY <1>1, <1>2, <1>3 DEF IInv

\* The invariant holds in every behaviour, restarts and panics included.
LEMMA Inductive == Spec => []IInv
<1>1. IInv /\ [Next]_vars => IInv'
  BY TypeNext, LockNext, CountNext, SwitchNext, WorldNext, AuthorizedNext DEF IInv
<1> QED
  BY InitInv, <1>1, PTL DEF Spec

\* Every variable of the gateway keeps its type, in particular what it records
\* (execute, decide_and_run).
THEOREM GatewayTypes == Spec => []TypeOK
  BY Inductive, PTL DEF IInv

\* execute's lookup and single lock: a key's effect happens once, plus once at most
\* for each panic or restart, for any number of callers and retries (AT-028).
THEOREM GatewayAtMostOnce == Spec => []AtMostOnce
<1>1. IInv => AtMostOnce
  BY DEF IInv, TypeOK, CountInv, AtMostOnce
<1> QED
  BY Inductive, <1>1, PTL

\* The order of decide_and_run's checks: disable_all leaves at most one effect to
\* come (AT-033).
THEOREM GatewayDisableHolds == Spec => []DisableHolds
<1>1. IInv => DisableHolds
  BY DEF IInv, SwitchInv, DisableHolds
<1> QED
  BY Inductive, <1>1, PTL

\* decide_and_run with Engine::decide over any policy: nothing reaches a production
\* connector that the rules as written do not permit (AT-031, AT-034, AT-037).
THEOREM GatewayAuthorized == Spec => []Authorized
  BY Inductive, PTL DEF IInv

\* What Finish records of what the connector did, and to_executed makes of it: of
\* the changes since a key last lost its record to a panic or a restart, none that
\* rested on a contaminated claim is missing from the recall plan, and nothing is in
\* it that changed nothing, simulations apart (AT-022).
THEOREM GatewayRecallNames == Spec => []RecallNames
<1>1. IInv => RecallNames
  <2> SUFFICES ASSUME IInv, NEW contaminated \in SUBSET ClaimKeys,
                      NEW id \in Ids, done[id] # Null, done[id].justified_by \cap contaminated # {}
               PROVE  /\ Since(id) =>
                           id \in Irreversible(contaminated) \/ done[id].status = "indeterminate"
                      /\ id \in Irreversible(contaminated) =>
                           Since(id) \/ Connectors[done[id].action] = "simulated"
    BY DEF RecallNames, Since
  <2>1. \A c \in Callers : call[c].at = "worked" => call[c].p.id # id
    BY DEF IInv, LockInv, Inside
  <2>2. Since(id) => Told(id)
    BY <2>1 DEF IInv, WorldInv
  <2> QED
    BY <2>2 DEF IInv, WorldInv, Told, Irreversible, Executed
<1> QED
  BY Inductive, <1>1, PTL

=============================================================================
