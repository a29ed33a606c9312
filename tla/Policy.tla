------------------------------- MODULE Policy -------------------------------
(***************************************************************************)
(* The policy engine of crates/loom-policy/src/engine.rs: rules compiled   *)
(* into an index by action, and a decision that consults only the part of  *)
(* the index the request's action names.                                   *)
(***************************************************************************)
EXTENDS Integers

CONSTANT Any   \* the pattern Match::Any

\* A rule is a record of patterns: actor, label, purpose, action, and an effect.
Matches(pattern, value) == pattern = Any \/ pattern = value

AppliesTo(rule, req) ==
  /\ Matches(rule.actor, req.actor)
  /\ Matches(rule.label, req.label)
  /\ Matches(rule.purpose, req.purpose)
  /\ Matches(rule.action, req.action)

\* Engine::new.  by_action is read with get: an action no rule names has none.
Compile(rules) ==
  [by_action  |-> [a \in {r.action : r \in rules} \ {Any} |-> {r \in rules : r.action = a}],
   any_action |-> {r \in rules : r.action = Any}]

Specific(engine, action) ==
  IF action \in DOMAIN engine.by_action THEN engine.by_action[action] ELSE {}

\* Mutant: rules for every action are consulted only when no rule names this one.
EngineDecideFirst(engine, req) ==
  LET specific   == Specific(engine, req.action)
      applicable == {r \in IF specific = {} THEN engine.any_action ELSE specific :
                       AppliesTo(r, req)}
  IN  IF \E r \in applicable : r.effect = "deny" THEN "deny"
      ELSE IF \E r \in applicable : r.effect = "allow" THEN "allow"
      ELSE "deny"

\* Engine::decide: any deny, then any allow, else deny.
EngineDecide(engine, req) ==
  LET applicable == {r \in Specific(engine, req.action) \cup engine.any_action :
                       AppliesTo(r, req)}
  IN  IF \E r \in applicable : r.effect = "deny" THEN "deny"
      ELSE IF \E r \in applicable : r.effect = "allow" THEN "allow"
      ELSE "deny"

\* The reference: some rule of the set allows the request and none denies it.
Permits(rules, req) ==
  /\ \E r \in rules : AppliesTo(r, req) /\ r.effect = "allow"
  /\ \A r \in rules : AppliesTo(r, req) => r.effect # "deny"
=============================================================================
