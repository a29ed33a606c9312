----------------------------- MODULE MCGateway -----------------------------
(* Instances of Gateway for TLC. *)
EXTENDS Gateway

CONSTANTS i1, i2, suspend, notify, k1, trusted, untrusted

MCConnectors ==
  [a \in ActionTypes |-> CASE a = suspend -> "production"
                           [] a = notify  -> "simulated"]

Rule(label, action, effect) ==
  [actor |-> Any, label |-> label, purpose |-> Purpose, action |-> action, effect |-> effect]

\* Two actions, but not for what untrusted evidence asks.
MCPolicies ==
  {{Rule(Any, suspend, "allow"), Rule(Any, notify, "allow"), Rule(untrusted, Any, "deny")}}

Offer(id, a, sim, label, cites) ==
  [id |-> id, action |-> a, simulation |-> sim, label |-> label, cites |-> cites]

MCOffers ==
  {Offer(i1, suspend, FALSE, trusted, {k1}), Offer(i1, suspend, FALSE, untrusted, {k1}),
   Offer(i1, notify, TRUE, trusted, {k1}),
   Offer(i2, suspend, FALSE, trusted, {k1}), Offer(i2, suspend, TRUE, trusted, {k1})}
=============================================================================
