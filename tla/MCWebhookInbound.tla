-------------------------- MODULE MCWebhookInbound --------------------------
EXTENDS WebhookInbound, TLC

EachItsOwn == [x \in Ids |-> x]
EachLikeItself == [x \in Ids |-> {x}]

Symmetry == Permutations(Requests) \cup Permutations(Customer) \cup Permutations(Phone)
=============================================================================
