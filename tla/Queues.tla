------------------------------- MODULE Queues -------------------------------
(***************************************************************************)
(* Removal from queues, as the scheduler does it: list comprehensions, and *)
(* RequestQueue.remove_requests() (vLLM), keep the order of the others.    *)
(***************************************************************************)
EXTENDS Integers, FiniteSets

Nth(k, S) == CHOOSE i \in S : Cardinality({j \in S : j <= i}) = k

\* The members of a queue that are not in S, in its order.
Without(s, S) ==
  LET kept == {i \in DOMAIN s : s[i] \notin S}
  IN  [k \in 1..Cardinality(kept) |-> s[Nth(k, kept)]]

=============================================================================
