---------------------------- MODULE FcfsService ----------------------------
(***************************************************************************)
(* What the engine promises its clients, without batches, drafts, KV       *)
(* blocks or preemption bookkeeping: requests stand in one line in the     *)
(* order they arrived, the first `seated' of them hold a seat, and a       *)
(* request receives tokens until it leaves.  Losing the seat (preemption)  *)
(* costs neither the place in the line nor a token already received.       *)
(***************************************************************************)
EXTENDS Integers, SequencesExt

CONSTANTS
  Requests,   \* request ids
  MaxTokens,  \* the most tokens each request may receive
  Seats       \* requests that may be served at a time

VARIABLES
  line,       \* the unfinished requests, in order of arrival
  seated,     \* how many of them, from the head, hold a seat
  received,   \* tokens delivered to each request so far
  gone        \* requests that finished or were aborted

vars == <<line, seated, received, gone>>

Init ==
  /\ line = <<>>
  /\ seated = 0
  /\ received = [r \in Requests |-> 0]
  /\ gone = {}

Arrive(r) ==
  /\ r \notin gone
  /\ ~Contains(line, r)
  /\ line' = Append(line, r)
  /\ UNCHANGED <<seated, received, gone>>

TakeSeat ==
  /\ seated < Len(line)
  /\ seated < Seats
  /\ seated' = seated + 1
  /\ UNCHANGED <<line, received, gone>>

LoseSeats(n) ==
  /\ seated' = n
  /\ UNCHANGED <<line, received, gone>>

\* k more tokens for r, which stays in the line.
Receive(r, k) ==
  /\ Contains(line, r)
  /\ received[r] + k <= MaxTokens[r]
  /\ received' = [received EXCEPT ![r] = @ + k]
  /\ UNCHANGED <<line, seated, gone>>

\* r leaves with its last k tokens (none if its client aborted it).
Leave(r, k) ==
  /\ Contains(line, r)
  /\ received[r] + k <= MaxTokens[r]
  /\ received' = [received EXCEPT ![r] = @ + k]
  /\ seated' = IF Contains(SubSeq(line, 1, seated), r)
               THEN seated - 1 ELSE seated
  /\ line' = RemoveFirst(line, r)
  /\ gone' = gone \union {r}

Next ==
  \/ \E r \in Requests :
       \/ Arrive(r)
       \/ \E k \in 1..MaxTokens[r] : Receive(r, k)
       \/ \E k \in 0..MaxTokens[r] : Leave(r, k)
  \/ TakeSeat
  \/ \E n \in 0..(seated - 1) : LoseSeats(n)

Spec == Init /\ [][Next]_vars
=============================================================================
