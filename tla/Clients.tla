------------------------------ MODULE Clients ------------------------------
(***************************************************************************)
(* What EncoderCache and BlockedWaiting, each a view of the one scheduler, *)
(* have in common.                                                         *)
(***************************************************************************)
EXTENDS Queues

CONSTANTS
  Requests,
  MaxNumSeqs     \* max_num_running_reqs

=============================================================================
