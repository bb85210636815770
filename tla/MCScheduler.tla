---------------------------- MODULE MCScheduler ----------------------------
(***************************************************************************)
(* Instances of Scheduler for TLC.  An operator either resets the prefix   *)
(* cache, or pauses an engine that takes long prompts in chunks and admits *)
(* a request only if its whole prompt has room; a behaviour is one of the  *)
(* engine that its initial state chooses.                                  *)
(***************************************************************************)
EXTENDS Scheduler

CONSTANTS a, b, c,
  Engines   \* those of this run

VARIABLE engine

\* One long, one medium and one short request, competing for blocks.
MCPromptLen == [r \in Requests |-> CASE r = a -> 3 [] r = b -> 2 [] r = c -> 1]
MCMaxTokens == [r \in Requests |-> CASE r = a -> 3 [] r = b -> 3 [] r = c -> 2]

Reserving == INSTANCE Scheduler WITH
  MaxBatchedTokens <- 4, LongPrefillThreshold <- 2, ReserveFullIsl <- TRUE,
  PauseStates <- {"UNPAUSED", "PAUSED_NEW", "PAUSED_ALL"}, ResetModes <- {}

mcVars == <<engine, vars>>

MCInit == engine \in Engines /\ Init

MCNext ==
  /\ UNCHANGED engine
  /\ \/ engine = "plain" /\ Next
     \/ engine = "reserving" /\ Reserving!Next

MCEngineStep ==
  /\ UNCHANGED engine
  /\ \/ engine = "plain" /\ EngineStep
     \/ engine = "reserving" /\ Reserving!EngineStep

\* The fairness of Scheduler's Spec, for either engine.
MCSpec == MCInit /\ [][MCNext]_mcVars /\ WF_mcVars(MCEngineStep)
=============================================================================
