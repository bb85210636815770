----------------------------- MODULE MCFeatures -----------------------------
(***************************************************************************)
(* Instances for TLC of what the scheduler does besides sharing out tokens *)
(* and blocks: images (EncoderCache), and requests that are blocked        *)
(* (BlockedWaiting), once with loads that are recomputed if they fail,     *)
(* once with loads that fail their request, and as a session.  Sessions    *)
(* run with one step in flight: with two, AdmitsOnlyWaiting fails.         *)
(*                                                                         *)
(* The parts have nothing in common; a behaviour is one of the part that   *)
(* its initial state chooses.                                              *)
(***************************************************************************)
EXTENDS BlockedWaiting, EncoderCache

CONSTANTS a, b, h1, h2, Parts

VARIABLE part

R == {a, b}

\* a has two images, b shares the second of them.
MCImages == [r \in R |->
  IF r = a THEN <<[hash |-> h1, start |-> 1], [hash |-> h2, start |-> 6]>>
           ELSE <<[hash |-> h2, start |-> 3]>>]
MCHashLen == [h \in {h1, h2} |-> 2]
MCPriority == [r \in R |-> IF r = a THEN 2 ELSE 1]
MCImagePrompt == [r \in R |-> IF r = a THEN 8 ELSE 6]

MCPromptLen == [r \in R |-> IF r = a THEN 4 ELSE 2]
OneToken == [r \in R |-> 1]

\* Loads, of a request that is structured as well, or sends its blocks on.
Loading ==
  [resumable |-> {}, structured |-> {b}, senders |-> {b},
   maxTokens |-> OneToken, offers |-> [r \in R |-> IF r = a THEN {2, 4} ELSE {}],
   recompute |-> TRUE, depth |-> 2,
   maxInputs |-> 0, maxFailures |-> 1, maxRefusals |-> 1]

Failing == [Loading EXCEPT !.senders = {}, !.recompute = FALSE, !.maxRefusals = 0]

\* a is a session.
Session ==
  [resumable |-> {a}, structured |-> {}, senders |-> {},
   maxTokens |-> [r \in R |-> IF r = a THEN 2 ELSE 1],
   offers |-> [r \in R |-> {}], recompute |-> TRUE, depth |-> 1,
   maxInputs |-> 2, maxFailures |-> 0, maxRefusals |-> 1]

AsyncSession ==
  [Session EXCEPT !.depth = 2, !.maxInputs = 1, !.maxRefusals = 0]

MCSettings == {Loading, Failing, Session}
MCAsyncSession == {AsyncSession}

featureVars == <<part, encoderVars, blockedVars>>

FeatureInit ==
  /\ part \in Parts
  /\ EncoderInit
  /\ BlockedInit
  /\ part = "images" => setting = Session

FeatureNext ==
  /\ UNCHANGED part
  /\ \/ part = "images" /\ EncoderNext /\ UNCHANGED blockedVars
     \/ part = "blocked" /\ BlockedNext /\ UNCHANGED encoderVars

EngineRuns ==
  /\ UNCHANGED part
  /\ \/ part = "images" /\ Engine /\ UNCHANGED blockedVars
     \/ part = "blocked" /\ EngineStep /\ UNCHANGED <<setting, encoderVars>>

BackendRuns(r) ==
  part = "blocked" /\ Backend(r) /\ UNCHANGED <<part, setting, encoderVars>>

\* The engine loop runs, and so do the connector and the grammar backend.
FeatureSpec ==
  /\ FeatureInit
  /\ [][FeatureNext]_featureVars
  /\ WF_featureVars(EngineRuns)
  /\ \A r \in R : WF_featureVars(BackendRuns(r))

=============================================================================
