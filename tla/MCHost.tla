-------------------------------- MODULE MCHost --------------------------------
(***************************************************************************)
(* Instances for TLC of what runs outside the engine: telemetry, the       *)
(* dashboard, the launcher, the encoding of prompts, the images in them    *)
(* and the configuration.                                                  *)
(* They share no state: a behaviour is one of the part that its initial    *)
(* state chooses.  The prompts and the images take as many of x1, ..., x9 as *)
(* they need and leave the rest at 0; the others keep their own variables. *)
(***************************************************************************)
EXTENDS Telemetry, Dashboard, Launcher, SpecConfig

CONSTANTS headNode, workerNode, c1, c2,
  Parts,        \* the parts of this run
  WithImages    \* see PromptEncoding

VARIABLES part, x1, x2, x3, x4, x5, x6, x7, x8, x9

telemetryVars == <<answers, cache, sample, mtime, pc, turn, container, viewed, command>>
bank == <<x1, x2, x3, x4, x5, x6, x7, x8, x9>>
hostVars == <<part, telemetryVars, boardVars, launcherVars, configVars, bank>>

Rest7 == x7 = 0 /\ x8 = 0 /\ x9 = 0
Same7 == UNCHANGED <<x7, x8, x9>>

BothNodes == <<headNode, workerNode>>

Load(gen, prompt, acc, draft) ==
  [c \in {"gen", "prompt", "acc", "draft"} |->
     CASE c = "gen" -> gen [] c = "prompt" -> prompt
       [] c = "acc" -> acc [] c = "draft" -> draft]

\* An idle unit of time, one of prompts, and two of decoding.
SomeLoads == {Load(0, 0, 0, 0), Load(1, 2, 0, 1), Load(2, 0, 1, 2), Load(3, 1, 2, 2)}

TwoModels == {"flash", "vision"}
BlockOfFive == [model \in TwoModels |-> 5]
ThreeOfVision == [model \in TwoModels |-> IF model = "vision" THEN 3 ELSE 1]

-----------------------------------------------------------------------------
Prompts == INSTANCE PromptEncoding WITH
  Roles <- {"user", "latest_reminder", "developer"}, MaxTurns <- 2,
  MaxMessages <- 2, Tasks <- {"none", "action"},
  WithImages <- WithImages, Garbled <- FALSE, thinking <- x1,
  dropThinking <- x2, context <- x3, messages <- x4, written <- x5,
  images <- x6, turn <- x7, asked <- x8, open <- x9

\* Too small, too wide, too tall, too large, and sizes between; one that is
\* too large twice.
SomeSizes == {<<1, 1>>, <<1, 31>>, <<31, 1>>, <<31, 31>>, <<25, 8>>,
              <<19, 7>>, <<7, 12>>, <<12, 12>>, <<5, 19>>}

Blocks == INSTANCE ImageBlocks WITH
  PatchSize <- 2, Ratio <- 3, MaxTokens <- 24, MinPixels <- 72, MaxAspect <- 3,
  Sizes <- SomeSizes, MaxImages <- 2, MaxText <- 3, given <- x1, prompt <- x2,
  expanded <- x3, image <- x4, rows <- x5, outcome <- x6

ASSUME PartsAssumption == Blocks!ImageBlocksAssumption

ConfigOff ==
  /\ given = <<>> /\ phase = "off" /\ method = "none" /\ drafter = "none" /\ call = <<>>
  /\ tokens = 0 /\ predict = 0 /\ length = 0 /\ draftTp = 0

-----------------------------------------------------------------------------
HostInit ==
  /\ part \in Parts
  /\ Init /\ BoardInit /\ LauncherInit
  /\ IF part = "config" THEN ConfigInit ELSE ConfigOff
  /\ \/ part \in {"telemetry", "dashboard", "launcher", "config"}
        /\ x1 = 0 /\ x2 = 0 /\ x3 = 0 /\ x4 = 0 /\ x5 = 0 /\ x6 = 0 /\ Rest7
     \/ part = "prompts" /\ Prompts!EncodingInit
     \/ part = "blocks" /\ Blocks!ImagesInit /\ Rest7

HostNext ==
  /\ UNCHANGED part
  /\ \/ /\ part = "config" /\ ConfigNext
        /\ UNCHANGED <<telemetryVars, boardVars, launcherVars, bank>>
     \/ /\ UNCHANGED configVars
        /\ \/ part = "telemetry" /\ Next
              /\ UNCHANGED <<boardVars, launcherVars, bank>>
           \/ part = "dashboard" /\ BoardNext
              /\ UNCHANGED <<telemetryVars, launcherVars, bank>>
           \/ part = "launcher" /\ LauncherNext
              /\ UNCHANGED <<telemetryVars, boardVars, bank>>
           \/ /\ UNCHANGED <<telemetryVars, boardVars, launcherVars>>
              /\ \/ part = "prompts" /\ Prompts!EncodingNext
                 \/ part = "blocks" /\ Blocks!ImagesNext /\ Same7

InTelemetry(A) ==
  part = "telemetry" /\ A /\ UNCHANGED <<part, boardVars, launcherVars, configVars, bank>>
InLauncher(A) ==
  part = "launcher" /\ A /\ UNCHANGED <<part, telemetryVars, boardVars, configVars, bank>>

\* What Telemetry and Launcher assume of the scripts, and no more.
HostSpec ==
  /\ HostInit
  /\ [][HostNext]_hostVars
  /\ WF_hostVars(InTelemetry(Tick))
  /\ WF_hostVars(InTelemetry(CommandGoesOn))
  /\ \A c \in Collectors : WF_hostVars(InTelemetry(Collect(c)))
  /\ WF_hostVars(InLauncher(UpStep \/ Join))

-----------------------------------------------------------------------------
(***************************************************************************)
(* PromptEncoding!TurnsAddUp: the prompt of a turn is that of the turn     *)
(* before and its answer, encoded again, unless a developer's message that *)
(* was answered is dropped.                                                *)
(***************************************************************************)
TurnsAddUp == part = "prompts" => Prompts!TurnsAddUp

(***************************************************************************)
(* PromptEncoding!TurnIsRendered: "Messages with role in ["user",          *)
(* "system", "tool", "latest_reminder"] are always kept."                  *)
(* (encoding_dsv4.py:594).                                                 *)
(***************************************************************************)
TurnIsRendered == part = "prompts" => Prompts!TurnIsRendered


(***************************************************************************)
(* ImageBlocks!ImagesPlaced: the block of every image fits, stands where   *)
(* the compression of positions wants it, and holds each output of the     *)
(* tower at its place, wherever in the prompt the image is.                *)
(***************************************************************************)
ImagesPlaced == part = "blocks" => Blocks!ImagesPlaced
=============================================================================
