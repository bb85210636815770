------------------------------ MODULE Launcher ------------------------------
(***************************************************************************)
(* ventus-dspark up and down: the checks, the generated environment file,  *)
(* the copies on the worker, and the two containers, worker first.         *)
(*                                                                         *)
(* Every command of `up' may fail or be interrupted, which ends it (set    *)
(* -e); those of `down' may fail and are passed over.  The two ranks and   *)
(* docker are external: each start of the head opens a world that one      *)
(* worker rank may join, a worker stays in the world it joined even when   *)
(* that is dead, and a rank comes up if the engine accepts its k.  A rank  *)
(* takes minutes to boot: none joins between the two starts of one `up'.   *)
(* Docker starts a container again, as it was, after a crash or a reboot.  *)
(***************************************************************************)
EXTENDS Integers

CONSTANTS
  Models,        \* checkpoints; Block[m] and NextN[m] are in config.json
  Block,         \* dspark_block_size
  NextN,         \* num_nextn_predict_layers
  Lanes,         \* --engine
  Requested,     \* values of VENTUS_K; 0 if it is unset
  MaxWorlds,     \* bound: starts of a head
  MaxRestarts    \* bound: restarts of a container by docker

ASSUME LauncherAssumption ==
  /\ \A m \in Models : Block[m] \in Nat \ {0} /\ NextN[m] \in Nat \ {0}
  /\ Requested \subseteq Nat

VARIABLES
  envFile,       \* .ventus/env.dspark
  copies,        \* compose file and env.dspark on the worker
  up,            \* the `up' that runs, or ran last: how far, for what, and,
                 \* as history, whether docker left its ranks alone
  head, worker,  \* the containers
  worlds,        \* starts of a head so far
  restarts

launcherVars == <<envFile, copies, up, head, worker, worlds, restarts>>

Nothing == [model |-> "none", lane |-> "none", k |-> 0]
NoContainer == [config |-> Nothing, gid |-> "none", world |-> 0, joined |-> FALSE]

LauncherInit ==
  /\ envFile = Nothing
  /\ copies = [compose |-> "none", env |-> Nothing]
  /\ up = [at |-> "ended", config |-> Nothing, alone |-> TRUE]
  /\ head = NoContainer
  /\ worker = NoContainer
  /\ worlds = 0
  /\ restarts = 0

Runs(c) == c # NoContainer

-----------------------------------------------------------------------------
(* scripts/checkpoint_k.py                                                 *)

DefaultK(m, lane) ==
  IF NextN[m] > 1
  THEN ((Block[m] + NextN[m] - 1) \div NextN[m]) * NextN[m]
  ELSE IF lane # "021" /\ Block[m] = 5 THEN 7 ELSE Block[m]

AcceptedK(m, lane, k) ==
  /\ ~(lane = "021" /\ k > 5)
  /\ k >= Block[m]
  /\ ~(NextN[m] > 1 /\ k % NextN[m] # 0)

Geometry(m, lane, k) ==
  IF k = 0 THEN {DefaultK(m, lane)}
  ELSE IF AcceptedK(m, lane, k) THEN {k} ELSE {}

-----------------------------------------------------------------------------
(* cmd_up                                                                  *)

\* What does not pass the checks ends before anything is written.
Begin(m, lane, k, dry) ==
  /\ up.at \in {"ended", "serving"}
  /\ \E n \in Geometry(m, lane, k) :
       LET config == [model |-> m, lane |-> lane, k |-> n]
       IN  /\ envFile' = config
           /\ up' = [at |-> IF dry THEN "ended" ELSE "copy compose",
                     config |-> config, alone |-> TRUE]
  /\ UNCHANGED <<copies, head, worker, worlds, restarts>>

CopyCompose ==
  /\ up.at = "copy compose"
  /\ copies' = [copies EXCEPT !.compose = up.config.lane]
  /\ up' = [up EXCEPT !.at = "copy env"]
  /\ UNCHANGED <<envFile, head, worker, worlds, restarts>>

CopyEnv ==
  /\ up.at = "copy env"
  /\ copies' = [copies EXCEPT !.env = envFile]
  /\ up' = [up EXCEPT !.at = "start worker"]
  /\ UNCHANGED <<envFile, head, worker, worlds, restarts>>

WorkerContainer(gid) ==
  [config |-> [copies.env EXCEPT !.lane = copies.compose], gid |-> gid,
   world |-> 0, joined |-> FALSE]

\* Fault: the environment file's GID index, which is the head's.
WorkerWithEnvGid == WorkerContainer("head's")

\* Fault: a container that runs with the same configuration is kept.
WorkerKept ==
  IF worker.config = WorkerContainer("worker's").config THEN worker
  ELSE WorkerContainer("worker's")

\* docker compose up -d --force-recreate, NCCL_IB_GID_INDEX set to its own.
NewWorker == WorkerContainer("worker's")

StartWorker ==
  /\ up.at = "start worker"
  /\ worker' = NewWorker
  /\ up' = [up EXCEPT !.at = "start head"]
  /\ UNCHANGED <<envFile, copies, head, worlds, restarts>>

StartHead ==
  /\ up.at = "start head"
  /\ worlds < MaxWorlds
  /\ worlds' = worlds + 1
  /\ head' = [config |-> [envFile EXCEPT !.lane = up.config.lane],
              gid |-> "head's", world |-> worlds + 1, joined |-> FALSE]
  /\ up' = [up EXCEPT !.at = "waiting"]
  /\ UNCHANGED <<envFile, copies, worker, restarts>>

\* Both ranks are in one world, so /health answers.
Healthy == Runs(head) /\ Runs(worker) /\ worker.world = head.world

Serving ==
  /\ up.at = "waiting"
  /\ Healthy
  /\ up' = [up EXCEPT !.at = "serving"]
  /\ UNCHANGED <<envFile, copies, head, worker, worlds, restarts>>

\* A command fails, the operator interrupts, or 100 looks were in vain.
Fail ==
  /\ up.at \notin {"ended", "serving"}
  /\ up' = [up EXCEPT !.at = "ended"]
  /\ UNCHANGED <<envFile, copies, head, worker, worlds, restarts>>

-----------------------------------------------------------------------------
(* cmd_down: every command best-effort.                                    *)

DownFleet ==
  /\ up.at \in {"ended", "serving"}
  /\ head' \in {head, NoContainer}
  /\ worker' \in {worker, NoContainer}
  /\ UNCHANGED <<envFile, copies, up, worlds, restarts>>

-----------------------------------------------------------------------------
(* The ranks, and docker.                                                  *)

Boots(config) == config.k % NextN[config.model] = 0

Join ==
  /\ up.at # "start head"
  /\ Runs(head) /\ ~head.joined
  /\ Runs(worker) /\ worker.world = 0
  /\ Boots(head.config) /\ Boots(worker.config)
  /\ head' = [head EXCEPT !.joined = TRUE]
  /\ worker' = [worker EXCEPT !.world = head.world]
  /\ UNCHANGED <<envFile, copies, up, worlds, restarts>>

RestartHead ==
  /\ Runs(head)
  /\ worlds < MaxWorlds /\ restarts < MaxRestarts
  /\ worlds' = worlds + 1
  /\ restarts' = restarts + 1
  /\ head' = [head EXCEPT !.world = worlds + 1, !.joined = FALSE]
  /\ up' = [up EXCEPT !.alone = @ /\ up.at # "waiting"]
  /\ UNCHANGED <<envFile, copies, worker>>

RestartWorker ==
  /\ Runs(worker)
  /\ restarts < MaxRestarts
  /\ restarts' = restarts + 1
  /\ worker' = [worker EXCEPT !.world = 0]
  /\ up' = [up EXCEPT !.alone = @ /\ up.at # "waiting"]
  /\ UNCHANGED <<envFile, copies, head, worlds>>

-----------------------------------------------------------------------------
UpStep ==
  CopyCompose \/ CopyEnv \/ StartWorker \/ StartHead \/ Serving

LauncherNext ==
  \/ \E m \in Models, lane \in Lanes, k \in Requested, dry \in BOOLEAN :
       Begin(m, lane, k, dry)
  \/ UpStep \/ Fail
  \/ DownFleet
  \/ Join \/ RestartHead \/ RestartWorker

\* The script goes on, and ranks that can join do.
LauncherSpec ==
  /\ LauncherInit
  /\ [][LauncherNext]_launcherVars
  /\ WF_launcherVars(UpStep \/ Join)

-----------------------------------------------------------------------------
(* Properties.                                                             *)

(***************************************************************************)
(* `up' says "serving" of what it was asked for: the head that answers and *)
(* the worker in its world run the model, lane and k of this very `up',    *)
(* each with the GID index of its own node, whatever earlier ones that     *)
(* failed, dry runs, and restarts have left behind.                        *)
(***************************************************************************)
AsAsked ==
  head.config = up.config /\ worker.config = up.config /\ worker.gid = "worker's"
ServesWhatWasAsked == [][Serving => AsAsked]_launcherVars

(***************************************************************************)
(* ventus-dspark:271-274: the new head must not wait for ever on a rank of *)
(* a previous world.  An `up' gets from waiting to serving unless it is    *)
(* ended, or docker restarts a rank under it.                              *)
(***************************************************************************)
WaitsAlone == up.at = "waiting" /\ up.alone
ComesUp == WaitsAlone ~> ~WaitsAlone
=============================================================================
