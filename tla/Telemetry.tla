----------------------------- MODULE Telemetry -----------------------------
(***************************************************************************)
(* Hardware samples of the nodes, from the probe to the dashboard: the     *)
(* collector loop and the commands that start and stop it (ventus-dspark), *)
(* and the reader in the dashboard container (dashboard/server.py).        *)
(*                                                                         *)
(* The collector runs beside the operator's commands and takes one step at *)
(* a time, a probe and the mv after it being one.  Time shows only in      *)
(* ages, which stop growing at Old; a sample is nothing but its age.       *)
(***************************************************************************)
EXTENDS Integers, Sequences, FiniteSets, Functions

CONSTANTS
  Route,       \* nodes in the order the collector probes them: head, worker
  Collectors,  \* process ids of collectors
  ProbeTtl,    \* NODE_PROBE_TTL of the status command
  IdleAfter,   \* VENTUS_TELEMETRY_IDLE
  StaleAfter,  \* NODE_STALE_S
  Breakable    \* nodes that may stop answering

Nodes == Range(Route)

ASSUME TelemetryAssumption ==
  /\ Route \in Seq(Nodes)
  /\ ProbeTtl \in Nat /\ IdleAfter \in Nat /\ StaleAfter \in Nat
  /\ ProbeTtl <= StaleAfter /\ IdleAfter <= StaleAfter
  /\ Breakable \subseteq Nodes

Old == StaleAfter + 1
Ages == 0..Old
None == -1    \* of a file: it is not there, or is empty

VARIABLES
  answers,    \* nodes that answer a probe
  cache,      \* node_probe's cache file of each node: age of its sample
  sample,     \* file in the telemetry directory: age of its sample
  mtime,      \* the same file: time since it was last replaced
  pc,         \* where each collector process is
  turn,       \* nodes the collector has yet to probe in this turn
  container,  \* whether the dashboard container runs
  viewed,     \* time since the last viewer request
  command     \* stage of the operator's command

files == <<sample, mtime>>
vars == <<answers, cache, files, pc, turn, container, viewed, command>>

Init ==
  /\ answers = Nodes
  /\ cache = [n \in Nodes |-> None]
  /\ sample = [n \in Nodes |-> None]
  /\ mtime = [n \in Nodes |-> 0]
  /\ pc = [c \in Collectors |-> "dead"]
  /\ turn = [c \in Collectors |-> <<>>]
  /\ container = FALSE
  /\ viewed = Old
  /\ command = "none"

Alive == {c \in Collectors : pc[c] # "dead"}

Older(age) == IF age = None \/ age = Old THEN age ELSE age + 1

-----------------------------------------------------------------------------
(* The world.                                                              *)

\* A sleeping collector wakes when time passes.
Tick ==
  /\ cache' = [n \in Nodes |-> Older(cache[n])]
  /\ sample' = [n \in Nodes |-> Older(sample[n])]
  /\ mtime' = [n \in Nodes |-> Older(mtime[n])]
  /\ viewed' = Older(viewed)
  /\ pc' = [c \in Collectors |-> IF pc[c] = "sleep" THEN "check" ELSE pc[c]]
  /\ UNCHANGED <<answers, turn, container, command>>

\* A node wedges, or comes back.
Break(n) ==
  /\ answers' = IF n \in answers THEN answers \ {n} ELSE answers \union {n}
  /\ UNCHANGED <<cache, files, pc, turn, container, viewed, command>>

\* GET / or /api/status.
View ==
  /\ container
  /\ viewed' = 0
  /\ UNCHANGED <<answers, cache, files, pc, turn, container, command>>

-----------------------------------------------------------------------------
(* node_probe.                                                             *)

\* A probe that is answered refreshes the cache; one that is not prints the
\* cached sample, if there is any.
Probe(n) ==
  cache' = IF n \in answers THEN [cache EXCEPT ![n] = 0] ELSE cache

\* ventus-dspark status, which takes a cached sample that is young enough.
Status(n) ==
  /\ \/ cache[n] # None /\ cache[n] < ProbeTtl /\ UNCHANGED cache
     \/ cache[n] = None /\ Probe(n)
     \/ cache[n] # None /\ cache[n] >= ProbeTtl /\ Probe(n)
  /\ UNCHANGED <<answers, files, pc, turn, container, viewed, command>>

-----------------------------------------------------------------------------
(* telemetry_loop.                                                         *)

NoFiles == sample' = [n \in Nodes |-> None] /\ UNCHANGED mtime

\* Fault: the idle gate before the exit check.
CheckAfterGate(c) ==
  /\ pc[c] = "check"
  /\ \/ /\ viewed > IdleAfter
        /\ pc' = [pc EXCEPT ![c] = "sleep"]
        /\ UNCHANGED files
     \/ /\ viewed <= IdleAfter
        /\ container
        /\ pc' = [pc EXCEPT ![c] = "gate"]
        /\ UNCHANGED files
     \/ /\ viewed <= IdleAfter
        /\ ~container
        /\ pc' = [pc EXCEPT ![c] = "dead"]
        /\ NoFiles
  /\ UNCHANGED <<answers, cache, turn, container, viewed, command>>

\* docker ps: without its dashboard the collector removes the samples and ends.
Check(c) ==
  /\ pc[c] = "check"
  /\ \/ /\ container
        /\ pc' = [pc EXCEPT ![c] = "gate"]
        /\ UNCHANGED files
     \/ /\ ~container
        /\ pc' = [pc EXCEPT ![c] = "dead"]
        /\ NoFiles
  /\ UNCHANGED <<answers, cache, turn, container, viewed, command>>

\* Fault: sampling for nobody, and not for somebody.
WatchedReversed(c) == ~(container /\ viewed <= IdleAfter)

\* /api/idle answers, and somebody has looked lately.
Watched(c) == container /\ viewed <= IdleAfter

Gate(c) ==
  /\ pc[c] = "gate"
  /\ IF Watched(c)
     THEN /\ pc' = [pc EXCEPT ![c] = "probe"]
          /\ turn' = [turn EXCEPT ![c] = Route]
     ELSE /\ pc' = [pc EXCEPT ![c] = "sleep"]
          /\ UNCHANGED turn
  /\ UNCHANGED <<answers, cache, files, container, viewed, command>>

\* node_probe into a temporary file, and mv: TTL 0, so the node is asked.
Sample(c, n) ==
  /\ pc[c] = "probe"
  /\ turn[c] # <<>>
  /\ n = Head(turn[c])
  /\ Probe(n)
  /\ sample' = [sample EXCEPT ![n] = cache'[n]]
  /\ mtime' = [mtime EXCEPT ![n] = 0]
  /\ turn' = [turn EXCEPT ![c] = Tail(@)]
  /\ UNCHANGED <<answers, pc, container, viewed, command>>

Sleep(c) ==
  /\ pc[c] = "probe"
  /\ turn[c] = <<>>
  /\ pc' = [pc EXCEPT ![c] = "sleep"]
  /\ UNCHANGED <<answers, cache, files, turn, container, viewed, command>>

Collect(c) ==
  \/ Check(c)
  \/ Gate(c)
  \/ \E n \in Nodes : Sample(c, n)
  \/ Sleep(c)

-----------------------------------------------------------------------------
(* Commands of the operator, one at a time.                                *)

NoCollector == pc' = [c \in Collectors |-> "dead"]

ContainerTo(up, stage) ==
  /\ container' = up
  /\ command' = stage
  /\ UNCHANGED <<answers, cache, files, pc, turn>>

\* dashboard: docker compose up -d; a new container has not been viewed.
StartContainer ==
  /\ command = "none"
  /\ ContainerTo(TRUE, "kill")
  /\ viewed' = IF container THEN viewed ELSE Old

\* Fault: the old collector is left to find out by itself.
KillNobody ==
  /\ command = "kill"
  /\ command' = "spawn"
  /\ UNCHANGED <<answers, cache, files, pc, turn, container, viewed>>

\* dashboard: pkill of a collector of an earlier start.
KillOld ==
  /\ command = "kill"
  /\ NoCollector
  /\ command' = "spawn"
  /\ UNCHANGED <<answers, cache, files, turn, container, viewed>>

Spawn ==
  /\ command = "spawn"
  /\ \E c \in Collectors \ Alive :
       /\ pc' = [pc EXCEPT ![c] = "check"]
       /\ turn' = [turn EXCEPT ![c] = <<>>]
  /\ command' = "none"
  /\ UNCHANGED <<answers, cache, files, container, viewed>>

\* dashboard --stop: docker compose down.
StopContainer ==
  /\ command = "none"
  /\ ContainerTo(FALSE, "stop")
  /\ UNCHANGED viewed

\* dashboard --stop: kill and pkill.
StopCollector ==
  /\ command = "stop"
  /\ NoCollector
  /\ command' = "remove"
  /\ UNCHANGED <<answers, cache, files, turn, container, viewed>>

\* dashboard --stop: rm -rf of the directory.
RemoveSamples ==
  /\ command = "remove"
  /\ NoFiles
  /\ command' = "stopped"
  /\ UNCHANGED <<answers, cache, pc, turn, container, viewed>>

\* The next command after a stop.
Prompt ==
  /\ command = "stopped"
  /\ command' = "none"
  /\ UNCHANGED <<answers, cache, files, pc, turn, container, viewed>>

\* down: the dashboard's container only.
Down ==
  /\ command = "none"
  /\ ContainerTo(FALSE, "none")
  /\ UNCHANGED viewed

Command == StartContainer \/ StopContainer \/ Down

CommandGoesOn == KillOld \/ Spawn \/ StopCollector \/ RemoveSamples \/ Prompt

Next ==
  \/ Tick
  \/ View
  \/ \E n \in Breakable : Break(n)
  \/ \E n \in Nodes : Status(n)
  \/ \E c \in Collectors : Collect(c)
  \/ Command
  \/ CommandGoesOn

\* Time passes, a collector that is alive runs and a command that was started
\* goes on to its end.  Operators, viewers and nodes promise nothing.
Spec ==
  /\ Init
  /\ [][Next]_vars
  /\ WF_vars(Tick)
  /\ WF_vars(CommandGoesOn)
  /\ \A c \in Collectors : WF_vars(Collect(c))

-----------------------------------------------------------------------------
(* Properties.                                                             *)

\* Every variable has its type; ages are bounded by Old.
TypeOK ==
  /\ answers \subseteq Nodes
  /\ cache \in [Nodes -> Ages \union {None}]
  /\ sample \in [Nodes -> Ages \union {None}]
  /\ mtime \in [Nodes -> Ages]
  /\ pc \in [Collectors -> {"dead", "check", "gate", "probe", "sleep"}]
  /\ turn \in [Collectors -> Seq(Nodes)]
  /\ container \in BOOLEAN
  /\ viewed \in Ages
  /\ command \in {"none", "kill", "spawn", "stop", "remove", "stopped"}

\* Never do two collectors probe the nodes, however starts, stops and downs
\* follow one another while an old collector sleeps.
OneCollector == Cardinality(Alive) <= 1

\* "dashboard stopped, telemetry collector stopped, samples removed": when
\* the command returns nothing is left that could write a sample.
StopStops ==
  command = "stopped" => Alive = {} /\ \A n \in Nodes : sample[n] = None

(***************************************************************************)
(* One collector at most, however starts, stops and downs follow one       *)
(* another, and none that could still write after a stop.                  *)
(***************************************************************************)
CollectorsOrderly == TypeOK /\ OneCollector /\ StopStops

\* What nodes() makes of a file: it goes by its modification time.
ShownStale(n) == mtime[n] > StaleAfter

\* A sample older than NODE_STALE_S is reported stale, not shown as current.
OldShownStale ==
  \A n \in Nodes : sample[n] # None /\ sample[n] > StaleAfter => ShownStale(n)

\* A collector whose dashboard stays away (down does not kill it) ends, idle
\* or not, and takes the samples with it.
OrphanEnds ==
  <>[](~container) => <>[](Alive = {} /\ \A n \in Nodes : sample[n] = None)

\* While somebody watches a dashboard that stays up, every node that answers
\* is sampled again and again.
WatchedIsSampled ==
  \A n \in Nodes :
    <>[](container /\ Alive # {} /\ command = "none"
         /\ viewed <= IdleAfter /\ n \in answers)
      => []<>(sample[n] = 0)
=============================================================================
