----------------------------- MODULE Host_proofs ----------------------------
(***************************************************************************)
(* What happens on the hosts, for any nodes, processes and thresholds, any *)
(* engine and sampling, and any models, lanes and requests: the collector  *)
(* and the commands that start and stop it, the figures of the dashboard,  *)
(* what the launcher serves, and which drafter a configuration gets.       *)
(***************************************************************************)
EXTENDS Telemetry, Dashboard, Launcher, SpecConfig, FiniteSetTheorems, TLAPS

-----------------------------------------------------------------------------
(* The collector.                                                          *)

\* pkill is over before a new process starts, and before a stop returns.
NobodyLeft == command \in {"spawn", "remove", "stopped"} => Alive = {}

\* Nobody lives beside a collector.
Alone == \A c, d \in Alive : c = d

CollectorInv == TypeOK /\ Alone /\ NobodyLeft /\ StopStops

-----------------------------------------------------------------------------
(* Types.                                                                  *)

LEMMA AgeFacts ==
  /\ 0 \in Ages /\ Old \in Ages /\ None \notin Ages
  /\ \A age \in Ages : Older(age) \in Ages
  /\ \A age \in Ages \union {None} : Older(age) \in Ages \union {None}
  /\ Older(None) = None
<1>1. PICK s \in Nat : s = StaleAfter
  BY TelemetryAssumption
<1> QED BY <1>1 DEF Ages, Old, None, Older

LEMMA TickTypes ==
  ASSUME TypeOK, Tick
  PROVE  TypeOK'
<1>1. /\ cache' \in [Nodes -> Ages \union {None}]
      /\ sample' \in [Nodes -> Ages \union {None}]
      /\ mtime' \in [Nodes -> Ages] /\ viewed' \in Ages
  BY AgeFacts DEF TypeOK, Tick
<1>2. pc' \in [Collectors -> {"dead", "check", "gate", "probe", "sleep"}]
  BY DEF TypeOK, Tick
<1> QED BY <1>1, <1>2 DEF TypeOK, Tick

LEMMA ProbeTypes ==
  ASSUME TypeOK, NEW n \in Nodes, Probe(n)
  PROVE  cache' \in [Nodes -> Ages \union {None}]
BY AgeFacts DEF TypeOK, Probe

LEMMA CollectTypes ==
  ASSUME TypeOK, NEW c \in Collectors, Collect(c)
  PROVE  TypeOK'
<1>1. CASE Check(c)
  BY <1>1 DEF Check, NoFiles, files, TypeOK
<1>2. CASE Gate(c)
  BY <1>2, TelemetryAssumption DEF Gate, files, TypeOK
<1>3. ASSUME NEW n \in Nodes, Sample(c, n) PROVE TypeOK'
  <2>1. cache' \in [Nodes -> Ages \union {None}]
    BY <1>3, ProbeTypes DEF Sample
  <2>2. sample' \in [Nodes -> Ages \union {None}] /\ mtime' \in [Nodes -> Ages]
    BY <1>3, <2>1, AgeFacts DEF Sample, TypeOK
  <2>3. turn[c] \in Seq(Nodes) /\ turn[c] # <<>> => Tail(turn[c]) \in Seq(Nodes)
    OBVIOUS
  <2>4. turn' \in [Collectors -> Seq(Nodes)]
    BY <1>3, <2>3 DEF Sample, TypeOK
  <2> QED BY <1>3, <2>1, <2>2, <2>4 DEF Sample, TypeOK
<1>4. CASE Sleep(c)
  BY <1>4 DEF Sleep, files, TypeOK
<1> QED BY <1>1, <1>2, <1>3, <1>4 DEF Collect

LEMMA CommandTypes ==
  ASSUME TypeOK, Command \/ CommandGoesOn
  PROVE  TypeOK'
<1>1. CASE StartContainer
  BY <1>1, AgeFacts DEF StartContainer, ContainerTo, files, TypeOK
<1>2. CASE StopContainer
  BY <1>2 DEF StopContainer, ContainerTo, files, TypeOK
<1>3. CASE Down
  BY <1>3 DEF Down, ContainerTo, files, TypeOK
<1>4. CASE KillOld
  BY <1>4 DEF KillOld, NoCollector, files, TypeOK
<1>5. CASE Spawn
  <2>1. PICK c \in Collectors : /\ pc' = [pc EXCEPT ![c] = "check"]
                                /\ turn' = [turn EXCEPT ![c] = <<>>]
    BY <1>5 DEF Spawn
  <2>2. <<>> \in Seq(Nodes)
    OBVIOUS
  <2> QED BY <1>5, <2>1, <2>2 DEF Spawn, files, TypeOK
<1>6. CASE StopCollector
  BY <1>6 DEF StopCollector, NoCollector, files, TypeOK
<1>7. CASE RemoveSamples
  BY <1>7 DEF RemoveSamples, NoFiles, files, TypeOK
<1>8. CASE Prompt
  BY <1>8 DEF Prompt, files, TypeOK
<1> QED BY <1>1, <1>2, <1>3, <1>4, <1>5, <1>6, <1>7, <1>8
    DEF Command, CommandGoesOn

LEMMA TypesKept ==
  ASSUME TypeOK, [Next]_vars
  PROVE  TypeOK'
<1>1. CASE Tick
  BY <1>1, TickTypes
<1>2. CASE View
  BY <1>2, AgeFacts DEF View, files, TypeOK
<1>3. ASSUME NEW n \in Breakable, Break(n) PROVE TypeOK'
  BY <1>3, TelemetryAssumption DEF Break, files, TypeOK
<1>4. ASSUME NEW n \in Nodes, Status(n) PROVE TypeOK'
  <2>1. cache' \in [Nodes -> Ages \union {None}]
    BY <1>4, ProbeTypes DEF Status, TypeOK
  <2> QED BY <1>4, <2>1 DEF Status, files, TypeOK
<1>5. ASSUME NEW c \in Collectors, Collect(c) PROVE TypeOK'
  BY <1>5, CollectTypes
<1>6. CASE Command \/ CommandGoesOn
  BY <1>6, CommandTypes
<1>7. CASE UNCHANGED vars
  BY <1>7 DEF vars, files, TypeOK
<1> QED BY <1>1, <1>2, <1>3, <1>4, <1>5, <1>6, <1>7 DEF Next

-----------------------------------------------------------------------------
(* Who is alive.                                                           *)

\* A collector only ends its own life; it starts nobody's.
LEMMA CollectAlive ==
  ASSUME TypeOK, NEW c \in Collectors, Collect(c)
  PROVE  c \in Alive /\ Alive' \subseteq Alive /\ UNCHANGED command
<1>1. /\ pc[c] # "dead" /\ UNCHANGED command
      /\ \A d \in Collectors : d # c => pc'[d] = pc[d]
  BY DEF Collect, Check, Gate, Sample, Sleep, TypeOK
<1> QED BY <1>1 DEF Alive

LEMMA TickAlive ==
  ASSUME TypeOK, Tick
  PROVE  /\ Alive' = Alive /\ UNCHANGED command
         /\ \A n \in Nodes : sample[n] = None => sample'[n] = None
<1>1. \A c \in Collectors : pc'[c] = "dead" <=> pc[c] = "dead"
  BY DEF Tick, TypeOK
<1>2. \A n \in Nodes : sample[n] = None => sample'[n] = None
  BY AgeFacts DEF Tick, TypeOK
<1> QED BY <1>1, <1>2 DEF Alive, Tick

LEMMA KilledAll ==
  ASSUME NoCollector
  PROVE  Alive' = {}
BY DEF NoCollector, Alive

LEMMA CollectorInvKept ==
  ASSUME CollectorInv, [Next]_vars
  PROVE  CollectorInv'
<1>1. TypeOK'
  BY TypesKept DEF CollectorInv
<1>2. TypeOK /\ Alone /\ NobodyLeft /\ StopStops
  BY DEF CollectorInv
<1> SUFFICES Alone' /\ NobodyLeft' /\ StopStops'
  BY <1>1 DEF CollectorInv
<1>3. CASE Tick
  BY <1>2, <1>3, TickAlive DEF Alone, NobodyLeft, StopStops
<1>4. CASE View \/ (\E n \in Breakable : Break(n)) \/ (\E n \in Nodes : Status(n))
           \/ UNCHANGED vars
  <2>1. UNCHANGED <<pc, sample, command>>
    BY <1>4 DEF View, Break, Status, vars, files
  <2> QED BY <1>2, <2>1 DEF Alone, NobodyLeft, StopStops, Alive
<1>5. ASSUME NEW c \in Collectors, Collect(c)
      PROVE  Alone' /\ NobodyLeft' /\ StopStops'
  <2>1. c \in Alive /\ Alive' \subseteq Alive /\ UNCHANGED command
    BY <1>2, <1>5, CollectAlive
  <2>2. command \notin {"spawn", "remove", "stopped"}
    BY <1>2, <2>1 DEF NobodyLeft
  <2> QED BY <1>2, <2>1, <2>2 DEF Alone, NobodyLeft, StopStops
<1>6. CASE Command
  <2>1. UNCHANGED pc /\ command' \in {"kill", "stop", "none"}
    BY <1>6 DEF Command, StartContainer, StopContainer, Down, ContainerTo
  <2> QED BY <1>2, <2>1 DEF Alone, NobodyLeft, StopStops, Alive
<1>7. CASE KillOld \/ StopCollector
  <2>1. Alive' = {} /\ command' \in {"spawn", "remove"}
    BY <1>7, KilledAll DEF KillOld, StopCollector
  <2> QED BY <2>1 DEF Alone, NobodyLeft, StopStops
<1>8. CASE Spawn
  <2>1. Alive = {} /\ command' = "none"
    BY <1>2, <1>8 DEF Spawn, NobodyLeft
  <2>2. PICK c \in Collectors : pc' = [pc EXCEPT ![c] = "check"]
    BY <1>8 DEF Spawn
  <2>3. \A d \in Collectors : d # c => pc'[d] = "dead"
    BY <1>2, <2>1, <2>2 DEF Alive, TypeOK
  <2>4. Alive' \subseteq {c}
    BY <2>3 DEF Alive
  <2> QED BY <2>1, <2>4 DEF Alone, NobodyLeft, StopStops
<1>9. CASE RemoveSamples
  <2>1. Alive = {} /\ UNCHANGED pc /\ command' = "stopped"
    BY <1>2, <1>9 DEF RemoveSamples, NobodyLeft
  <2>2. \A n \in Nodes : sample'[n] = None
    BY <1>9 DEF RemoveSamples, NoFiles
  <2>3. Alive' = {}
    BY <2>1 DEF Alive
  <2> QED BY <2>2, <2>3 DEF Alone, NobodyLeft, StopStops
<1>10. CASE Prompt
  <2>1. UNCHANGED pc /\ command' = "none"
    BY <1>10 DEF Prompt
  <2> QED BY <1>2, <2>1 DEF Alone, NobodyLeft, StopStops, Alive
<1> QED BY <1>3, <1>4, <1>5, <1>6, <1>7, <1>8, <1>9, <1>10 DEF Next, CommandGoesOn

LEMMA CollectorStart ==
  ASSUME Init
  PROVE  CollectorInv
<1>1. Alive = {} /\ command = "none"
  BY DEF Init, Alive
<1>2. <<>> \in Seq(Nodes)
  OBVIOUS
<1>3. TypeOK
  BY <1>2, AgeFacts DEF Init, TypeOK
<1> QED BY <1>1, <1>3 DEF CollectorInv, Alone, NobodyLeft, StopStops

\* Those who are alone are one at most.
LEMMA AloneIsOne ==
  ASSUME Alone
  PROVE  OneCollector
<1>1. CASE Alive = {}
  <2>1. Cardinality({}) = 0
    BY FS_EmptySet
  <2> QED BY <1>1, <2>1 DEF OneCollector
<1>2. CASE Alive # {}
  <2>1. PICK c : Alive = {c}
    BY <1>2 DEF Alone
  <2>2. Cardinality({c}) = 1
    BY FS_Singleton
  <2> QED BY <2>1, <2>2 DEF OneCollector
<1> QED BY <1>1, <1>2

(***************************************************************************)
(* At most one collector probes the nodes, whenever dashboards are         *)
(* started, stopped and brought down while an old one sleeps, and when     *)
(* `dashboard --stop' has returned there is none, and no sample: what the  *)
(* order of kill, pkill and rm in ventus-dspark is for.                    *)
(***************************************************************************)
THEOREM CollectorsKeepOrder == Spec => []CollectorsOrderly
<1>1. CollectorInv => CollectorsOrderly
  BY AloneIsOne DEF CollectorInv, CollectorsOrderly
<1>2. CollectorInv /\ [Next]_vars => CollectorInv'
  BY CollectorInvKept
<1> QED BY <1>1, <1>2, CollectorStart, PTL DEF Spec

-----------------------------------------------------------------------------
(* The dashboard's figures.                                                *)

\* No more than the engine makes at its best in t units of time, if anything.
Made(d, t) == d <= 0 \/ \E load \in Loads : d <= load["gen"] * t

\* The sample of the decode tile is younger than the call; before the call is
\* over, it is that of the call.
Clock ==
  /\ prevAt <= now /\ at <= now
  /\ stage # "idle" => now <= at + CallTime
  /\ stage = "idle" =>
       IF cacheAt = Null THEN prev["gen"] = Null ELSE prevAt = cacheAt
  /\ stage \in {"fetch", "decode"} => prev["gen"] = Null \/ prevAt < at
  /\ stage \in {"prefill", "alpha", "end"} => prevAt = at

\* What was counted since the sample, and what the call in progress found.
Gains ==
  /\ stage # "decode" /\ prev["gen"] # Null =>
       Made(counter["gen"] - prev["gen"], now - prevAt)
  /\ stage = "decode" /\ m["gen"] # Null =>
       /\ Made(counter["gen"] - m["gen"], now - at)
       /\ prev["gen"] # Null => Made(m["gen"] - prev["gen"], at + CallTime - prevAt)

\* The acceptance between two samples of one boot is a share.
Grew(old, new) ==
  /\ old["acc"] # Null /\ old["draft"] # Null => old["acc"] <= new["acc"]
  /\ old["acc"] # Null /\ old["draft"] # Null =>
       new["acc"] - old["acc"] <= new["draft"] - old["draft"]

Share(figure) == figure # Blank => 0 <= figure[1] /\ figure[1] <= figure[2]

Shares ==
  ~restarted =>
    /\ counter["acc"] <= counter["draft"]
    /\ Grew(prev, counter)
    /\ stage \in {"decode", "prefill", "alpha"} =>
         /\ Grew(m, counter)
         /\ m["acc"] # Null /\ m["draft"] # Null =>
              m["acc"] <= m["draft"] /\ Grew(prev, m)
    /\ Share(alpha) /\ Share(shown.alpha)

BoardInv ==
  /\ BoardTypeOK /\ Clock /\ Gains /\ RateReal /\ Shares
  /\ stage \in {"prefill", "alpha", "end"} => TileShown("gen", "decode")

-----------------------------------------------------------------------------
LEMMA BoardConstants ==
  /\ MaxTime \in Nat /\ MaxTime > 0 /\ CallTime \in Nat
  /\ CacheTtl \in Nat /\ CacheTtl > 0 /\ MinDrafts \in Nat
  /\ \A load \in Loads :
       /\ load["gen"] \in Nat /\ load["prompt"] \in Nat
       /\ load["acc"] \in Nat /\ load["draft"] \in Nat
       /\ load["acc"] <= load["draft"]
<1>1. {MaxTime, CallTime, CacheTtl, MinDrafts} \subseteq Nat
  BY DashboardAssumption
<1>2. MaxTime \in Nat /\ CallTime \in Nat /\ CacheTtl \in Nat /\ MinDrafts \in Nat
  BY <1>1
<1> QED BY <1>2, DashboardAssumption DEF Counters

LEMMA Product ==
  ASSUME NEW x \in Nat, NEW y \in Nat, NEW s \in Nat, NEW t \in Nat, x <= y, s <= t
  PROVE  x * s <= y * t
<1>1. PICK d \in Nat : y = x + d
  <2>1. y - x \in Nat /\ y = x + (y - x)
    OBVIOUS
  <2> QED BY <2>1
<1>2. PICK e \in Nat : t = s + e
  <2>1. t - s \in Nat /\ t = s + (t - s)
    OBVIOUS
  <2> QED BY <2>1
<1>3. (x + d) * (s + e) = x * s + x * e + d * s + d * e
  OBVIOUS
<1>4. x * e \in Nat /\ d * s \in Nat /\ d * e \in Nat /\ x * s \in Nat
  OBVIOUS
<1> QED BY <1>1, <1>2, <1>3, <1>4

LEMMA MadeMore ==
  ASSUME NEW d \in Int, NEW t \in Nat, NEW load \in Loads, Made(d, t)
  PROVE  Made(d + load["gen"], t + 1)
<1>1. PICK g \in Nat : g = load["gen"]
  BY BoardConstants
<1>2. CASE d <= 0
  <2>1. g * 1 <= g * (t + 1)
    BY Product
  <2>2. g * 1 = g /\ g * (t + 1) \in Int
    OBVIOUS
  <2> QED BY <1>1, <1>2, <2>1, <2>2 DEF Made
<1>3. ASSUME NEW other \in Loads, d <= other["gen"] * t
      PROVE  Made(d + load["gen"], t + 1)
  <2>1. PICK o \in Nat : o = other["gen"]
    BY BoardConstants
  <2>2. o * (t + 1) = o * t + o /\ g * (t + 1) = g * t + g
        /\ o * t \in Int /\ g * t \in Int
    OBVIOUS
  <2>3. CASE g <= o
    BY <1>1, <1>3, <2>1, <2>2, <2>3 DEF Made
  <2>4. CASE o <= g
    <3>1. o * t <= g * t
      BY <2>4, Product
    <3> QED BY <1>1, <1>3, <2>1, <2>2, <3>1 DEF Made
  <2> QED BY <2>3, <2>4
<1> QED BY <1>2, <1>3 DEF Made

LEMMA MadeLater ==
  ASSUME NEW d \in Int, NEW s \in Nat, NEW t \in Nat, s <= t, Made(d, s)
  PROVE  Made(d, t)
<1>1. CASE d <= 0
  BY <1>1 DEF Made
<1>2. ASSUME NEW load \in Loads, d <= load["gen"] * s PROVE Made(d, t)
  <2>1. PICK g \in Nat : g = load["gen"]
    BY BoardConstants
  <2>2. g * s <= g * t /\ g * s \in Int /\ g * t \in Int
    BY Product
  <2> QED BY <1>2, <2>1, <2>2 DEF Made
<1> QED BY <1>1, <1>2 DEF Made

\* The values a step speaks of.
LEMMA BoardFacts ==
  ASSUME BoardTypeOK
  PROVE  /\ now \in Nat /\ at \in Nat /\ prevAt \in Nat
         /\ cacheAt \in Nat \/ cacheAt = -1
         /\ Null = -1
         /\ \A key \in Counters :
              /\ counter[key] \in Nat
              /\ prev[key] \in Nat \/ prev[key] = -1
              /\ m[key] \in Nat \/ m[key] = -1
              /\ before[key] \in Nat \/ before[key] = -1
         /\ "gen" \in Counters /\ "prompt" \in Counters
         /\ "acc" \in Counters /\ "draft" \in Counters
BY BoardConstants DEF BoardTypeOK, Null, Counters

LEMMA BoardTypesKept ==
  ASSUME BoardTypeOK, [BoardNext]_boardVars
  PROVE  BoardTypeOK'
<1> USE BoardConstants, BoardFacts
<1>1. CASE Serve
  <2>1. PICK load \in Loads : counter' = [c \in Counters |-> counter[c] + load[c]]
    BY <1>1 DEF Serve
  <2>2. \A c \in Counters : counter[c] + load[c] \in Nat
    BY DEF Counters
  <2>3. counter' \in [Counters -> Nat]
    BY <2>1, <2>2
  <2>4. now' \in 1..MaxTime
    BY <1>1 DEF Serve, TimePasses, BoardTypeOK
  <2> QED BY <1>1, <2>3, <2>4 DEF Serve, sharedVars, BoardTypeOK
<1>2. CASE Restart
  <2>1. now' \in 1..MaxTime
    BY <1>2 DEF Restart, TimePasses, BoardTypeOK
  <2> QED BY <1>2, <2>1 DEF Restart, sharedVars, BoardTypeOK
<1>3. CASE BeginCall
  BY <1>3 DEF BeginCall, engineVars, sharedVars, BoardTypeOK
<1>4. CASE Fetch
  <2>1. m' = counter \/ m' = NoMetrics
    BY <1>4 DEF Fetch
  <2>2. m' \in [Counters -> Nat \union {Null}]
    BY <2>1 DEF NoMetrics, BoardTypeOK
  <2> QED BY <1>4, <2>2 DEF Fetch, engineVars, sharedVars, BoardTypeOK
<1>5. ASSUME NEW key \in {"gen", "prompt"}, NEW tile \in {"decode", "prefill"},
             NEW next \in {"prefill", "alpha"}, Rate(key, tile, next)
      PROVE  BoardTypeOK'
  <2>1. RateOf(key) \in Figures
    BY DEF RateOf, Figures, Blank
  <2>2. shown' \in [{"decode", "prefill", "alpha"} -> Figures]
    BY <1>5, <2>1 DEF Rate, BoardTypeOK
  <2>3. /\ prev' \in [Counters -> Nat \union {Null}]
        /\ before' \in [Counters -> Nat \union {Null}]
    BY <1>5 DEF Rate, BoardTypeOK
  <2> QED BY <1>5, <2>2, <2>3 DEF Rate, engineVars, BoardTypeOK
<1>6. CASE Acceptance
  <2>1. prev' \in [Counters -> Nat \union {Null}]
    <3>1. prev' = prev \/ prev' = [prev EXCEPT !["acc"] = m["acc"], !["draft"] = m["draft"]]
      BY <1>6 DEF Acceptance
    <3> QED BY <3>1 DEF BoardTypeOK
  <2>2. Window[2] > MinDrafts => Window \in Figures
    BY DEF Window, Figures
  <2>3. Blank \in Figures /\ (m["draft"] # 0 => <<m["acc"], m["draft"]>> \in Figures)
    BY DEF Figures
  <2>4. \E figure \in Figures : shown' = [shown EXCEPT !.alpha = figure]
    <3>1. alpha \in Figures
      BY DEF BoardTypeOK
    <3> QED BY <1>6, <2>2, <2>3, <3>1 DEF Acceptance, Show
  <2>5. alpha' \in Figures
    BY <1>6, <2>2 DEF Acceptance, BoardTypeOK
  <2> QED BY <1>6, <2>1, <2>4, <2>5 DEF Acceptance, engineVars, BoardTypeOK
<1>7. CASE EndCall
  BY <1>7 DEF EndCall, engineVars, BoardTypeOK
<1>8. CASE UNCHANGED boardVars
  BY <1>8 DEF boardVars, engineVars, sharedVars, BoardTypeOK
<1> QED BY <1>1, <1>2, <1>3, <1>4, <1>5, <1>6, <1>7, <1>8
    DEF BoardNext, Decode, Prefill

LEMMA ClockKept ==
  ASSUME BoardInv, [BoardNext]_boardVars
  PROVE  Clock'
<1> BoardTypeOK /\ Clock
  BY DEF BoardInv
<1> USE BoardConstants, BoardFacts
<1>1. CASE Serve \/ Restart
  BY <1>1 DEF Serve, Restart, TimePasses, sharedVars, Clock
<1>2. CASE BeginCall
  BY <1>2 DEF BeginCall, engineVars, sharedVars, Clock
<1>3. CASE Fetch
  BY <1>3 DEF Fetch, engineVars, sharedVars, Clock
<1>4. CASE Decode \/ Prefill
  BY <1>4 DEF Decode, Prefill, Rate, engineVars, Clock
<1>5. CASE Acceptance
  BY <1>5 DEF Acceptance, engineVars, Clock
<1>6. CASE EndCall
  BY <1>6 DEF EndCall, engineVars, Clock
<1>7. CASE UNCHANGED boardVars
  BY <1>7 DEF boardVars, engineVars, sharedVars, Clock
<1> QED BY <1>1, <1>2, <1>3, <1>4, <1>5, <1>6, <1>7 DEF BoardNext

LEMMA GainsKept ==
  ASSUME BoardInv, [BoardNext]_boardVars
  PROVE  Gains' /\ RateReal'
<1> BoardTypeOK /\ Clock /\ Gains /\ RateReal
  BY DEF BoardInv
<1> USE BoardConstants, BoardFacts
<1>1. CASE Serve
  <2>1. PICK load \in Loads : counter' = [c \in Counters |-> counter[c] + load[c]]
    BY <1>1 DEF Serve
  <2>2. PICK g \in Nat : g = load["gen"] /\ counter'["gen"] = counter["gen"] + g
    BY <2>1
  <2>3. now' = now + 1 /\ UNCHANGED <<stage, prev, prevAt, at, m, shown>>
    BY <1>1 DEF Serve, TimePasses, sharedVars
  <2>4. ASSUME stage # "decode", prev["gen"] # Null
        PROVE  Made(counter'["gen"] - prev["gen"], now' - prevAt)
    <3>1. Made(counter["gen"] - prev["gen"], now - prevAt)
      BY <2>4 DEF Gains
    <3>2. PICK d \in Int : d = counter["gen"] - prev["gen"]
      BY <2>4
    <3>3. PICK t \in Nat : t = now - prevAt
      BY DEF Clock
    <3>4. Made(d + g, t + 1)
      BY <2>2, <3>1, <3>2, <3>3, MadeMore
    <3>5. d + g = counter'["gen"] - prev["gen"] /\ t + 1 = now' - prevAt
      BY <2>2, <2>3, <2>4, <3>2, <3>3
    <3> QED BY <3>4, <3>5
  <2>5. ASSUME stage = "decode", m["gen"] # Null
        PROVE  Made(counter'["gen"] - m["gen"], now' - at)
    <3>1. Made(counter["gen"] - m["gen"], now - at)
      BY <2>5 DEF Gains
    <3>2. PICK d \in Int : d = counter["gen"] - m["gen"]
      BY <2>5
    <3>3. PICK t \in Nat : t = now - at
      BY DEF Clock
    <3>4. Made(d + g, t + 1)
      BY <2>2, <3>1, <3>2, <3>3, MadeMore
    <3>5. d + g = counter'["gen"] - m["gen"] /\ t + 1 = now' - at
      BY <2>2, <2>3, <2>5, <3>2, <3>3
    <3> QED BY <3>4, <3>5
  <2> QED BY <2>3, <2>4, <2>5 DEF Gains, RateReal
<1>2. CASE Restart
  <2>1. counter'["gen"] = 0 /\ UNCHANGED <<stage, prev, prevAt, at, m, shown>>
    BY <1>2 DEF Restart, TimePasses, sharedVars
  <2> QED BY <2>1 DEF Gains, RateReal, Made
<1>3. CASE BeginCall
  BY <1>3 DEF BeginCall, engineVars, sharedVars, Gains, RateReal
<1>4. CASE Fetch
  <2>1. /\ m' = counter \/ m' = NoMetrics
        /\ stage = "fetch" /\ stage' = "decode"
        /\ UNCHANGED <<now, counter, prev, prevAt, at, shown>>
    BY <1>4 DEF Fetch, engineVars, sharedVars
  <2>2. ASSUME m'["gen"] # Null
        PROVE  /\ Made(counter["gen"] - m'["gen"], now - at)
               /\ prev["gen"] # Null =>
                    Made(m'["gen"] - prev["gen"], at + CallTime - prevAt)
    <3>1. m' = counter
      BY <2>1, <2>2 DEF NoMetrics
    <3>2. counter["gen"] - m'["gen"] <= 0
      BY <3>1
    <3>3. ASSUME prev["gen"] # Null
          PROVE  Made(m'["gen"] - prev["gen"], at + CallTime - prevAt)
      <4>1. Made(counter["gen"] - prev["gen"], now - prevAt)
        BY <2>1, <3>3 DEF Gains
      <4>2. PICK d \in Int : d = counter["gen"] - prev["gen"]
        BY <3>3
      <4>3. PICK s \in Nat, t \in Nat : s = now - prevAt /\ t = at + CallTime - prevAt
        <5>1. now - prevAt \in Nat /\ at + CallTime - prevAt \in Nat
          BY <2>1 DEF Clock
        <5> QED BY <5>1
      <4>4. s <= t
        BY <2>1, <4>3 DEF Clock
      <4>5. Made(d, t)
        BY <4>1, <4>2, <4>3, <4>4, MadeLater
      <4> QED BY <3>1, <4>2, <4>3, <4>5
    <3> QED BY <3>2, <3>3 DEF Made
  <2> QED BY <2>1, <2>2 DEF Gains, RateReal
<1>5. CASE Decode
  <2>1. /\ stage = "decode" /\ stage' = "prefill" /\ prevAt' = at
        /\ prev'["gen"] = m["gen"]
        /\ shown'.decode = RateOf("gen")
        /\ UNCHANGED <<now, counter, at, m>>
    BY <1>5 DEF Decode, Rate, engineVars, BoardTypeOK
  <2>2. Gains'
    BY <2>1 DEF Gains
  <2>3. ASSUME RateOf("gen") # Blank
        PROVE  \E load \in Loads : m["gen"] - prev["gen"] <= load["gen"] * ((at - prevAt) + CallTime)
    <3>1. m["gen"] # Null /\ prev["gen"] # Null /\ m["gen"] - prev["gen"] > 0
      BY <2>3 DEF RateOf
    <3>2. Made(m["gen"] - prev["gen"], at + CallTime - prevAt)
      BY <2>1, <3>1 DEF Gains
    <3>3. at + CallTime - prevAt = (at - prevAt) + CallTime
      OBVIOUS
    <3>4. Made(m["gen"] - prev["gen"], (at - prevAt) + CallTime)
      BY <3>2, <3>3
    <3>5. ~(m["gen"] - prev["gen"] <= 0)
      BY <3>1
    <3> QED BY <3>4, <3>5 DEF Made
  <2>4. RateOf("gen") # Blank => RateOf("gen") = <<m["gen"] - prev["gen"], at - prevAt>>
    BY DEF RateOf
  <2> QED BY <2>1, <2>2, <2>3, <2>4 DEF RateReal
<1>6. CASE Prefill
  <2>1. /\ stage = "prefill" /\ stage' = "alpha" /\ prevAt' = at
        /\ prev'["gen"] = prev["gen"] /\ shown'.decode = shown.decode
        /\ UNCHANGED <<now, counter, at, m>>
    BY <1>6 DEF Prefill, Rate, engineVars, BoardTypeOK
  <2> QED BY <2>1 DEF Clock, Gains, RateReal
<1>7. CASE Acceptance
  <2>1. /\ stage = "alpha" /\ stage' = "end" /\ UNCHANGED prevAt
        /\ prev'["gen"] = prev["gen"] /\ shown'.decode = shown.decode
        /\ UNCHANGED <<now, counter, at, m>>
    BY <1>7 DEF Acceptance, Show, engineVars, BoardTypeOK
  <2> QED BY <2>1 DEF Gains, RateReal
<1>8. CASE EndCall
  BY <1>8 DEF EndCall, engineVars, Gains, RateReal
<1>9. CASE UNCHANGED boardVars
  BY <1>9 DEF boardVars, engineVars, sharedVars, Gains, RateReal
<1> QED BY <1>1, <1>2, <1>3, <1>4, <1>5, <1>6, <1>7, <1>8, <1>9 DEF BoardNext

LEMMA TileKept ==
  ASSUME BoardInv, [BoardNext]_boardVars, stage' \in {"prefill", "alpha", "end"}
  PROVE  TileShown("gen", "decode")'
<1> BoardTypeOK /\ Clock
  BY DEF BoardInv
<1> USE BoardConstants, BoardFacts
<1>1. CASE Decode
  <2>1. /\ stage = "decode" /\ (prevAt < at \/ prev["gen"] = Null)
        /\ before'["gen"] = prev["gen"] /\ UNCHANGED m
        /\ shown'.decode = RateOf("gen")
    BY <1>1 DEF Decode, Rate, Clock, BoardTypeOK
  <2>2. ASSUME prev["gen"] # Null, m["gen"] > prev["gen"]
        PROVE  RateOf("gen") # Blank
    <3>1. RateOf("gen") = <<m["gen"] - prev["gen"], at - prevAt>>
      BY <2>1, <2>2 DEF RateOf
    <3>2. <<m["gen"] - prev["gen"], at - prevAt>> # <<>>
      OBVIOUS
    <3> QED BY <3>1, <3>2 DEF Blank
  <2> QED BY <2>1, <2>2 DEF TileShown
<1>2. CASE ~Decode
  <2>1. /\ stage \in {"prefill", "alpha", "end"} /\ UNCHANGED m
        /\ before'["gen"] = before["gen"] /\ shown'.decode = shown.decode
    BY <1>2 DEF BoardNext, Serve, Restart, BeginCall, Fetch, Prefill, Rate,
                Acceptance, Show, EndCall, boardVars, BoardTypeOK
  <2> QED BY <2>1 DEF BoardInv, TileShown
<1> QED BY <1>1, <1>2

LEMMA SharesKept ==
  ASSUME BoardInv, [BoardNext]_boardVars
  PROVE  Shares'
<1> BoardTypeOK /\ Shares
  BY DEF BoardInv
<1> SUFFICES ASSUME ~restarted' PROVE Shares'
  BY DEF Shares
<1> USE BoardConstants, BoardFacts
<1>1. ~restarted /\ ~Restart
  BY DEF BoardNext, Serve, Restart, BeginCall, Fetch, Decode, Prefill, Rate,
         Acceptance, EndCall, engineVars, boardVars
<1>2. CASE Serve
  <2>1. PICK load \in Loads : counter' = [c \in Counters |-> counter[c] + load[c]]
    BY <1>2 DEF Serve
  <2>2. PICK a \in Nat, d \in Nat :
          /\ a <= d
          /\ counter'["acc"] = counter["acc"] + a
          /\ counter'["draft"] = counter["draft"] + d
    BY <2>1
  <2>3. UNCHANGED <<stage, prev, m, alpha, shown>>
    BY <1>2 DEF Serve, sharedVars
  <2> QED BY <1>1, <2>2, <2>3 DEF Shares, Grew
<1>3. CASE BeginCall
  BY <1>1, <1>3 DEF BeginCall, engineVars, sharedVars, Shares, Grew
<1>4. CASE Fetch
  <2>1. m' = counter \/ m' = NoMetrics
    BY <1>4 DEF Fetch
  <2>2. UNCHANGED <<counter, prev, alpha, shown>>
    BY <1>4 DEF Fetch, engineVars, sharedVars
  <2>3. CASE m' = counter
    BY <1>1, <2>2, <2>3 DEF Shares, Grew
  <2>4. CASE m' = NoMetrics
    BY <1>1, <2>2, <2>4 DEF Shares, Grew, NoMetrics
  <2> QED BY <2>1, <2>3, <2>4
<1>5. CASE Decode \/ Prefill
  <2>1. /\ prev'["acc"] = prev["acc"] /\ prev'["draft"] = prev["draft"]
        /\ shown'.alpha = shown.alpha /\ UNCHANGED <<counter, m, alpha>>
        /\ stage \in {"decode", "prefill"}
    BY <1>5 DEF Decode, Prefill, Rate, engineVars, BoardTypeOK
  <2> QED BY <1>1, <2>1 DEF Shares, Grew
<1>6. CASE Acceptance
  <2>1. /\ stage = "alpha" /\ stage' = "end" /\ UNCHANGED <<counter, m>>
    BY <1>6 DEF Acceptance, engineVars
  <2>2. Grew(m, counter) /\ Share(alpha) /\ counter["acc"] <= counter["draft"]
        /\ Grew(prev, counter)
    BY <1>1, <2>1 DEF Shares
  <2>3. Grew(prev', counter)
    <3>1. CASE prev' = prev
      BY <2>2, <3>1
    <3>2. CASE prev' = [prev EXCEPT !["acc"] = m["acc"], !["draft"] = m["draft"]]
      <4>1. prev'["acc"] = m["acc"] /\ prev'["draft"] = m["draft"]
        BY <3>2 DEF BoardTypeOK
      <4> QED BY <2>2, <4>1 DEF Grew
    <3> QED BY <1>6, <3>1, <3>2 DEF Acceptance
  <2>4. ASSUME m["acc"] # Null, m["draft"] # Null
        PROVE  Share(<<m["acc"], m["draft"]>>)
               /\ (prev["acc"] # Null /\ prev["draft"] # Null => Share(Window))
    <3>1. m["acc"] <= m["draft"] /\ Grew(prev, m)
      BY <1>1, <2>1, <2>4 DEF Shares
    <3> QED BY <2>4, <3>1 DEF Share, Window, Grew
  <2>5. Share(Blank)
    BY DEF Share
  <2>6. Share(alpha') /\ Share(shown'.alpha)
    <3>1. \A figure : shown' = [shown EXCEPT !.alpha = figure] => shown'.alpha = figure
      BY DEF BoardTypeOK
    <3> QED BY <1>6, <2>2, <2>4, <2>5, <3>1 DEF Acceptance, Show
  <2> QED BY <2>1, <2>2, <2>3, <2>6 DEF Shares
<1>7. CASE EndCall
  BY <1>1, <1>7 DEF EndCall, engineVars, Shares, Grew
<1>8. CASE UNCHANGED boardVars
  BY <1>1, <1>8 DEF boardVars, engineVars, sharedVars, Shares, Grew
<1> QED BY <1>1, <1>2, <1>3, <1>4, <1>5, <1>6, <1>7, <1>8 DEF BoardNext

LEMMA BoardStart ==
  ASSUME BoardInit
  PROVE  BoardInv
<1> USE BoardConstants
<1>1. BoardTypeOK
  <2>1. NoMetrics \in [Counters -> Nat \union {Null}]
    BY DEF NoMetrics
  <2>2. [decode |-> Blank, prefill |-> Blank, alpha |-> Blank]
          \in [{"decode", "prefill", "alpha"} -> Figures]
    BY DEF Figures
  <2>3. [c \in Counters |-> 0] \in [Counters -> Nat]
    OBVIOUS
  <2>4. Blank \in Figures
    BY DEF Figures
  <2>5. now \in 1..MaxTime /\ prevAt \in Nat /\ at \in Nat
    BY DEF BoardInit
  <2>6. /\ counter \in [Counters -> Nat] /\ prev \in [Counters -> Nat \union {Null}]
        /\ m \in [Counters -> Nat \union {Null}]
        /\ before \in [Counters -> Nat \union {Null}]
    BY <2>1, <2>3 DEF BoardInit
  <2>7. alpha \in Figures /\ shown \in [{"decode", "prefill", "alpha"} -> Figures]
    BY <2>2, <2>4 DEF BoardInit
  <2> QED BY <2>5, <2>6, <2>7 DEF BoardInit, BoardTypeOK
<1>2. \A key \in Counters : counter[key] = 0 /\ prev[key] = Null
  BY DEF BoardInit, NoMetrics
<1>3. Clock /\ Gains /\ RateReal
  BY <1>2 DEF BoardInit, Clock, Gains, RateReal, Null, Counters
<1>4. Shares
  BY <1>2 DEF BoardInit, Shares, Grew, Share, Counters
<1> QED BY <1>1, <1>3, <1>4 DEF BoardInv, BoardInit

(***************************************************************************)
(* Whatever outages and restarts lie between two polls: the decode rate is *)
(* no more than the engine made in the time it is divided by, its tile has *)
(* a figure if two samples differ, and the acceptance of one boot is a     *)
(* share.  This is what collect(), _rate() and acceptance() promise of     *)
(* _prev.                                                                  *)
(***************************************************************************)
THEOREM FiguresAreReal == BoardSpec => []FiguresReal
<1>1. BoardInv => FiguresReal
  BY DEF BoardInv, FiguresReal, DecodeShown, AlphaIsShare, Shares, Share
<1>2. BoardInv /\ [BoardNext]_boardVars => BoardInv'
  BY BoardTypesKept, ClockKept, GainsKept, SharesKept, TileKept DEF BoardInv
<1> QED BY <1>1, <1>2, BoardStart, PTL DEF BoardSpec

-----------------------------------------------------------------------------
(* What `up' serves.                                                       *)

Stages == {"ended", "copy compose", "copy env", "start worker", "start head",
           "waiting", "serving"}

Configs == [model : Models \union {"none"}, lane : Lanes \union {"none"}, k : Int]

Containers == [config : Configs, gid : {"none", "head's", "worker's"}, world : Int,
               joined : BOOLEAN]

LauncherTypes ==
  /\ envFile \in Configs
  /\ copies \in [compose : Lanes \union {"none"}, env : Configs]
  /\ up \in [at : Stages, config : Configs, alone : BOOLEAN]
  /\ head \in Containers /\ worker \in Containers
  /\ worlds \in Int

\* What the commands of an `up' have made so far is for its own request; the
\* files and containers of earlier ones are not looked at.
Prepared ==
  /\ up.at \notin {"ended", "serving"} => envFile = up.config
  /\ up.at \in {"copy env", "start worker"} => copies.compose = up.config.lane
  /\ up.at = "start worker" => copies.env = up.config
  /\ up.at \in {"start head", "waiting"} =>
       worker.config = up.config /\ worker.gid = "worker's"
  /\ up.at = "waiting" => head.config = up.config

LauncherInv == LauncherTypes /\ Prepared

-----------------------------------------------------------------------------
LEMMA GeometryIsInt ==
  ASSUME NEW model \in Models, NEW lane, NEW k \in Requested,
         NEW n \in Geometry(model, lane, k)
  PROVE  n \in Int
<1>1. Block[model] \in Nat /\ NextN[model] \in Nat \ {0} /\ k \in Nat
  BY LauncherAssumption
<1>2. DefaultK(model, lane) \in Int
  BY <1>1 DEF DefaultK
<1> QED BY <1>1, <1>2 DEF Geometry

\* A configuration with its own lane is itself.
LEMMA SameLane ==
  ASSUME NEW config \in Configs
  PROVE  /\ config.lane \in Lanes \union {"none"}
         /\ [config EXCEPT !.lane = config.lane] = config
BY DEF Configs

\* An `up' gets on: only its stage and the files it writes change.
LEMMA UpStepKeeps ==
  ASSUME LauncherInv, UpStep
  PROVE  LauncherInv'
<1> LauncherTypes /\ Prepared
  BY DEF LauncherInv
<1>1. /\ up.at \in Stages /\ up.config \in Configs /\ up.config.lane \in Lanes \union {"none"}
      /\ \A step \in Stages :
           /\ [up EXCEPT !.at = step] \in [at : Stages, config : Configs, alone : BOOLEAN]
           /\ [up EXCEPT !.at = step].at = step
           /\ [up EXCEPT !.at = step].config = up.config
  BY SameLane DEF LauncherTypes
<1>2. CASE CopyCompose
  <2>1. /\ up' = [up EXCEPT !.at = "copy env"] /\ up.at = "copy compose"
        /\ copies' = [copies EXCEPT !.compose = up.config.lane]
        /\ UNCHANGED <<envFile, head, worker, worlds>>
    BY <1>2 DEF CopyCompose
  <2>2. copies' \in [compose : Lanes \union {"none"}, env : Configs]
        /\ copies'.compose = up.config.lane
    BY <1>1, <2>1 DEF LauncherTypes
  <2> QED BY <1>1, <2>1, <2>2 DEF LauncherInv, LauncherTypes, Prepared, Stages
<1>3. CASE CopyEnv
  <2>1. /\ up' = [up EXCEPT !.at = "start worker"] /\ up.at = "copy env"
        /\ copies' = [copies EXCEPT !.env = envFile]
        /\ UNCHANGED <<envFile, head, worker, worlds>>
    BY <1>3 DEF CopyEnv
  <2>2. copies' \in [compose : Lanes \union {"none"}, env : Configs]
        /\ copies'.compose = copies.compose /\ copies'.env = envFile
    BY <2>1 DEF LauncherTypes
  <2> QED BY <1>1, <2>1, <2>2 DEF LauncherInv, LauncherTypes, Prepared, Stages
<1>4. CASE StartWorker
  <2>1. /\ up' = [up EXCEPT !.at = "start head"] /\ up.at = "start worker"
        /\ worker' = NewWorker
        /\ UNCHANGED <<envFile, copies, head, worlds>>
    BY <1>4 DEF StartWorker
  <2>2. [copies.env EXCEPT !.lane = copies.compose] = up.config
    BY <1>1, <2>1, SameLane DEF Prepared
  <2>3. worker' = [config |-> up.config, gid |-> "worker's", world |-> 0, joined |-> FALSE]
    BY <2>1, <2>2 DEF NewWorker, WorkerContainer
  <2>4. /\ worker'.config = up.config /\ worker'.gid = "worker's"
        /\ worker' \in Containers
    BY <1>1, <2>3 DEF Containers
  <2>5. up'.at = "start head" /\ up'.config = up.config
        /\ up' \in [at : Stages, config : Configs, alone : BOOLEAN]
    BY <1>1, <2>1 DEF Stages
  <2> QED BY <2>1, <2>4, <2>5 DEF LauncherInv, LauncherTypes, Prepared
<1>5. CASE StartHead
  <2>1. /\ up' = [up EXCEPT !.at = "waiting"] /\ up.at = "start head"
        /\ head' = [config |-> [envFile EXCEPT !.lane = up.config.lane],
                    gid |-> "head's", world |-> worlds + 1, joined |-> FALSE]
        /\ worlds' = worlds + 1 /\ UNCHANGED <<envFile, copies, worker>>
    BY <1>5 DEF StartHead
  <2>2. [envFile EXCEPT !.lane = up.config.lane] = up.config
    BY <1>1, <2>1, SameLane DEF Prepared
  <2>3. PICK w \in Int : w = worlds + 1
    BY DEF LauncherTypes
  <2>4. head' = [config |-> up.config, gid |-> "head's", world |-> w, joined |-> FALSE]
    BY <2>1, <2>2, <2>3
  <2>5. head'.config = up.config /\ head' \in Containers
    BY <1>1, <2>4 DEF Containers
  <2>6. up'.at = "waiting" /\ up'.config = up.config
        /\ up' \in [at : Stages, config : Configs, alone : BOOLEAN]
    BY <1>1, <2>1 DEF Stages
  <2> QED BY <2>1, <2>3, <2>5, <2>6 DEF LauncherInv, LauncherTypes, Prepared
<1>6. CASE Serving
  <2>1. up' = [up EXCEPT !.at = "serving"] /\ UNCHANGED <<envFile, copies, head, worker, worlds>>
    BY <1>6 DEF Serving
  <2> QED BY <1>1, <2>1 DEF LauncherInv, LauncherTypes, Prepared, Stages
<1> QED BY <1>2, <1>3, <1>4, <1>5, <1>6 DEF UpStep

\* The containers may go, join and restart: their configuration stays.
LEMMA RanksKeep ==
  ASSUME LauncherInv, Join \/ RestartHead \/ RestartWorker
  PROVE  LauncherInv'
<1> LauncherTypes /\ Prepared
  BY DEF LauncherInv
<1>1. ASSUME NEW c \in Containers, NEW w \in Int, NEW j \in BOOLEAN
      PROVE  /\ [c EXCEPT !.world = w] \in Containers
             /\ [c EXCEPT !.joined = j] \in Containers
             /\ [c EXCEPT !.world = w, !.joined = j] \in Containers
             /\ [c EXCEPT !.world = w].config = c.config /\ [c EXCEPT !.world = w].gid = c.gid
             /\ [c EXCEPT !.joined = j].config = c.config
             /\ [c EXCEPT !.world = w, !.joined = j].config = c.config
  BY DEF Containers
<1>2. ASSUME NEW b \in BOOLEAN
      PROVE  LET u == [up EXCEPT !.alone = b]
             IN  /\ u \in [at : Stages, config : Configs, alone : BOOLEAN]
                 /\ u.at = up.at /\ u.config = up.config
  BY DEF LauncherTypes
<1>3. CASE Join
  <2>1. /\ head' = [head EXCEPT !.joined = TRUE]
        /\ worker' = [worker EXCEPT !.world = head.world] /\ head.world \in Int
        /\ UNCHANGED <<envFile, copies, up, worlds>>
    BY <1>3 DEF Join, LauncherTypes, Containers
  <2>2. head \in Containers /\ worker \in Containers
    BY DEF LauncherTypes
  <2>3. head' \in Containers /\ head'.config = head.config
    BY <1>1, <2>1, <2>2
  <2>4. worker' \in Containers /\ worker'.config = worker.config /\ worker'.gid = worker.gid
    BY <1>1, <2>1, <2>2
  <2> QED BY <2>1, <2>3, <2>4 DEF LauncherInv, LauncherTypes, Prepared
<1>4. CASE RestartHead
  <2>1. PICK w \in Int : w = worlds + 1
    BY DEF LauncherTypes
  <2>2. PICK b \in BOOLEAN : b = (up.alone /\ up.at # "waiting")
    OBVIOUS
  <2>3. /\ head' = [head EXCEPT !.world = w, !.joined = FALSE] /\ worlds' = w
        /\ up' = [up EXCEPT !.alone = b]
        /\ UNCHANGED <<envFile, copies, worker>>
    BY <1>4, <2>1, <2>2 DEF RestartHead
  <2>4. head \in Containers
    BY DEF LauncherTypes
  <2>5. head' \in Containers /\ head'.config = head.config
    BY <1>1, <2>3, <2>4
  <2> QED BY <1>2, <2>3, <2>5 DEF LauncherInv, LauncherTypes, Prepared
<1>5. CASE RestartWorker
  <2>1. PICK b \in BOOLEAN : b = (up.alone /\ up.at # "waiting")
    OBVIOUS
  <2>2. /\ worker' = [worker EXCEPT !.world = 0]
        /\ up' = [up EXCEPT !.alone = b]
        /\ UNCHANGED <<envFile, copies, head, worlds>>
    BY <1>5, <2>1 DEF RestartWorker
  <2>3. worker \in Containers /\ 0 \in Int
    BY DEF LauncherTypes
  <2>4. worker' \in Containers /\ worker'.config = worker.config /\ worker'.gid = worker.gid
    BY <1>1, <2>2, <2>3
  <2> QED BY <1>2, <2>2, <2>4 DEF LauncherInv, LauncherTypes, Prepared
<1> QED BY <1>3, <1>4, <1>5

LEMMA LauncherStepKeeps ==
  ASSUME LauncherInv, [LauncherNext]_launcherVars
  PROVE  LauncherInv'
<1> LauncherTypes /\ Prepared
  BY DEF LauncherInv
<1>1. ASSUME NEW model \in Models, NEW lane \in Lanes, NEW k \in Requested,
             NEW dry \in BOOLEAN, Begin(model, lane, k, dry)
      PROVE  LauncherInv'
  <2>1. PICK n \in Geometry(model, lane, k) :
          LET config == [model |-> model, lane |-> lane, k |-> n]
          IN  /\ envFile' = config
              /\ up' = [at |-> IF dry THEN "ended" ELSE "copy compose",
                        config |-> config, alone |-> TRUE]
    BY <1>1 DEF Begin
  <2>2. PICK config \in Configs : config = [model |-> model, lane |-> lane, k |-> n]
    BY GeometryIsInt DEF Configs
  <2>3. PICK first \in {"ended", "copy compose"} :
          first = IF dry THEN "ended" ELSE "copy compose"
    OBVIOUS
  <2>4. envFile' = config /\ up' = [at |-> first, config |-> config, alone |-> TRUE]
    BY <2>1, <2>2, <2>3
  <2> QED BY <1>1, <2>4 DEF Begin, LauncherInv, LauncherTypes, Prepared, Stages
<1>2. CASE UpStep
  BY <1>2, UpStepKeeps
<1>3. CASE Fail
  BY <1>3 DEF Fail, LauncherInv, LauncherTypes, Prepared, Stages
<1>4. CASE DownFleet
  <2>1. NoContainer \in Containers
    BY DEF NoContainer, Nothing, Containers, Configs
  <2>2. head' \in Containers /\ worker' \in Containers
    BY <1>4, <2>1 DEF DownFleet, LauncherTypes
  <2> QED BY <1>4, <2>2 DEF DownFleet, LauncherInv, LauncherTypes, Prepared
<1>5. CASE Join \/ RestartHead \/ RestartWorker
  BY <1>5, RanksKeep
<1>6. CASE UNCHANGED launcherVars
  BY <1>6 DEF launcherVars, LauncherInv, LauncherTypes, Prepared
<1> QED BY <1>1, <1>2, <1>3, <1>4, <1>5, <1>6 DEF LauncherNext

LEMMA LauncherStart ==
  ASSUME LauncherInit
  PROVE  LauncherInv
BY DEF LauncherInit, NoContainer, Nothing, LauncherInv, LauncherTypes, Prepared,
       Containers, Configs, Stages

(***************************************************************************)
(* When `up' says that the fleet is serving, the head that answers and the *)
(* worker in its world run the model, the lane and the k of this very      *)
(* `up', whatever earlier ones that failed, dry runs, `down's and restarts *)
(* by docker have left behind: what the copies and --force-recreate of     *)
(* cmd_up are for.                                                         *)
(***************************************************************************)
THEOREM ServesAsAsked == LauncherSpec => ServesWhatWasAsked
<1>1. LauncherInv /\ Serving => AsAsked
  BY DEF LauncherInv, Prepared, Serving, AsAsked
<1>2. LauncherInv /\ [LauncherNext]_launcherVars => LauncherInv'
  BY LauncherStepKeeps
<1>3. LauncherInv /\ [LauncherNext]_launcherVars
        => [Serving => AsAsked]_launcherVars
  BY <1>1
<1> QED BY <1>2, <1>3, LauncherStart, PTL DEF LauncherSpec, ServesWhatWasAsked

-----------------------------------------------------------------------------
(* The configuration.                                                      *)

\* No depth is a multiple of the block beyond the block itself.
WithinBlock == \A k \in Tokens : k <= BlockSize \/ k % BlockSize # 0

\* What is asked for, and never changes.
Asked ==
  /\ given.tokens \in Tokens /\ given.hf \in HfKinds
  /\ given.draftLen \in Lengths /\ given.targetLen \in Lengths
  /\ given.maxLen \in {0} \union Lengths
  /\ given.method = "extract_hidden_states" => given.padded

\* What is resolved, whether or not it is refused later.
Resolved ==
  phase \in {"resolved", "accepted", "made", "proposing"} =>
    /\ method = "extract_hidden_states" => given.padded
    /\ length <= given.targetLen
    /\ method \notin Modelless => length <= given.draftLen
    /\ method = "dspark" /\ Hf.type = "deepseek_v4_dspark" =>
         tokens \in Int /\ tokens <= BlockSize

Constructed ==
  /\ phase \in {"made", "proposing"} => drafter = Drafter(method) /\ Makes(method)
  /\ phase = "proposing" =>
       call = [form |-> IF UseGpuToks(method) THEN "tensor" ELSE "list",
               reqIds |-> method = "dspark",
               hidden |-> IF method = "dspark" THEN "dspark" ELSE "mtp",
               width |-> Width(drafter)]

ConfigInv == Asked /\ Resolved /\ Constructed

LEMMA LessLength ==
  ASSUME NEW x \in Int, NEW y \in Int
  PROVE  Min({x, y}) \in Int /\ Min({x, y}) <= x /\ Min({x, y}) <= y
<1>1. \E z \in {x, y} : \A e \in {x, y} : z <= e
  <2>1. CASE x <= y
    BY <2>1
  <2>2. CASE y <= x
    BY <2>2
  <2> QED BY <2>1, <2>2
<1>2. Min({x, y}) \in {x, y} /\ \A e \in {x, y} : Min({x, y}) <= e
  BY <1>1 DEF Min
<1> QED BY <1>2

LEMMA LengthTypes ==
  ASSUME Asked
  PROVE  given.draftLen \in Nat /\ given.targetLen \in Nat /\ given.maxLen \in Nat
<1>1. Lengths \subseteq Nat
  BY ConfigAssumption
<1>2. \A x \in Lengths : x \in Nat
  BY <1>1
<1>3. given.draftLen \in Lengths /\ given.targetLen \in Lengths
      /\ (given.maxLen \in Lengths \/ given.maxLen = 0)
  BY DEF Asked
<1> QED BY <1>2, <1>3

\* The lengths the target and the draft can hold bound the one resolved.
LEMMA LengthFits ==
  ASSUME Asked, ~LengthRefused
  PROVE  DraftMaxModelLen <= given.targetLen /\ DraftMaxModelLen <= given.draftLen
<1>1. PICK x \in Int : x = given.draftLen
  BY LengthTypes
<1>2. PICK y \in Int : y = given.targetLen
  BY LengthTypes
<1>3. PICK z \in Int : z = given.maxLen
  BY LengthTypes
<1>4. Min({x, y}) \in Int /\ Min({x, y}) <= x /\ Min({x, y}) <= y
  BY LessLength
<1> QED BY <1>1, <1>2, <1>3, <1>4 DEF DraftMaxModelLen, LengthRefused

\* The depth of a DSpark drafter: the block, a smaller one, or a multiple of it.
LEMMA DepthFits ==
  ASSUME WithinBlock, Asked, Hf.type = "deepseek_v4_dspark",
         NEW k, k = IF given.tokens = 0 THEN Predict("dspark") ELSE given.tokens,
         Divides(k, Predict("dspark"))
  PROVE  k \in Int /\ k <= BlockSize
<1>1. given.hf = "v4_dspark"
  BY DEF Asked, HfKinds, Hf, HfConfigOverride
<1>2. Predict("dspark") = BlockSize
  BY <1>1 DEF Predict, Hf, HfConfigOverride
<1>3. PICK b \in Nat \ {0} : b = BlockSize
  BY ConfigAssumption
<1>4. CASE given.tokens = 0
  BY <1>2, <1>3, <1>4
<1>5. CASE given.tokens # 0
  <2>1. PICK t \in Nat : t = given.tokens /\ t \in Tokens
    BY ConfigAssumption, LengthTypes DEF Asked
  <2> QED BY <1>2, <1>3, <1>5, <2>1 DEF WithinBlock, Divides
<1> QED BY <1>4, <1>5

LEMMA ModellessKeeps ==
  ASSUME ConfigInv, PostInitModelless
  PROVE  ConfigInv'
<1>1. CASE UNCHANGED given /\ phase' = "refused"
  BY <1>1 DEF ConfigInv, Asked, Resolved, Constructed
<1>2. CASE /\ method' = InferredMethod /\ length' = given.targetLen
           /\ phase' = "resolved" /\ UNCHANGED given
  <2>1. given.targetLen \in Int
    BY LengthTypes DEF ConfigInv
  <2>2. method' \in Modelless
    BY <1>2 DEF PostInitModelless
  <2>3. method' = "extract_hidden_states" => given.method = "extract_hidden_states"
    BY <1>2 DEF InferredMethod
  <2> QED BY <1>2, <2>1, <2>2, <2>3 DEF ConfigInv, Asked, Resolved, Constructed, Modelless
<1> QED BY <1>1, <1>2 DEF PostInitModelless, Refuse

LEMMA FoundMethod ==
  ASSUME NEW from, NEW model
  PROVE  DetectedMethod(from, model) # "extract_hidden_states"
BY DEF DetectedMethod, Named, Hf, HfConfigOverride, MTPModelTypes

LEMMA ModelKeeps ==
  ASSUME WithinBlock, ConfigInv, PostInitModel
  PROVE  ConfigInv'
<1>1. CASE UNCHANGED given /\ phase' = "refused"
  BY <1>1 DEF ConfigInv, Asked, Resolved, Constructed
<1>2. ASSUME NEW model, NEW n, NEW k, method' = DetectedMethod(InferredMethod, model),
             n = Predict(method'),
             k = IF given.tokens = 0 THEN n ELSE given.tokens, Divides(k, n),
             tokens' = k, length' = DraftMaxModelLen, ~LengthRefused,
             phase' = "resolved", UNCHANGED given
      PROVE  ConfigInv'
  <2>1. length' <= given.targetLen /\ length' <= given.draftLen
    BY <1>2, LengthFits DEF ConfigInv
  <2>2. method' # "extract_hidden_states"
    BY <1>2, FoundMethod
  <2>3. method' = "dspark" /\ Hf.type = "deepseek_v4_dspark" => k \in Int /\ k <= BlockSize
    BY <1>2, DepthFits DEF ConfigInv
  <2>4. Hf' = Hf
    BY <1>2 DEF Hf
  <2> QED BY <1>2, <2>1, <2>2, <2>3, <2>4 DEF ConfigInv, Asked, Resolved, Constructed
<1> QED BY <1>1, <1>2 DEF PostInitModel, Refuse

LEMMA ConfigStepKeeps ==
  ASSUME WithinBlock, ConfigInv, [ConfigNext]_configVars
  PROVE  ConfigInv'
<1>1. CASE PostInitModelless
  BY <1>1, ModellessKeeps
<1>2. CASE PostInitModel
  BY <1>2, ModelKeeps
<1>3. CASE VerifyArgs
  BY <1>3 DEF VerifyArgs, Refuse, ConfigInv, Asked, Resolved, Constructed, Hf
<1>4. CASE MakeDrafter
  <2>1. Hf' = Hf /\ Drafter(method)' = Drafter(method) /\ Makes(method)' = Makes(method)
    BY <1>4 DEF MakeDrafter, Refuse, Hf, Drafter, Makes, UseGemma4
  <2> QED BY <1>4, <2>1 DEF MakeDrafter, Refuse, ConfigInv, Asked, Resolved, Constructed
<1>5. CASE Propose
  <2>1. /\ Hf' = Hf /\ Drafter(method)' = Drafter(method)
        /\ Makes(method)' = Makes(method) /\ Width(drafter)' = Width(drafter)
        /\ UseGpuToks(method)' = UseGpuToks(method)
    BY <1>5 DEF Propose, Hf, Drafter, Makes, UseGemma4, Width, UseGpuToks
  <2> QED BY <1>5, <2>1 DEF Propose, ConfigInv, Asked, Resolved, Constructed
<1>6. CASE UNCHANGED configVars
  BY <1>6 DEF configVars, ConfigInv, Asked, Resolved, Constructed, Hf, Drafter, Makes, UseGemma4,
              Width, UseGpuToks
<1> QED BY <1>1, <1>2, <1>3, <1>4, <1>5, <1>6 DEF ConfigNext

\* The three tables of the worker agree: who is made, how and what it is given.
LEMMA TablesAgree ==
  ASSUME NEW x, Drafter(x) # "none"
  PROVE  /\ Drafter(x) \in Classes(x)
         /\ Drafter(x) = "DSparkProposer" <=> x = "dspark"
         /\ Drafter(x) = "ExtractHiddenStatesProposer" => x = "extract_hidden_states"
         /\ Drafter(x) \in {"NgramProposer", "custom", "SuffixDecodingProposer",
                            "MedusaProposer"} => ~UseGpuToks(x)
<1>1. x \in {"custom_class", "ngram", "draft_model", "ngram_gpu", "mtp", "dflash", "dspark",
             "suffix", "eagle", "eagle3", "medusa", "extract_hidden_states"}
  BY DEF Drafter, UseGemma4, UseEagle
<1> QED BY <1>1 DEF Drafter, Classes, UseGemma4, UseEagle, UseGpuToks

LEMMA ConfigServes ==
  ASSUME ConfigInv
  PROVE  ServedByItsOwn
<1> SUFFICES ASSUME phase = "proposing"
             PROVE  ServedByItsOwn
  BY DEF ServedByItsOwn
<1>1. drafter = Drafter(method) /\ Makes(method) /\ Drafter(method) # "none"
  BY DEF ConfigInv, Constructed, Makes
<1>2. /\ call.form = IF UseGpuToks(method) THEN "tensor" ELSE "list"
      /\ call.reqIds = (method = "dspark")
      /\ call.hidden = IF method = "dspark" THEN "dspark" ELSE "mtp"
      /\ call.width = Width(drafter)
  BY DEF ConfigInv, Constructed
<1>3. /\ drafter \in Classes(method)
      /\ drafter = "DSparkProposer" <=> method = "dspark"
      /\ drafter = "ExtractHiddenStatesProposer" => method = "extract_hidden_states"
      /\ drafter \in {"NgramProposer", "custom", "SuffixDecodingProposer",
                      "MedusaProposer"} => ~UseGpuToks(method)
  BY <1>1, TablesAgree
<1>4. method = "extract_hidden_states" => UseGpuToks(method)
  BY DEF ConfigInv, Resolved, UseGpuToks
<1>5. Width(drafter) = tokens
  <2>1. CASE drafter = "DSparkProposer"
    <3>1. PICK t \in Int : t = tokens /\ t <= BlockSize
      BY <1>1, <1>3, <2>1 DEF ConfigInv, Resolved, Makes
    <3>2. PICK b \in Int : b = BlockSize
      BY ConfigAssumption
    <3>3. Min({b, t}) = t
      BY <3>1, <3>2 DEF Min
    <3> QED BY <2>1, <3>1, <3>2, <3>3 DEF Width
  <2> QED BY <2>1 DEF Width
<1>6. length <= given.targetLen /\ (method \notin Modelless => length <= given.draftLen)
  BY DEF ConfigInv, Resolved
<1> QED BY <1>2, <1>3, <1>4, <1>5, <1>6 DEF ServedByItsOwn

(***************************************************************************)
(* Whatever method, draft model, depth, lengths and parallelism are asked  *)
(* for: what __post_init__() and _verify_args() let pass is drafted by a   *)
(* proposer that propose_draft_token_ids() calls as it expects, as deep as *)
(* the scheduler counts on, and within what both models hold.              *)
(*                                                                         *)
(* A depth that is a larger multiple of the block would be let pass, and   *)
(* DSpark drafts no more than a block; the launcher never asks the 0.21    *)
(* engine for more than 5, its block (checkpoint_k.py:33).                 *)
(***************************************************************************)
THEOREM AcceptedIsServed ==
  ASSUME WithinBlock
  PROVE  ConfigSpec => []ServedByItsOwn
<1>1. ConfigInit => ConfigInv
  BY DEF ConfigInit, ConfigInv, Asked, Resolved, Constructed
<1>2. ConfigInv /\ [ConfigNext]_configVars => ConfigInv'
  BY ConfigStepKeeps
<1>3. ConfigInv => ServedByItsOwn
  BY ConfigServes
<1> QED BY <1>1, <1>2, <1>3, PTL DEF ConfigSpec
=============================================================================
