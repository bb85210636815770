----------------------------- MODULE Dashboard -----------------------------
(***************************************************************************)
(* Throughput and acceptance as the dashboard derives them from the        *)
(* counters of the engine (dashboard/server.py), one caller at a time:     *)
(* collect() with the module globals _cache and _prev.                     *)
(*                                                                         *)
(* The engine counts tokens, one unit of time at a time; a restart of the  *)
(* fleet begins the counters again.  A rate is kept as the fraction        *)
(* <<tokens, time>>, alpha as <<accepted, drafted>>; neither is rounded.   *)
(***************************************************************************)
EXTENDS Integers

CONSTANTS
  MaxTime,     \* bound of time
  CallTime,    \* how long a call of collect() may last
  CacheTtl,    \* CACHE_TTL
  MinDrafts,   \* drafts a window must exceed to count (50)
  Loads        \* what the engine may count in a unit of time

Counters == {"gen", "prompt", "acc", "draft"}

ASSUME DashboardAssumption ==
  /\ {MaxTime, CallTime, CacheTtl, MinDrafts} \subseteq Nat
  /\ MaxTime > 0 /\ CacheTtl > 0
  /\ Loads \subseteq [Counters -> Nat]
  /\ \A load \in Loads : load["acc"] <= load["draft"]

Null == -1            \* Python's None in place of a number
Blank == <<>>         \* a figure that is not shown
NoMetrics == [c \in Counters |-> Null]

VARIABLES
  now,        \* time.time()
  counter,    \* the engine's counters
  restarted,  \* whether the fleet has ever been restarted
  cacheAt,    \* _cache["at"], Null before the first answer
  prevAt,     \* _prev["at"]
  prev,       \* _prev["gen"], "prompt", "acc" and "draft"
  alpha,      \* _prev["alpha"]
  stage,      \* where collect() is
  at,         \* its now
  m,          \* its metrics
  before,     \* the sample its rates are taken against
  shown       \* the figures of its answer

engineVars == <<now, counter, restarted>>
sharedVars == <<cacheAt, prevAt, prev, alpha>>
boardVars == <<engineVars, sharedVars, stage, at, m, before, shown>>

BoardInit ==
  /\ now = 1
  /\ counter = [c \in Counters |-> 0]
  /\ restarted = FALSE
  /\ cacheAt = Null
  /\ prevAt = 0
  /\ prev = NoMetrics
  /\ alpha = Blank
  /\ stage = "idle"
  /\ at = 0
  /\ m = NoMetrics
  /\ before = NoMetrics
  /\ shown = [decode |-> Blank, prefill |-> Blank, alpha |-> Blank]

-----------------------------------------------------------------------------
(* The engine.                                                             *)

\* The timeouts of _get end a call in time.
TimePasses ==
  /\ now < MaxTime
  /\ stage # "idle" => now < at + CallTime
  /\ now' = now + 1

Serve ==
  /\ TimePasses
  /\ \E load \in Loads : counter' = [c \in Counters |-> counter[c] + load[c]]
  /\ UNCHANGED <<restarted, sharedVars, stage, at, m, before, shown>>

Restart ==
  /\ TimePasses
  /\ counter' = [c \in Counters |-> 0]
  /\ restarted' = TRUE
  /\ UNCHANGED <<sharedVars, stage, at, m, before, shown>>

-----------------------------------------------------------------------------
(* collect().                                                              *)

\* An answer younger than CACHE_TTL is given again, with no effect.
BeginCall ==
  /\ stage = "idle"
  /\ cacheAt = Null \/ now - cacheAt >= CacheTtl
  /\ at' = now
  /\ stage' = "fetch"
  /\ UNCHANGED <<engineVars, sharedVars, m, before, shown>>

\* GET /metrics, which may fail.
Fetch ==
  /\ stage = "fetch"
  /\ \E metrics \in {counter, NoMetrics} : m' = metrics
  /\ stage' = "decode"
  /\ UNCHANGED <<engineVars, sharedVars, at, before, shown>>

\* Fault: a rate per poll instead of one per unit of time.
RatePerPoll(key) ==
  IF m[key] = Null \/ prev[key] = Null \/ at <= prevAt \/ m[key] <= prev[key]
  THEN Blank ELSE <<m[key] - prev[key], 1>>

\* A rate, if two samples exist and tokens came between them.
RateOf(key) ==
  IF m[key] = Null \/ prev[key] = Null \/ at <= prevAt \/ m[key] <= prev[key]
  THEN Blank ELSE <<m[key] - prev[key], at - prevAt>>

\* _rate: the sample of this key is replaced, and the time of every key.
Rate(key, tile, next) ==
  /\ prevAt' = at
  /\ prev' = [prev EXCEPT ![key] = m[key]]
  /\ before' = [before EXCEPT ![key] = prev[key]]
  /\ shown' = [shown EXCEPT ![tile] = RateOf(key)]
  /\ stage' = next
  /\ UNCHANGED <<engineVars, cacheAt, alpha, at, m>>

Decode == stage = "decode" /\ Rate("gen", "decode", "prefill")

Prefill == stage = "prefill" /\ Rate("prompt", "prefill", "alpha")

\* What was accepted and drafted since the last sample.
Window == <<m["acc"] - prev["acc"], m["draft"] - prev["draft"]>>

Show(figure) == shown' = [shown EXCEPT !.alpha = figure]

\* acceptance: that of the window, or the last one held, or the one since
\* boot.  A poll without the counters leaves the previous sample.
Acceptance ==
  /\ stage = "alpha"
  /\ LET counted == m["acc"] # Null /\ m["draft"] # Null
         first   == prev["acc"] = Null \/ prev["draft"] = Null
         enough  == ~first /\ Window[2] > MinDrafts
         held    == ~first /\ ~enough /\ alpha # Blank
     IN  /\ prev' = IF counted
                    THEN [prev EXCEPT !["acc"] = m["acc"], !["draft"] = m["draft"]]
                    ELSE prev
         /\ \/ ~counted /\ Show(Blank) /\ UNCHANGED alpha
            \/ counted /\ enough /\ Show(Window) /\ alpha' = Window
            \/ counted /\ held /\ Show(alpha) /\ UNCHANGED alpha
            \/ /\ counted /\ ~enough /\ ~held
               /\ Show(IF m["draft"] = 0 THEN Blank ELSE <<m["acc"], m["draft"]>>)
               /\ UNCHANGED alpha
  /\ stage' = "end"
  /\ UNCHANGED <<engineVars, cacheAt, prevAt, at, m, before>>

\* _cache.update: the answer is that of the beginning of the call.
EndCall ==
  /\ stage = "end"
  /\ cacheAt' = at
  /\ stage' = "idle"
  /\ UNCHANGED <<engineVars, prevAt, prev, alpha, at, m, before, shown>>

BoardNext ==
  \/ Serve
  \/ Restart
  \/ BeginCall
  \/ Fetch
  \/ Decode
  \/ Prefill
  \/ Acceptance
  \/ EndCall

BoardSpec == BoardInit /\ [][BoardNext]_boardVars

-----------------------------------------------------------------------------
(* Properties.                                                             *)

Figures == {Blank} \union (Int \X (Int \ {0}))

\* Every variable has its type: no figure divides by zero, not even at two
\* rates of one poll.
BoardTypeOK ==
  /\ now \in 1..MaxTime
  /\ counter \in [Counters -> Nat]
  /\ restarted \in BOOLEAN
  /\ cacheAt \in Nat \union {Null}
  /\ prevAt \in Nat
  /\ prev \in [Counters -> Nat \union {Null}]
  /\ alpha \in Figures
  /\ stage \in {"idle", "fetch", "decode", "prefill", "alpha", "end"}
  /\ at \in Nat
  /\ m \in [Counters -> Nat \union {Null}]
  /\ before \in [Counters -> Nat \union {Null}]
  /\ shown \in [{"decode", "prefill", "alpha"} -> Figures]

\* "Tokens/s from a cumulative counter across two polls": the tokens of the
\* decode tile are no more than the engine makes at its best in the time they
\* are divided by, and the time the call took to fetch them, whatever outages
\* and restarts lie between the polls.
RateReal ==
  shown.decode # Blank =>
    \E load \in Loads :
      shown.decode[1] <= load["gen"] * (shown.decode[2] + CallTime)

\* "None until a second sample exists, and None when the fleet is idle": with
\* two samples, and tokens between them, a tile has its figure.
TileShown(key, tile) ==
  before[key] # Null /\ m[key] > before[key] => shown[tile] # Blank

\* The promise of _rate for the decode tile, through outages and restarts.
DecodeShown == stage = "end" => TileShown("gen", "decode")

\* The promise of _rate for the prefill tile.
PrefillShown == stage = "end" => TileShown("prompt", "prefill")

\* Acceptance, of a window, held, or since boot, is a share of the drafts:
\* neither negative nor above one.  A window across a restart of the fleet
\* takes the difference of two boots, and is not.
AlphaIsShare ==
  ~restarted /\ shown.alpha # Blank =>
    /\ 0 <= shown.alpha[1]
    /\ shown.alpha[1] <= shown.alpha[2]

(***************************************************************************)
(* A rate is no more than the engine made, the decode tile is there if     *)
(* there is something to show, and the acceptance of one boot is a share,  *)
(* whatever outages and restarts lie between two polls.                    *)
(***************************************************************************)
FiguresReal == BoardTypeOK /\ RateReal /\ DecodeShown /\ AlphaIsShare
=============================================================================
