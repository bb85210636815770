--------------------------- MODULE PrefixSchedule ---------------------------
(***************************************************************************)
(* How many draft tokens of each request go to verification                *)
(* (v1/spec_decode/dspark.py, and _schedule_from_confidence of             *)
(* v1/spec_decode/dspark_proposer.py).                                     *)
(*                                                                         *)
(* A confidence is a multiple of 1/Scale and a survival a multiple of      *)
(* 1/One, both written as their numerators, so every sum and product is    *)
(* exact: the rounding of floats is left out.  A step rate is a number of  *)
(* steps in some unit of time.                                             *)
(***************************************************************************)
EXTENDS Integers, Sequences, FiniteSets, FiniteSetsExt, SequencesExt

CONSTANTS
  NumRequests,    \* rows of the batch
  NumSpecTokens,  \* num_speculative_tokens
  Scale,          \* denominator of a confidence
  Settings,       \* settings of the proposer
  Curves          \* VLLM_DSPARK_SPS_CURVE: functions from token counts to rates

NotForced == -1

AllSettings ==
  [scheduler : {"off", "threshold", "hardware"},
   threshold : 0..Scale,
   forced    : {NotForced} \union (0..NumSpecTokens),
   earlyStop : BOOLEAN]

PrefixScheduleAssumption ==
  /\ NumRequests \in Nat \ {0}
  /\ NumSpecTokens \in Nat \ {0}
  /\ Scale \in Nat \ {0}
  /\ Settings \subseteq AllSettings
  /\ \A c \in Curves : DOMAIN c \subseteq Nat \ {0}
                       /\ \A n \in DOMAIN c : c[n] \in Nat

Rows == 1..NumRequests
Positions == 1..NumSpecTokens
One == Scale ^ NumSpecTokens
AllRows == [Rows -> [Positions -> 0..Scale]]
AllLengths == [Rows -> 0..NumSpecTokens]

-----------------------------------------------------------------------------
(* The algorithms.                                                         *)

\* _steps_per_second: the rate of the last profiled point up to n tokens.
StepsPerSecond(curve, n) ==
  LET passed == {t \in DOMAIN curve : t <= n}
  IN  IF DOMAIN curve = {} THEN 1
      ELSE curve[IF passed = {} THEN Min(DOMAIN curve) ELSE Max(passed)]

\* cumulative_survival, with the certain survival of no token as entry 0.
Survival(row) ==
  LET s[j \in 0..NumSpecTokens] ==
        IF j = 0 THEN One ELSE (s[j - 1] * row[j]) \div Scale
  IN  s

\* confidence_threshold_prefix_length.
ThresholdPrefix(row, threshold) ==
  Cardinality({j \in Positions :
    \A i \in 1..j : Survival(row)[i] * Scale >= threshold * One})

\* Expected accepted tokens and tokens of a batch that verifies these lengths.
Expected(rows, lengths) ==
  MapThenSumSet(LAMBDA r : MapThenSumSet(LAMBDA j : Survival(rows[r])[j],
                                         0..lengths[r]),
                Rows)

Tokens(lengths) == NumRequests + MapThenSumSet(LAMBDA r : lengths[r], Rows)

Rate(curve, expected, tokens) == expected * StepsPerSecond(curve, tokens)

\* score_prefix_lengths.
Score(rows, lengths, curve) ==
  [lengths |-> lengths,
   expected |-> Expected(rows, lengths),
   tokens |-> Tokens(lengths),
   rate |-> Rate(curve, Expected(rows, lengths), Tokens(lengths))]

\* The order of candidates <<survival, request, position>>.
Before(c, d) ==
  \/ c[1] > d[1]
  \/ c[1] = d[1] /\ c[2] < d[2]
  \/ c[1] = d[1] /\ c[2] = d[2] /\ c[3] < d[3]

\* The prefix tokens that may survive at all, likeliest first.
Candidates(rows) ==
  LET all == {<<Survival(rows[r])[j], r, j>> : r \in Rows, j \in Positions}
      some == {c \in all : c[1] > 0}
  IN  [i \in 1..Cardinality(some) |->
         CHOOSE c \in some : Cardinality({d \in some : Before(d, c)}) = i - 1]

\* Where the planner stands: the point it has reached on its path, the best
\* point so far, and whether it has left the loop.
Start(curve) ==
  LET point == [lengths |-> [r \in Rows |-> 0],
                expected |-> NumRequests * One,
                tokens |-> NumRequests,
                rate |-> Rate(curve, NumRequests * One, NumRequests)]
  IN  [at |-> point, best |-> point, left |-> FALSE]

\* The point reached by admitting candidate c.
Admitted(point, c, curve) ==
  [lengths |-> [point.lengths EXCEPT ![c[2]] = c[3]],
   expected |-> point.expected + c[1],
   tokens |-> point.tokens + 1,
   rate |-> Rate(curve, point.expected + c[1], point.tokens + 1)]

\* Fault: stopping at the first point that is no better, always.
TurnAlwaysStopping(plan, c, curve, early) ==
  LET next == Admitted(plan.at, c, curve)
  IN  IF plan.left \/ c[3] # plan.at.lengths[c[2]] + 1 THEN plan
      ELSE IF next.rate > plan.best.rate
      THEN [at |-> next, best |-> next, left |-> FALSE]
      ELSE [at |-> next, best |-> plan.best, left |-> TRUE]

\* One turn of the loop over the candidates.
Turn(plan, c, curve, early) ==
  LET next == Admitted(plan.at, c, curve)
  IN  IF plan.left \/ c[3] # plan.at.lengths[c[2]] + 1 THEN plan
      ELSE IF next.rate > plan.best.rate
      THEN [at |-> next, best |-> next, left |-> FALSE]
      ELSE [at |-> next, best |-> plan.best, left |-> early]

\* hardware_aware_prefix_schedule.
HardwareAware(rows, curve, early) ==
  FoldLeft(LAMBDA plan, c : Turn(plan, c, curve, early),
           Start(curve), Candidates(rows)).best

-----------------------------------------------------------------------------
(* One call of _schedule_from_confidence.                                  *)

VARIABLES
  rows,      \* confidence_rows
  curve,     \* self._sps_curve
  setting,   \* the other settings of the proposer
  schedule   \* the DSparkScheduleResult, or <<>> before

vars == <<rows, curve, setting, schedule>>

Init ==
  /\ rows \in AllRows
  /\ curve \in Curves
  /\ setting \in Settings
  /\ schedule = <<>>

ScheduleFromConfidence ==
  /\ schedule = <<>>
  /\ \/ /\ setting.forced # NotForced
        /\ schedule' = Score(rows, [r \in Rows |-> setting.forced], curve)
     \/ /\ setting.forced = NotForced
        /\ setting.scheduler = "hardware"
        /\ schedule' = HardwareAware(rows, curve, setting.earlyStop)
     \/ /\ setting.forced = NotForced
        /\ setting.scheduler # "hardware"
        /\ setting.scheduler = "off" \/ setting.threshold = 0
        /\ schedule' = Score(rows, [r \in Rows |-> NumSpecTokens], curve)
     \/ /\ setting.forced = NotForced
        /\ setting.scheduler = "threshold"
        /\ setting.threshold > 0
        /\ schedule' = Score(rows, [r \in Rows |->
                         ThresholdPrefix(rows[r], setting.threshold)], curve)
  /\ UNCHANGED <<rows, curve, setting>>

Next == ScheduleFromConfidence

Spec == Init /\ [][Next]_vars

-----------------------------------------------------------------------------
(* Properties.                                                             *)

Done == schedule # <<>>
ByHardware == setting.forced = NotForced /\ setting.scheduler = "hardware"
ByThreshold == /\ setting.forced = NotForced
               /\ setting.scheduler = "threshold"
               /\ setting.threshold > 0

\* A schedule gives every request a length up to num_speculative_tokens.
TypeOK ==
  Done => /\ schedule.lengths \in AllLengths
          /\ schedule.tokens \in NumRequests..(NumRequests * (1 + NumSpecTokens))
          /\ schedule.expected \in Nat
          /\ schedule.rate \in Nat

\* The running totals of the planner are the score of the lengths it returns:
\* its result and score_prefix_lengths agree on every schedule.
ScoresAgree == Done => schedule = Score(rows, schedule.lengths, curve)

\* No choice of prefixes that leaves out the tokens sure to be rejected
\* verifies more expected tokens per second.
Hopeful == {lengths \in AllLengths :
              \A r \in Rows : Survival(rows[r])[lengths[r]] > 0}
Best ==
  \A lengths \in Hopeful :
    Rate(curve, Expected(rows, lengths), Tokens(lengths)) <= schedule.rate

\* Following the greedy path to its end finds the best of all schedules,
\* whatever cliffs the profiled curve has.
ExhaustiveIsBest == Done /\ ByHardware /\ ~setting.earlyStop => Best

\* The time of a step grows by no less with every further token, and there is
\* no step that takes forever.
Smooth ==
  LET rate(n) == StepsPerSecond(curve, n)
      counts == NumRequests..(NumRequests * (1 + NumSpecTokens))
  IN  /\ \A n \in counts : rate(n) > 0
      /\ \A n \in counts : n + 2 \in counts =>
           rate(n + 1) * (rate(n) + rate(n + 2)) >= 2 * rate(n) * rate(n + 2)

\* On a smooth capacity curve the planner that stops at the first point that
\* is no better loses nothing (hardware_aware_prefix_schedule, early_stop).
EarlyStopIsBest == Done /\ ByHardware /\ setting.earlyStop /\ Smooth => Best

\* A confidence row that agrees with row up to position j.
SameUpTo(row, j) ==
  {other \in [Positions -> 0..Scale] : \A i \in 1..j : other[i] = row[i]}

\* Whether position j of request r is verified depends on no later confidence
\* of that request: what keeps the threshold compatible with rejection
\* sampling holds of the early-stopping planner too.
NonAnticipating ==
  Done /\ (ByThreshold \/ (ByHardware /\ setting.earlyStop)) =>
    \A r \in Rows, j \in Positions :
      \A other \in SameUpTo(rows[r], j) :
        LET lengths ==
              IF ByThreshold
              THEN [schedule.lengths EXCEPT
                      ![r] = ThresholdPrefix(other, setting.threshold)]
              ELSE HardwareAware([rows EXCEPT ![r] = other], curve, TRUE).lengths
        IN  schedule.lengths[r] >= j <=> lengths[r] >= j
=============================================================================
