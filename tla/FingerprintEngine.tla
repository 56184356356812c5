------------------------- MODULE FingerprintEngine --------------------------
(***************************************************************************)
(* fingerprint_engine.c: the Profile Divergence Score (PDS) that the       *)
(* receiver task computes after every heartbeat, its two alerts, and the   *)
(* snapshot it then publishes to the HTTP task under the module's mutex.   *)
(*                                                                         *)
(* z-scores come from the modules upstream; here they are inputs, in units *)
(* of a tenth.  Scores are computed in single precision: the sum can fall  *)
(* just short of an exact quotient, and the cast to uint8_t then loses one *)
(* point (ComputePds has both outcomes).                                   *)
(***************************************************************************)
EXTENDS ConsecutiveGuard, Sequences

CONSTANTS AbsZScore,  \* the |z| inputs, in tenths
          Z_SCALE,    \* FINGERPRINT_Z_SCALE, in tenths (60)
          ELEVATED,   \* PDS_THRESH_ELEVATED (25)
          CRITICAL    \* PDS_THRESH_CRITICAL (75)

ASSUME FingerprintAssumption ==
  /\ AbsZScore \subseteq Nat
  /\ Z_SCALE \in Nat \ {0}
  /\ ELEVATED \in Nat
  /\ CRITICAL \in Nat
  /\ ELEVATED <= CRITICAL

VARIABLES
  bpReady,     \* behavior_profile: all_ready
  corrReady,   \* correlation_tracker: some pair is ready
  sessReady,   \* session_tracker: ready
  elevated,    \* the guard of PDS_ELEVATED
  critical,    \* the guard of PDS_CRITICAL
  evaluation,  \* the receiver's local result, until it publishes it
  last_snapshot,  \* what the HTTP task reads
  recentPds    \* history: the last Consecutive scores, oldest first

upstream == <<bpReady, corrReady, sessReady>>
scoreVars == <<bpReady, corrReady, sessReady, elevated, critical, evaluation,
               last_snapshot, recentPds>>

-----------------------------------------------------------------------------
(* Scores *)

Subscore == 0..100

\* Mutant: the sub-score is not clamped.
ZToSubscoreUnclamped(z) == (z * 100) \div Z_SCALE

\* z_to_subscore: |z| / Z_SCALE * 100, clamped at 100.
ZToSubscore(z) ==
  LET s == (z * 100) \div Z_SCALE IN IF s > 100 THEN 100 ELSE s

\* A component: a module that is not ready scores zero.
Component(ready, z) ==
  [ready |-> ready, sub_score |-> IF ready THEN ZToSubscore(z) ELSE 0]

\* The outcomes of casting n / d, computed in floats, to uint8_t.
Truncated(n, d) ==
  LET q == n \div d IN {q} \cup (IF n % d = 0 /\ q > 0 THEN {q - 1} ELSE {})

\* Mutant: the correlation's share is spread as well when it is not ready.
ComputePdsSpread(d, c, s) ==
  IF s.ready
  THEN Truncated(40 * d.sub_score + 35 * c.sub_score + 25 * s.sub_score, 100)
  ELSE IF c.ready
  THEN Truncated(40 * d.sub_score + 35 * c.sub_score, 75)
  ELSE Truncated(40 * d.sub_score, 40)

\* compute_pds: weights 40, 35 and 25, the session's share spread over the
\* other two while the session profile is not ready.
ComputePds(d, c, s) ==
  IF s.ready
  THEN Truncated(40 * d.sub_score + 35 * c.sub_score + 25 * s.sub_score, 100)
  ELSE Truncated(40 * d.sub_score + 35 * c.sub_score, 75)

-----------------------------------------------------------------------------
None == [ready |-> FALSE, sub_score |-> 0]

Zeroed == [pds |-> 0, metric_drift |-> None, correlation_drift |-> None,
           session_drift |-> None, alert_elevated |-> FALSE,
           alert_critical |-> FALSE, ready |-> FALSE]

ScoreInit ==
  /\ bpReady = FALSE /\ corrReady = FALSE /\ sessReady = FALSE
  /\ elevated = Quiet
  /\ critical = Quiet
  /\ evaluation = Zeroed
  /\ last_snapshot = Zeroed
  /\ recentPds = <<>>

\* No evaluation is waiting to be published.
Idle == ~evaluation.ready

\* Modules upstream become ready, in any order; none goes back.
BecomeReady ==
  /\ Idle
  /\ bpReady' \in {bpReady, TRUE}
  /\ corrReady' \in {corrReady, TRUE}
  /\ sessReady' \in {sessReady, TRUE}
  /\ upstream' # upstream
  /\ UNCHANGED <<elevated, critical, evaluation, last_snapshot, recentPds>>

\* Mutant: a critical score is not counted as an elevated one.
CheckAlertsExclusive(pds) ==
  /\ elevated' = CheckMetric(elevated, pds >= ELEVATED /\ pds < CRITICAL)
  /\ critical' = CheckMetric(critical, pds >= CRITICAL)
  /\ recentPds' = LET s == Append(recentPds, pds)
                  IN  IF Len(s) > Consecutive THEN Tail(s) ELSE s

\* check_alerts
CheckAlerts(pds) ==
  /\ elevated' = CheckMetric(elevated, pds >= ELEVATED)
  /\ critical' = CheckMetric(critical, pds >= CRITICAL)
  /\ recentPds' = LET s == Append(recentPds, pds)
                  IN  IF Len(s) > Consecutive THEN Tail(s) ELSE s

\* fingerprint_engine_update up to the mutex.
EvaluateScore(zd, zc, zs) ==
  LET d == Component(TRUE, zd)
      c == Component(corrReady, zc)
      s == Component(sessReady, zs)
  IN  /\ Idle
      /\ bpReady
      /\ \E pds \in ComputePds(d, c, s) :
           /\ CheckAlerts(pds)
           /\ evaluation' = [pds |-> pds, metric_drift |-> d,
                             correlation_drift |-> c, session_drift |-> s,
                             alert_elevated |-> elevated'.alert_active,
                             alert_critical |-> critical'.alert_active,
                             ready |-> TRUE]
      /\ UNCHANGED <<upstream, last_snapshot>>

\* fingerprint_engine_update under the mutex.
Publish ==
  /\ ~Idle
  /\ last_snapshot' = evaluation
  /\ evaluation' = Zeroed
  /\ UNCHANGED <<upstream, elevated, critical, recentPds>>

ScoreNext ==
  \/ BecomeReady
  \/ \E zd, zc, zs \in AbsZScore : EvaluateScore(zd, zc, zs)
  \/ Publish

ScoreSpec == ScoreInit /\ [][ScoreNext]_scoreVars

-----------------------------------------------------------------------------
Snapshot == [pds : 0..100,
             metric_drift : [ready : BOOLEAN, sub_score : Subscore],
             correlation_drift : [ready : BOOLEAN, sub_score : Subscore],
             session_drift : [ready : BOOLEAN, sub_score : Subscore],
             alert_elevated : BOOLEAN, alert_critical : BOOLEAN,
             ready : BOOLEAN]

\* Every variable has its type; in particular the score is within 0..100.
ScoreTypeOK ==
  /\ upstream \in BOOLEAN \X BOOLEAN \X BOOLEAN
  /\ elevated \in MetricState
  /\ critical \in MetricState
  /\ evaluation \in Snapshot
  /\ last_snapshot \in Snapshot
  /\ recentPds \in Seq(0..100)

\* The dashboard is never told of a critical divergence that is not also an
\* elevated one, though each threshold has a guard of its own that latches and
\* clears by its own counters (fingerprint_engine.c:246-297, 358-366).
CriticalImpliesElevated ==
  /\ critical.alert_active => elevated.alert_active
  /\ last_snapshot.alert_critical => last_snapshot.alert_elevated

\* What makes CriticalImpliesElevated inductive: the stricter threshold's run
\* of hits is never the longer one, nor is its run of misses the shorter.
GuardOrder ==
  /\ critical.consecutive_anomalous <= elevated.consecutive_anomalous
  /\ elevated.consecutive_normal <= critical.consecutive_normal
  /\ evaluation.alert_critical => evaluation.alert_elevated
  /\ CriticalImpliesElevated

\* "75-100 Critical: severe multi-signal divergence" (fingerprint_engine.h:27):
\* the published score cannot reach 75 unless both the metrics and the
\* correlations have drifted, whichever components are ready (lines 225-242).
MultiSignal(s) ==
  s.pds >= 75 => s.metric_drift.sub_score > 0 /\ s.correlation_drift.sub_score > 0

CriticalIsMultiSignal == MultiSignal(last_snapshot)

\* Each of the two alerts follows the policy of AlertPolicy on the scores:
\* set by Consecutive scores in a row at or above its threshold, cleared by
\* Consecutive in a row below it (fingerprint_engine.h:60-66).
Over(threshold) == [i \in DOMAIN recentPds |-> recentPds[i] >= threshold]

ElevatedPolicy == INSTANCE AlertPolicy
  WITH verdicts <- Over(ELEVATED), active <- elevated.alert_active
CriticalPolicy == INSTANCE AlertPolicy
  WITH verdicts <- Over(CRITICAL), active <- critical.alert_active

ScoreAlertsFollowPolicy == ElevatedPolicy!Spec /\ CriticalPolicy!Spec

=============================================================================
