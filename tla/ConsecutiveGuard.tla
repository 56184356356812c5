-------------------------- MODULE ConsecutiveGuard --------------------------
(***************************************************************************)
(* The guard every detector of the monitor puts in front of its alerts: a  *)
(* counter of anomalous samples in a row, a counter of normal samples in a *)
(* row, and a latch that an alert sets and a run of normal samples clears. *)
(* anomaly_engine.c states it as check_metric; fingerprint_engine.c        *)
(* repeats it for each of its two thresholds.                              *)
(***************************************************************************)
EXTENDS Integers, Sequences

CONSTANTS Consecutive,  \* ANOMALY_CONSECUTIVE_THRESH and its copies (3)
          CountCap      \* bound: where the counters stop counting

ASSUME ConsecutiveAssumption ==
  /\ Consecutive \in Nat \ {0}
  /\ CountCap \in Nat
  /\ CountCap >= Consecutive

\* The code only compares the counters with the threshold, so they may stop
\* anywhere at or above it.
CountUp(n) == IF n < CountCap THEN n + 1 ELSE n

MetricState == [consecutive_anomalous : 0..CountCap,
                consecutive_normal    : 0..CountCap,
                alert_active          : BOOLEAN]

Quiet == [consecutive_anomalous |-> 0,
          consecutive_normal    |-> 0,
          alert_active          |-> FALSE]

\* Mutant: a normal sample does not break a run of anomalous ones.
CheckMetricNoReset(ms, anomalous) ==
  IF anomalous
  THEN LET n == CountUp(ms.consecutive_anomalous)
       IN  [consecutive_anomalous |-> n,
            consecutive_normal    |-> 0,
            alert_active          |-> ms.alert_active \/ n >= Consecutive]
  ELSE LET n == CountUp(ms.consecutive_normal)
       IN  [ms EXCEPT !.consecutive_normal = n,
                      !.alert_active = @ /\ n < Consecutive]

\* The state after one more sample.
CheckMetric(ms, anomalous) ==
  IF anomalous
  THEN LET n == CountUp(ms.consecutive_anomalous)
       IN  [consecutive_anomalous |-> n,
            consecutive_normal    |-> 0,
            alert_active          |-> ms.alert_active \/ n >= Consecutive]
  ELSE LET n == CountUp(ms.consecutive_normal)
       IN  [consecutive_anomalous |-> 0,
            consecutive_normal    |-> n,
            alert_active          |-> ms.alert_active /\ n < Consecutive]

\* The last Consecutive verdicts, when v is appended to them: what a detector
\* built on the guard keeps as a ghost, for AlertPolicy.
LastVerdicts(verdicts, v) ==
  LET t == Append(verdicts, v) IN IF Len(t) > Consecutive THEN Tail(t) ELSE t

\* The sample raises an alert.
Raises(ms, anomalous) ==
  ~ms.alert_active /\ CheckMetric(ms, anomalous).alert_active

=============================================================================
