--------------------------- MODULE AnomalyEngine ----------------------------
(***************************************************************************)
(* anomaly_engine.c, the z-score detectors that the receiver task runs on  *)
(* every heartbeat, after the statistics engine has taken it in.  Nothing  *)
(* else touches their state.                                               *)
(***************************************************************************)
EXTENDS ConsecutiveGuard, StatsSnapshot

VARIABLES
  state,          \* s_rssi, s_hb_interval, s_reconnect, s_viewers
  raised,         \* per metric: the type of its last alert
  verdicts,       \* ghost: per metric, the last Consecutive verdicts evaluated
  evaluations     \* ghost: heartbeats since learning ended (capped)

anomaly == <<state, raised, verdicts, evaluations>>

AlertType == [rssi           |-> "RSSI_ANOMALY",
              hb_interval    |-> "HEARTBEAT_MISSING",
              reconnect_rate |-> "RECONNECT_ANOMALY",
              viewer_count   |-> "STREAM_ANOMALY"]

AnomalyInit ==
  /\ state = [m \in Metric |-> Quiet]
  /\ raised = [m \in Metric |-> "none"]
  /\ verdicts = [m \in Metric |-> <<>>]
  /\ evaluations = 0

\* Mutant: detection does not wait for the learning phase.
EvaluatedAlways ==
  IF samples_total < 3 THEN {}
  ELSE {m \in Metric : m = "hb_interval" => HasInterval}

\* Which detectors anomaly_engine_evaluate runs.
Evaluated ==
  IF learning \/ samples_total < 3 THEN {}
  ELSE {m \in Metric : m = "hb_interval" => HasInterval}

\* anomaly_engine_evaluate
Evaluate ==
  /\ state' = [m \in Metric |-> IF m \in Evaluated
                                THEN CheckMetric(state[m], outlier[m])
                                ELSE state[m]]
  /\ raised' = [m \in Metric |->
                  IF m \in Evaluated /\ Raises(state[m], outlier[m])
                  THEN AlertType[m] ELSE raised[m]]
  /\ verdicts' = [m \in Metric |-> IF m \in Evaluated
                                   THEN LastVerdicts(verdicts[m], outlier[m])
                                   ELSE verdicts[m]]
  /\ evaluations' = IF learning THEN 0 ELSE UpTo(Consecutive, evaluations + 1)

AnomalyTypeOK ==
  /\ state \in [Metric -> MetricState]
  /\ \A m \in Metric : raised[m] \in {"none", AlertType[m]}
  /\ verdicts \in [Metric -> Seq(BOOLEAN)]
  /\ evaluations \in 0..Consecutive

=============================================================================
