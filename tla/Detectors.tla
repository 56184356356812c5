----------------------------- MODULE Detectors -------------------------------
(***************************************************************************)
(* The detectors together, as the receiver task runs them on each          *)
(* heartbeat (udp_receiver.c:189-227): the statistics take it in, then the *)
(* z-score detectors, the long-term profiles and the correlation tracker   *)
(* each decide for themselves what of it they can use.  The HTTP task may  *)
(* take a snapshot between any two steps, so that the properties of what a *)
(* snapshot shows are properties of every state.                           *)
(***************************************************************************)
EXTENDS AnomalyEngine, BehaviorProfile, CorrelationTracker

\* The bounds are far enough apart, and a profile takes longer to mature than a
\* pair (120 samples and 30).
ASSUME DetectorsAssumption ==
  /\ SampleCap >= Consecutive
  /\ TotalCap >= SampleCap /\ TotalCap >= PairMin + Consecutive - 1
  /\ ProfileMin >= PairMin

VARIABLE rx   \* udp_rx_task: the next step

vars == <<snapshot, anomaly, profiles, tracker, rx>>

Init ==
  /\ SnapshotInit
  /\ AnomalyInit
  /\ ProfileInit
  /\ TrackerInit
  /\ rx = "stats"

StatsUpdate ==
  /\ rx = "stats"
  /\ \E ends, isTimed \in BOOLEAN, out \in SUBSET Metric :
       TakeIn(ends, isTimed, out)
  /\ rx' = "anomaly"
  /\ UNCHANGED <<anomaly, profiles, tracker>>

AnomalyEvaluate ==
  /\ rx = "anomaly"
  /\ Evaluate
  /\ rx' = "profile"
  /\ UNCHANGED <<snapshot, profiles, tracker>>

BehaviorUpdate ==
  /\ rx = "profile"
  /\ ProfileUpdate
  /\ rx' = "add"
  /\ UNCHANGED <<snapshot, anomaly, tracker>>

CorrelationAdd ==
  /\ rx = "add"
  /\ \E held \in [Pair -> SUBSET {"x", "y"}] : AddSamples(held)
  /\ rx' = "commit"
  /\ UNCHANGED <<snapshot, anomaly, profiles>>

CorrelationCommit ==
  /\ rx = "commit"
  /\ \E z \in [Pair -> ZScore] : Commit(z)
  /\ rx' = "stats"
  /\ UNCHANGED <<snapshot, anomaly, profiles>>

Next ==
  \/ StatsUpdate
  \/ AnomalyEvaluate
  \/ BehaviorUpdate
  \/ CorrelationAdd
  \/ CorrelationCommit

Spec == Init /\ [][Next]_vars

-----------------------------------------------------------------------------
\* Every variable has its type, and there is no interval without two heartbeats.
TypeOK ==
  /\ learning \in BOOLEAN /\ timed \in BOOLEAN
  /\ samples_total \in 0..SpreadMin + 1
  /\ hb_count \in 0..SpreadMin
  /\ hb_count < samples_total \/ hb_count = 0
  /\ outlier \in [Metric -> BOOLEAN]
  /\ AnomalyTypeOK
  /\ ProfileTypeOK
  /\ TrackerTypeOK
  /\ rx \in {"stats", "anomaly", "profile", "add", "commit"}

\* No z-score detector says anything until Consecutive heartbeats have been
\* evaluated after the learning phase, whatever was learned during it
\* (anomaly_engine.h:24, anomaly_engine.c:182-190).
QuietUntilLearned ==
  \A m \in Metric : raised[m] # "none" => evaluations >= Consecutive

\* No pair is reported before its window held PairMin samples and Consecutive
\* of them, that one included, have been scored (correlation_tracker.h:54-63).
QuietUntilReady ==
  \A p \in Pair : pairs[p].alert.alert_active =>
    pairs[p].samples_total >= PairMin + Consecutive - 1

\* No detector speaks before it has learned what is normal and seen enough to
\* tell what is not (both of the above).
SilentAtFirst == TypeOK /\ QuietUntilLearned /\ QuietUntilReady

\* Between two heartbeats a pair is ready exactly when it has its samples and a
\* baseline, in whichever order the two came, though they are tested at two
\* places (correlation_tracker.c:171-175, 350-363).
ReadyExact ==
  rx = "stats" => \A p \in Pair :
    pairs[p].ready <=> pairs[p].n >= PairMin /\ pairs[p].baseline_seeded

\* The three modules that use the interval each test for themselves whether
\* there is one (anomaly_engine.c:201, behavior_profile.c:152,
\* correlation_tracker.c:278): between two heartbeats all three have taken in
\* the same number of them.
GatesAgree ==
  rx = "stats" =>
    LET n == profile["hb_interval"].n
    IN  /\ Len(verdicts["hb_interval"]) = UpTo(Consecutive, n)
        /\ "RSSI_HB_INTERVAL" \in Pair =>
             UpTo(SampleCap, pairs["RSSI_HB_INTERVAL"].samples_total) = n

\* The divergence score is computed once every profile is ready
\* (fingerprint_engine.c:315).  By then no pair lacks samples: one that is not
\* ready, and counts for nothing in the score, is one that never had an r.
ScoredPairsHaveSamples ==
  rx = "stats" /\ AllReady => \A p \in Pair : pairs[p].n >= PairMin

\* A detector that gets a new sample for every verdict follows AlertPolicy on its
\* samples: one alert per anomalous stretch, set and cleared by Consecutive samples
\* in a row (anomaly_engine.h:15-18, anomaly_engine.c:73-108,
\* correlation_tracker.c:198-241).  RSSI has a sample in every heartbeat, and a
\* pair a new r with every verdict, though the r may be of an interval that is
\* sampled again.  The detector of the interval is not among them: on a heartbeat
\* that brings no interval it takes its last sample once more
\* (anomaly_engine.c:202-208), so one outlier may count as three.
RssiPolicy == INSTANCE AlertPolicy
  WITH verdicts <- verdicts["rssi"], active <- state["rssi"].alert_active
PairPolicy == INSTANCE AlertPolicy
  WITH verdicts <- scored["RSSI_HB_INTERVAL"],
       active <- pairs["RSSI_HB_INTERVAL"].alert.alert_active

AlertsFollowPolicy == RssiPolicy!Spec /\ PairPolicy!Spec

=============================================================================
