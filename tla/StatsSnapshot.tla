---------------------------- MODULE StatsSnapshot ----------------------------
(***************************************************************************)
(* What stats_snapshot_t tells the detectors that the receiver task runs   *)
(* on every heartbeat (stats_engine.c takes the heartbeat in; StatsEngine  *)
(* models how).                                                            *)
(*                                                                         *)
(* A z-score is abstracted to its verdict: is the latest sample of the     *)
(* metric's window more than three standard deviations from its mean?  It  *)
(* is a function of the window, so it changes only with a new sample.      *)
(* Three of the metrics get one per heartbeat (the reconnect rate from the *)
(* second on); an interval that is zero or too long gives none, and the    *)
(* previous one stays the latest (stats_engine.c:240-258).                 *)
(***************************************************************************)
EXTENDS Integers

CONSTANTS SpreadMin,  \* the fewest samples that have a z-score above 3 (11):
                      \* the sample itself weighs in the mean and the stddev
          Steady      \* the metrics that every heartbeat samples

ASSUME SnapshotAssumption ==
  /\ SpreadMin \in Nat /\ SpreadMin >= 3
  /\ Steady \subseteq {"rssi", "reconnect_rate", "viewer_count"}
  /\ "rssi" \in Steady

Metric == Steady \cup {"hb_interval"}

VARIABLES
  learning,       \* stats_engine_is_learning()
  samples_total,  \* heartbeats taken in (capped at SpreadMin + 1)
  hb_count,       \* interval samples in the window (capped at SpreadMin)
  timed,          \* this heartbeat brought an interval sample
  outlier         \* per metric: the verdict on its latest sample

snapshot == <<learning, samples_total, hb_count, timed, outlier>>

UpTo(cap, n) == IF n < cap THEN n ELSE cap

SnapshotInit ==
  /\ learning = TRUE
  /\ samples_total = 0
  /\ hb_count = 0
  /\ timed = FALSE
  /\ outlier = [m \in Metric |-> FALSE]

\* How many samples of m have been taken in.
SampleCount(m) ==
  CASE m = "hb_interval"    -> hb_count'
    [] m = "reconnect_rate" -> samples_total' - 1
    [] OTHER                -> samples_total'

\* The verdicts on the latest samples (metric_add, metric_snapshot): out has the
\* new samples far from the mean of a window long enough to have such.
Judge(isTimed, out) ==
  /\ \A m \in out : SampleCount(m) >= SpreadMin
  /\ outlier' = [m \in Metric |-> IF m = "hb_interval" /\ ~isTimed
                                  THEN outlier[m] ELSE m \in out]

\* stats_engine_update, as the detectors see it.  Learning may end with it, it
\* may bring an interval, and the metrics in out get a sample that is an outlier.
TakeIn(ends, isTimed, out) ==
  /\ ends => learning /\ samples_total > 0
  /\ isTimed => samples_total > 0
  /\ learning' = (learning /\ ~ends)
  /\ samples_total' = UpTo(SpreadMin + 1, samples_total + 1)
  /\ hb_count' = IF isTimed THEN UpTo(SpreadMin, hb_count + 1) ELSE hb_count
  /\ timed' = isTimed
  /\ Judge(isTimed, out)

\* An interval can be used (each of the detectors tests this for itself).
HasInterval == hb_count >= 2

=============================================================================
