------------------------- MODULE CorrelationTracker -------------------------
(***************************************************************************)
(* correlation_tracker.c: for each pair of metrics a rolling window of     *)
(* samples, Pearson's r over it, a baseline of r, and a guarded alert when *)
(* r leaves its baseline.  An update has two steps: the receiver adds the  *)
(* samples and computes r outside the module's mutex, then takes the mutex *)
(* and commits the results.  The HTTP task takes snapshots in between.     *)
(*                                                                         *)
(* Of a window what matters is whether r exists, that is whether both      *)
(* signals vary in it: neither has kept one value for the n samples the    *)
(* window holds.  The value of r is abstracted to what its z-score against *)
(* the baseline says.                                                      *)
(***************************************************************************)
EXTENDS ConsecutiveGuard, StatsSnapshot

CONSTANTS Pair,        \* the pairs tracked, of those below
          WindowSize,  \* STATS_WINDOW_SIZE (60)
          PairMin,     \* CORRELATION_MIN_SAMPLES (30)
          TotalCap     \* bound: where samples_total stops counting

ASSUME CorrelationAssumption ==
  /\ Pair \subseteq {"RSSI_RECONNECT", "RSSI_HB_INTERVAL", "STREAM_VIEWERS"}
  /\ PairMin \in Nat /\ PairMin >= 2
  /\ WindowSize \in Nat /\ WindowSize >= PairMin
  /\ TotalCap \in Nat /\ TotalCap >= WindowSize

VARIABLES pairs,   \* per pair: a corr_pair_t
          scored   \* ghost: per pair, the last Consecutive verdicts scored

tracker == <<pairs, scored>>

\* How far r is from its baseline, as a z-score: not scored (the baseline varies
\* too little), within the threshold, beyond it.
ZScore == {"none", "normal", "anomalous"}

TrackerInit ==
  /\ pairs = [p \in Pair |->
               [n |-> 0, samples_total |-> 0,
                same |-> [x |-> 0, y |-> 0],   \* samples since x, y last changed
                baseline_seeded |-> FALSE, ready |-> FALSE,
                z |-> "none",                  \* of current_r against ema_r
                alert |-> Quiet]]
  /\ scored = [p \in Pair |-> <<>>]

-----------------------------------------------------------------------------
\* pair_add_sample.  held has the signals whose value is that of the sample
\* before.
AddSample(q, held) ==
  LET n == UpTo(WindowSize, q.n + 1)
      run(s) == IF s \in held THEN UpTo(WindowSize, q.same[s] + 1) ELSE 1
  IN  [q EXCEPT !.n = n,
                !.samples_total = UpTo(TotalCap, @ + 1),
                !.same = [x |-> run("x"), y |-> run("y")],
                !.ready = @ \/ (n >= PairMin /\ q.baseline_seeded)]

\* Mutant: an interval is sampled only when it is new.
SampledWhenTimed == {p \in Pair : p = "RSSI_HB_INTERVAL" => HasInterval /\ timed}

\* Which pairs take this heartbeat's sample.
Sampled == {p \in Pair : p = "RSSI_HB_INTERVAL" => HasInterval}

\* correlation_tracker_update up to the mutex.  An interval that is not new is
\* sampled again.
AddSamples(held) ==
  /\ "RSSI_HB_INTERVAL" \in Pair /\ ~timed => "y" \in held["RSSI_HB_INTERVAL"]
  /\ pairs' = [p \in Pair |-> IF ~learning /\ p \in Sampled
                              THEN AddSample(pairs[p], held[p]) ELSE pairs[p]]
  /\ UNCHANGED scored

\* pearson_r: r exists.
Valid(q) == q.n >= 2 /\ q.same.x < q.n /\ q.same.y < q.n

\* check_pair_alert is called and finds the baseline varied enough.
IsScored(q, z) == Valid(q) /\ q.ready /\ z # "none"

\* Mutant: only pair_add_sample makes a pair ready.
CommitPairOnce(q, z) ==
  LET zscore == IF ~Valid(q) THEN q.z
                ELSE IF q.baseline_seeded THEN z ELSE "none"
  IN  [q EXCEPT !.baseline_seeded = @ \/ Valid(q),
                !.z = zscore,
                !.alert = IF IsScored(q, zscore)
                          THEN CheckMetric(@, zscore = "anomalous") ELSE @]

\* ema_r_update, check_pair_alert and the test for readiness, for a pair whose
\* new r has z-score z.  The first r becomes the baseline and has none.
CommitPair(q, z) ==
  LET seeded == q.baseline_seeded \/ Valid(q)
      zscore == IF ~Valid(q) THEN q.z
                ELSE IF q.baseline_seeded THEN z ELSE "none"
  IN  [q EXCEPT !.baseline_seeded = seeded,
                !.z = zscore,
                !.alert = IF IsScored(q, zscore)
                          THEN CheckMetric(@, zscore = "anomalous") ELSE @,
                !.ready = @ \/ (q.n >= PairMin /\ seeded)]

\* correlation_tracker_update under the mutex.
Commit(z) ==
  /\ pairs' = [p \in Pair |-> IF learning THEN pairs[p]
                              ELSE CommitPair(pairs[p], z[p])]
  /\ scored' = [p \in Pair |->
       LET q == pairs[p]
           zscore == IF q.baseline_seeded THEN z[p] ELSE "none"
       IN  IF ~learning /\ IsScored(q, zscore)
           THEN LastVerdicts(scored[p], zscore = "anomalous") ELSE scored[p]]

TrackerTypeOK ==
  /\ pairs \in [Pair -> [n : 0..WindowSize, samples_total : 0..TotalCap,
                         same : [x : 0..WindowSize, y : 0..WindowSize],
                         baseline_seeded : BOOLEAN, ready : BOOLEAN,
                         z : ZScore, alert : MetricState]]
  /\ scored \in [Pair -> Seq(BOOLEAN)]

=============================================================================
