-------------------------- MODULE DetectionProofs ---------------------------
(***************************************************************************)
(* Proofs about the two engines whose alerts pass a guard of consecutive   *)
(* samples: the detectors of the anomaly engine with the modules they read, *)
(* and the fingerprint engine with its divergence score.  What a guard does *)
(* with one more sample comes first.                                       *)
(***************************************************************************)
EXTENDS Detectors, FingerprintEngine, TLAPS

(***************************************************************************)
(* What one verdict does to a guard.                                       *)
(***************************************************************************)
LEMMA GuardFacts ==
  ASSUME NEW ms \in MetricState, NEW v \in BOOLEAN
  PROVE  /\ CheckMetric(ms, v) \in MetricState
         /\ CheckMetric(ms, v).consecutive_anomalous
              \in 0..ms.consecutive_anomalous + 1
         /\ CheckMetric(ms, v).alert_active =>
              \/ ms.alert_active
              \/ CheckMetric(ms, v).consecutive_anomalous >= Consecutive
         /\ Raises(ms, v) =>
              CheckMetric(ms, v).consecutive_anomalous >= Consecutive
<1> DEFINE a == CountUp(ms.consecutive_anomalous)
           b == CountUp(ms.consecutive_normal)
<1>1. /\ ms.consecutive_anomalous \in 0..CountCap
      /\ ms.consecutive_normal \in 0..CountCap
      /\ ms.alert_active \in BOOLEAN
  BY DEF MetricState
<1>2. a \in 0..CountCap /\ b \in 0..CountCap /\ 0 \in 0..CountCap
      /\ a <= ms.consecutive_anomalous + 1
  BY <1>1, ConsecutiveAssumption DEF CountUp
<1> HIDE DEF a, b
<1>3. CASE v
  <2>1. CheckMetric(ms, v) = [consecutive_anomalous |-> a,
                              consecutive_normal |-> 0,
                              alert_active |-> ms.alert_active \/ a >= Consecutive]
    BY <1>3 DEF CheckMetric, a
  <2>2. CheckMetric(ms, v) \in MetricState
    BY <1>2, <2>1 DEF MetricState
  <2>3. QED
    BY <1>1, <1>2, <2>1, <2>2 DEF Raises
<1>4. CASE ~v
  <2>1. CheckMetric(ms, v) = [consecutive_anomalous |-> 0,
                              consecutive_normal |-> b,
                              alert_active |-> ms.alert_active /\ b < Consecutive]
    BY <1>4 DEF CheckMetric, b
  <2>2. CheckMetric(ms, v) \in MetricState
    BY <1>2, <2>1 DEF MetricState
  <2>3. QED
    BY <1>1, <1>2, <2>1, <2>2 DEF Raises
<1>5. QED
  BY <1>3, <1>4

-----------------------------------------------------------------------------
(* The counters of a guard and the verdicts it was given *)

\* n counts the verdicts at the end of v that are x, as far as the guard tells
\* counts apart.
Counts(n, v, x) ==
  \A k \in 1..Consecutive :
    n >= k <=> Len(v) >= k /\ \A i \in (Len(v) - k + 1)..Len(v) : v[i] = x

\* The guard ms has been given the verdicts v, of which the last are kept.
Follows(ms, v) ==
  /\ v \in Seq(BOOLEAN) /\ Len(v) <= Consecutive
  /\ Counts(ms.consecutive_anomalous, v, TRUE)
  /\ Counts(ms.consecutive_normal, v, FALSE)

Full(v, x) == Len(v) = Consecutive /\ \A i \in DOMAIN v : v[i] = x

\* A guard is given one verdict or none: its alert, from a to b, is what
\* AlertPolicy makes of the last verdicts, from s to t.
Guards(s, a, t, b) ==
  \/ t = s /\ b = a
  \/ \E v \in BOOLEAN :
       /\ t = LastVerdicts(s, v)
       /\ b <=> IF a THEN ~Full(t, FALSE) ELSE Full(t, TRUE)

LEMMA QuietFollows == Follows(Quiet, <<>>)
BY ConsecutiveAssumption DEF Follows, Counts, Quiet

(***************************************************************************)
(* The window takes v in at its end; what was there moves by one place     *)
(* when the window is full.                                                *)
(***************************************************************************)
LEMMA WindowMoves ==
  ASSUME NEW s \in Seq(BOOLEAN), Len(s) <= Consecutive, NEW v \in BOOLEAN
  PROVE  LET w == LastVerdicts(s, v)
         IN  /\ w \in Seq(BOOLEAN)
             /\ Len(w) = IF Len(s) < Consecutive THEN Len(s) + 1 ELSE Consecutive
             /\ w[Len(w)] = v
             /\ \A i \in 1..(Len(w) - 1) : w[i] = s[Len(s) - Len(w) + 1 + i]
<1> DEFINE t == Append(s, v)
<1>1. /\ t \in Seq(BOOLEAN) /\ Len(t) = Len(s) + 1 /\ Len(s) \in Nat
      /\ t[Len(s) + 1] = v /\ \A i \in 1..Len(s) : t[i] = s[i]
  OBVIOUS
<1> HIDE DEF t
<1>2. LastVerdicts(s, v) = IF Len(t) > Consecutive THEN Tail(t) ELSE t
  BY DEF LastVerdicts, t
<1>3. CASE Len(s) < Consecutive
  <2>1. LastVerdicts(s, v) = t
    BY <1>1, <1>2, <1>3, ConsecutiveAssumption
  <2>2. \A i \in 1..Len(s) : t[i] = s[Len(s) - (Len(s) + 1) + 1 + i]
    BY <1>1
  <2>3. (Len(s) + 1) - 1 = Len(s)
    BY <1>1
  <2>4. QED
    BY <1>1, <1>3, <2>1, <2>2, <2>3
<1>4. CASE Len(s) = Consecutive
  <2>1. LastVerdicts(s, v) = Tail(t) /\ t # <<>>
    BY <1>1, <1>2, <1>4, ConsecutiveAssumption
  <2>2. /\ Tail(t) \in Seq(BOOLEAN) /\ Len(Tail(t)) = Len(s)
        /\ \A i \in 1..Len(s) : Tail(t)[i] = t[i + 1]
    BY <1>1, <2>1
  <2>3. \A i \in 1..(Len(s) - 1) : Tail(t)[i] = s[i + 1]
    BY <1>1, <2>2
  <2>4. Tail(t)[Len(s)] = v
    BY <1>1, <1>4, <2>2, ConsecutiveAssumption
  <2>5. QED
    BY <1>1, <1>4, <2>1, <2>2, <2>3, <2>4, ConsecutiveAssumption
<1>5. Len(s) < Consecutive \/ Len(s) = Consecutive
  BY <1>1, ConsecutiveAssumption
<1>6. QED
  BY <1>3, <1>4, <1>5

(***************************************************************************)
(* One more verdict v: the counter of those goes up by one, and that of    *)
(* the others starts again.                                                *)
(***************************************************************************)
LEMMA CountsStep ==
  ASSUME NEW s \in Seq(BOOLEAN), Len(s) <= Consecutive, NEW v \in BOOLEAN,
         NEW n \in 0..CountCap, Counts(n, s, v)
  PROVE  /\ Counts(CountUp(n), LastVerdicts(s, v), v)
         /\ Counts(0, LastVerdicts(s, v), ~v)
<1> DEFINE w == LastVerdicts(s, v)
<1>1. /\ w \in Seq(BOOLEAN) /\ Len(s) \in Nat /\ Len(w) \in Nat
      /\ Len(w) = IF Len(s) < Consecutive THEN Len(s) + 1 ELSE Consecutive
      /\ w[Len(w)] = v
      /\ \A i \in 1..(Len(w) - 1) : w[i] = s[Len(s) - Len(w) + 1 + i]
  BY WindowMoves, ConsecutiveAssumption
<1> HIDE DEF w
<1>2. Counts(0, w, ~v)
  <2> SUFFICES ASSUME NEW k \in 1..Consecutive
               PROVE  ~(Len(w) >= k /\ \A i \in (Len(w) - k + 1)..Len(w) : w[i] = ~v)
    BY ConsecutiveAssumption DEF Counts
  <2>1. Len(w) >= k => Len(w) \in (Len(w) - k + 1)..Len(w)
    BY <1>1, ConsecutiveAssumption
  <2>2. w[Len(w)] # ~v
    BY <1>1
  <2>3. QED
    BY <2>1, <2>2
<1>3. Counts(CountUp(n), w, v)
  <2> SUFFICES ASSUME NEW k \in 1..Consecutive
               PROVE  CountUp(n) >= k
                        <=> /\ Len(w) >= k
                            /\ \A i \in (Len(w) - k + 1)..Len(w) : w[i] = v
    BY DEF Counts
  <2>1. CASE k = 1
    <3>1. CountUp(n) >= 1
      BY ConsecutiveAssumption DEF CountUp
    <3>2. Len(w) >= 1 /\ \A i \in (Len(w) - 1 + 1)..Len(w) : w[i] = v
      BY <1>1, ConsecutiveAssumption
    <3>3. QED
      BY <2>1, <3>1, <3>2
  <2>2. CASE k > 1
    <3>1. k - 1 \in 1..Consecutive /\ k \in Nat
      BY <2>2, ConsecutiveAssumption
    <3>2. CountUp(n) >= k <=> n >= k - 1
      BY <2>2, ConsecutiveAssumption DEF CountUp
    <3>3. n >= k - 1 <=> /\ Len(s) >= k - 1
                         /\ \A i \in (Len(s) - (k - 1) + 1)..Len(s) : s[i] = v
      BY <3>1 DEF Counts
    <3>4. Len(w) >= k <=> Len(s) >= k - 1
      BY <1>1, <2>2, ConsecutiveAssumption
    <3>5. ASSUME Len(w) >= k,
                 \A i \in (Len(s) - (k - 1) + 1)..Len(s) : s[i] = v,
                 NEW i \in (Len(w) - k + 1)..Len(w)
          PROVE  w[i] = v
      <4>1. CASE i = Len(w)
        BY <1>1, <4>1
      <4>2. CASE i < Len(w)
        <5>1. i \in 1..(Len(w) - 1)
          BY <1>1, <3>1, <3>5, <4>2
        <5> DEFINE l == Len(s)
                   m == Len(w)
        <5>2. l \in Nat /\ m \in Nat /\ i \in (m - k + 1)..m /\ i \in 1..(m - 1)
          BY <1>1, <3>5, <5>1
        <5> HIDE DEF l, m
        <5>3. l - m + 1 + i \in (l - (k - 1) + 1)..l
          BY <3>1, <5>2
        <5>4. QED
          BY <1>1, <3>5, <5>1, <5>3 DEF l, m
      <4>3. QED
        BY <1>1, <4>1, <4>2
    <3>6. ASSUME Len(w) >= k,
                 \A i \in (Len(w) - k + 1)..Len(w) : w[i] = v,
                 NEW i \in (Len(s) - (k - 1) + 1)..Len(s)
          PROVE  s[i] = v
      <4> DEFINE l == Len(s)
                 m == Len(w)
                 j == i - (l - m + 1)
      <4>1. /\ l \in Nat /\ m \in Nat /\ i \in (l - (k - 1) + 1)..l /\ m >= k
            /\ m <= l + 1
        BY <1>1, <3>6, ConsecutiveAssumption
      <4> HIDE DEF l, m
      <4>2. /\ j \in (m - k + 1)..m /\ j \in 1..(m - 1)
            /\ l - m + 1 + j = i
        BY <3>1, <4>1
      <4> HIDE DEF j
      <4>3. QED
        BY <1>1, <3>6, <4>2 DEF l, m
    <3>7. QED
      BY <3>2, <3>3, <3>4, <3>5, <3>6
  <2>3. QED
    BY <2>1, <2>2, ConsecutiveAssumption
<1>4. QED
  BY <1>2, <1>3 DEF w

(***************************************************************************)
(* A guard that follows its verdicts does so after one more, and its alert *)
(* is then what AlertPolicy makes of them.                                 *)
(***************************************************************************)
LEMMA GuardFollows ==
  ASSUME NEW ms \in MetricState, NEW s, Follows(ms, s), NEW v \in BOOLEAN
  PROVE  LET m == CheckMetric(ms, v)
             w == LastVerdicts(s, v)
         IN  Follows(m, w) /\ Guards(s, ms.alert_active, w, m.alert_active)
<1> DEFINE m == CheckMetric(ms, v)
           w == LastVerdicts(s, v)
           hits == CountUp(ms.consecutive_anomalous)
           misses == CountUp(ms.consecutive_normal)
<1>1. /\ ms.consecutive_anomalous \in 0..CountCap
      /\ ms.consecutive_normal \in 0..CountCap
      /\ ms.alert_active \in BOOLEAN
  BY DEF MetricState
<1>2. /\ w \in Seq(BOOLEAN) /\ Len(w) \in Nat
      /\ Len(w) <= Consecutive
  <2>1. s \in Seq(BOOLEAN) /\ Len(s) <= Consecutive
    BY DEF Follows
  <2>2. /\ w \in Seq(BOOLEAN)
        /\ Len(w) = IF Len(s) < Consecutive THEN Len(s) + 1 ELSE Consecutive
    BY <2>1, WindowMoves
  <2>3. QED
    BY <2>1, <2>2, ConsecutiveAssumption
<1>3. Consecutive \in 1..Consecutive
  BY ConsecutiveAssumption
<1>4. ASSUME NEW n, NEW x, Counts(n, w, x)
      PROVE  n >= Consecutive <=> Full(w, x)
  <2>1. n >= Consecutive <=>
          /\ Len(w) >= Consecutive
          /\ \A i \in (Len(w) - Consecutive + 1)..Len(w) : w[i] = x
    BY <1>3, <1>4 DEF Counts
  <2>2. Len(w) >= Consecutive <=> Len(w) = Consecutive
    BY <1>2, ConsecutiveAssumption
  <2>3. Len(w) = Consecutive => (Len(w) - Consecutive + 1)..Len(w) = DOMAIN w
    BY <1>2, ConsecutiveAssumption
  <2>4. QED
    BY <2>1, <2>2, <2>3 DEF Full
<1>5. CASE v = TRUE
  <2>1. Counts(hits, w, TRUE) /\ Counts(0, w, FALSE)
    BY <1>1, <1>5, CountsStep DEF Follows
  <2>2. m = [consecutive_anomalous |-> hits, consecutive_normal |-> 0,
             alert_active |-> ms.alert_active \/ hits >= Consecutive]
    BY <1>5 DEF CheckMetric
  <2> HIDE DEF m, w, hits
  <2>3. (hits >= Consecutive <=> Full(w, TRUE)) /\ ~Full(w, FALSE)
    <3>1. ~(0 >= Consecutive)
      BY ConsecutiveAssumption
    <3>2. QED
      BY <1>4, <2>1, <3>1
  <2>4. Follows(m, w)
    BY <1>2, <2>1, <2>2 DEF Follows
  <2>5. m.alert_active <=> ms.alert_active \/ Full(w, TRUE)
    BY <2>2, <2>3 DEF Full
  <2>6. m.alert_active <=> IF ms.alert_active THEN ~Full(w, FALSE)
                                              ELSE Full(w, TRUE)
    BY <1>1, <2>3, <2>5 DEF Full
  <2>7. QED
    BY <2>4, <2>6 DEF Guards, m, w
<1>6. CASE v = FALSE
  <2>1. Counts(misses, w, FALSE) /\ Counts(0, w, TRUE)
    BY <1>1, <1>6, CountsStep DEF Follows
  <2>2. m = [consecutive_anomalous |-> 0, consecutive_normal |-> misses,
             alert_active |-> ms.alert_active /\ misses < Consecutive]
    BY <1>6 DEF CheckMetric
  <2>3. misses \in Nat
    BY <1>1, ConsecutiveAssumption DEF CountUp
  <2> HIDE DEF m, w, misses
  <2>4. (misses >= Consecutive <=> Full(w, FALSE)) /\ ~Full(w, TRUE)
    <3>1. ~(0 >= Consecutive)
      BY ConsecutiveAssumption
    <3>2. QED
      BY <1>4, <2>1, <3>1
  <2>5. misses < Consecutive <=> ~(misses >= Consecutive)
    BY <2>3, ConsecutiveAssumption
  <2>6. Follows(m, w)
    BY <1>2, <2>1, <2>2 DEF Follows
  <2>7. m.alert_active <=> ms.alert_active /\ ~Full(w, FALSE)
    BY <2>2, <2>4, <2>5 DEF Full
  <2>8. m.alert_active <=> IF ms.alert_active THEN ~Full(w, FALSE)
                                              ELSE Full(w, TRUE)
    BY <1>1, <2>4, <2>7 DEF Full
  <2>9. QED
    BY <2>6, <2>8 DEF Guards, m, w
<1>7. QED
  BY <1>5, <1>6

\* The step of AlertPolicy from the verdicts s and the alert a, spelt out.
PolicyStep(s, a, t, b) ==
  \E v \in BOOLEAN :
    /\ t = IF Len(Append(s, v)) <= Consecutive
           THEN Append(s, v) ELSE Tail(Append(s, v))
    /\ b = IF a THEN ~(Len(t) = Consecutive /\ \A i \in DOMAIN t : t[i] = FALSE)
                ELSE Len(t) = Consecutive /\ \A i \in DOMAIN t : t[i] = TRUE

(***************************************************************************)
(* What a guard does is a step of AlertPolicy, or nothing.                 *)
(***************************************************************************)
LEMMA GuardsPolicy ==
  ASSUME NEW s \in Seq(BOOLEAN), NEW a, NEW t, NEW b \in BOOLEAN,
         Guards(s, a, t, b)
  PROVE  (t = s /\ b = a) \/ PolicyStep(s, a, t, b)
<1> SUFFICES ASSUME ~(t = s /\ b = a) PROVE PolicyStep(s, a, t, b)
  OBVIOUS
<1>1. PICK v \in BOOLEAN :
        /\ t = LastVerdicts(s, v)
        /\ b <=> IF a THEN ~Full(t, FALSE) ELSE Full(t, TRUE)
  BY DEF Guards
<1>2. t = IF Len(Append(s, v)) <= Consecutive
          THEN Append(s, v) ELSE Tail(Append(s, v))
  BY <1>1, ConsecutiveAssumption DEF LastVerdicts
<1>3. QED
  BY <1>1, <1>2 DEF Full, PolicyStep

-----------------------------------------------------------------------------
(* The detectors, the behaviour profile and the correlation tracker *)

One(b) == IF b THEN 1 ELSE 0

Interval == "RSSI_HB_INTERVAL"

\* The profile that is fed whenever the pair p is.
Slowest(p) == IF p = Interval THEN "hb_interval" ELSE "rssi"

\* This heartbeat has an interval to be used.
Fresh == ~learning /\ HasInterval

\* The edge out of the learning phase is seen once, by the profiles.
Phase ==
  /\ seeded_done <=> ~s_phase1_was_learning
  /\ learning => s_phase1_was_learning
  /\ rx \in {"stats", "add", "commit"} => (s_phase1_was_learning <=> learning)

\* Readiness is that of the counts.
Ready ==
  /\ \A m \in Metric : profile[m].ready <=> profile[m].n >= ProfileMin
  /\ \A p \in Pair :
       pairs[p].ready <=> pairs[p].n >= PairMin /\ pairs[p].baseline_seeded

\* The intervals that the three modules have taken in, by who comes next.
Gates ==
  /\ Len(verdicts["hb_interval"]) =
       UpTo(Consecutive, profile["hb_interval"].n + One(rx = "profile" /\ Fresh))
  /\ Interval \in Pair =>
       profile["hb_interval"].n =
         UpTo(SampleCap, pairs[Interval].samples_total + One(rx = "add" /\ Fresh))

\* A pair has the samples that its profile has, or gets one now.
Samples ==
  \A p \in Pair :
    LET n == pairs[p].n + One(rx = "add" /\ ~learning /\ p \in Sampled)
    IN  n >= UpTo(PairMin, profile[Slowest(p)].n)

\* What the z-score detectors have counted was counted after learning.
Counters ==
  \A m \in Metric :
    /\ UpTo(Consecutive, state[m].consecutive_anomalous) <= evaluations
    /\ raised[m] # "none" => evaluations >= Consecutive
    /\ learning => state[m].consecutive_anomalous = 0 /\ raised[m] = "none"

\* A pair has a sample for every score, from the one that made it ready on.
Scores ==
  \A p \in Pair :
    LET st == pairs[p].samples_total
        ca == pairs[p].alert.consecutive_anomalous
    IN  /\ pairs[p].n >= PairMin => st >= PairMin
        /\ pairs[p].n = UpTo(WindowSize, st)
        /\ pairs[p].n > 0 => ~learning /\ (p = Interval => HasInterval)
        /\ pairs[p].alert.alert_active => st >= PairMin + Consecutive - 1
        /\ \/ ca = 0
           \/ st >= PairMin + Consecutive - 1
           \/ st >= PairMin + ca - 1 + One(rx = "commit")

IInv == TypeOK /\ Phase /\ Ready /\ Gates /\ Samples /\ Counters /\ Scores

-----------------------------------------------------------------------------
LEMMA Bounds ==
  /\ SpreadMin \in Nat /\ SpreadMin >= 3
  /\ Consecutive \in Nat \ {0} /\ CountCap \in Nat /\ CountCap >= Consecutive
  /\ ProfileMin \in Nat \ {0} /\ SampleCap \in Nat /\ SampleCap >= ProfileMin
  /\ PairMin \in Nat /\ PairMin >= 2
  /\ WindowSize \in Nat /\ WindowSize >= PairMin
  /\ TotalCap \in Nat /\ TotalCap >= WindowSize /\ TotalCap >= SampleCap
  /\ TotalCap >= PairMin + Consecutive - 1
  /\ SampleCap >= Consecutive /\ ProfileMin >= PairMin
BY SnapshotAssumption, ConsecutiveAssumption, ProfileAssumption,
   CorrelationAssumption, DetectorsAssumption

LEMMA Metrics ==
  /\ "rssi" \in Metric /\ "hb_interval" \in Metric
  /\ \A p \in Pair : Slowest(p) \in Metric
BY SnapshotAssumption DEF Metric, Slowest

LEMMA OfMetric ==
  ASSUME TypeOK, NEW m \in Metric
  PROVE  /\ state[m] \in MetricState
         /\ state[m].consecutive_anomalous \in 0..CountCap
         /\ outlier[m] \in BOOLEAN
         /\ verdicts[m] \in Seq(BOOLEAN)
         /\ profile[m] \in [n : 0..SampleCap, ready : BOOLEAN]
         /\ profile[m].n \in 0..SampleCap /\ profile[m].ready \in BOOLEAN
BY DEF TypeOK, AnomalyTypeOK, ProfileTypeOK, MetricState

PairState == [n : 0..WindowSize, samples_total : 0..TotalCap,
              same : [x : 0..WindowSize, y : 0..WindowSize],
              baseline_seeded : BOOLEAN, ready : BOOLEAN,
              z : ZScore, alert : MetricState]

LEMMA OfPair ==
  ASSUME TypeOK, NEW p \in Pair
  PROVE  /\ pairs[p] \in PairState
         /\ pairs[p].n \in 0..WindowSize
         /\ pairs[p].samples_total \in 0..TotalCap
         /\ pairs[p].same.x \in 0..WindowSize
         /\ pairs[p].same.y \in 0..WindowSize
         /\ pairs[p].baseline_seeded \in BOOLEAN
         /\ pairs[p].ready \in BOOLEAN
         /\ pairs[p].z \in ZScore
         /\ pairs[p].alert \in MetricState
         /\ pairs[p].alert.consecutive_anomalous \in 0..CountCap
         /\ pairs[p].alert.alert_active \in BOOLEAN
         /\ scored[p] \in Seq(BOOLEAN)
<1>1. pairs[p] \in PairState /\ scored[p] \in Seq(BOOLEAN)
  BY DEF TypeOK, TrackerTypeOK, PairState
<1>2. pairs[p].alert \in MetricState
  BY <1>1 DEF PairState
<1>3. QED
  BY <1>1, <1>2 DEF PairState, MetricState

LEMMA LastVerdictsFacts ==
  ASSUME NEW s \in Seq(BOOLEAN), NEW v \in BOOLEAN
  PROVE  /\ LastVerdicts(s, v) \in Seq(BOOLEAN)
         /\ Len(s) <= Consecutive =>
              Len(LastVerdicts(s, v)) = UpTo(Consecutive, Len(s) + 1)
<1>1. /\ Append(s, v) \in Seq(BOOLEAN) /\ Len(Append(s, v)) = Len(s) + 1
      /\ Len(s) \in Nat
  OBVIOUS
<1>2. /\ Tail(Append(s, v)) \in Seq(BOOLEAN)
      /\ Len(Tail(Append(s, v))) = Len(s)
  <2>1. Append(s, v) # <<>>
    BY <1>1
  <2>2. QED
    BY <1>1, <2>1
<1>3. LastVerdicts(s, v) = IF Len(s) + 1 > Consecutive
                           THEN Tail(Append(s, v)) ELSE Append(s, v)
  BY <1>1 DEF LastVerdicts
<1>4. LastVerdicts(s, v) \in Seq(BOOLEAN)
  BY <1>1, <1>2, <1>3
<1>5. Len(LastVerdicts(s, v)) = IF Len(s) + 1 > Consecutive
                                THEN Len(s) ELSE Len(s) + 1
  BY <1>1, <1>2, <1>3
<1>6. QED
  BY <1>1, <1>4, <1>5, Bounds DEF UpTo

-----------------------------------------------------------------------------
LEMMA IInvInit == Init => IInv
<1> SUFFICES ASSUME Init PROVE IInv
  OBVIOUS
<1> USE DEF Init
<1>1. /\ 0 \in 0..SpreadMin + 1 /\ 0 \in 0..SpreadMin /\ 0 \in 0..CountCap
      /\ 0 \in 0..Consecutive /\ 0 \in 0..SampleCap /\ 0 \in 0..WindowSize
      /\ 0 \in 0..TotalCap
  BY Bounds
<1>2. Quiet \in MetricState
  BY <1>1 DEF Quiet, MetricState
<1>3. TypeOK
  <2>1. AnomalyTypeOK
    BY <1>1, <1>2 DEF AnomalyInit, AnomalyTypeOK
  <2>2. ProfileTypeOK
    BY <1>1 DEF ProfileInit, ProfileTypeOK
  <2>3. TrackerTypeOK
    BY <1>1, <1>2 DEF TrackerInit, TrackerTypeOK, ZScore
  <2>4. QED
    BY <1>1, <2>1, <2>2, <2>3 DEF TypeOK, SnapshotInit
<1>4. Phase
  BY DEF Phase, SnapshotInit, ProfileInit
<1>5. Ready
  BY Bounds DEF Ready, ProfileInit, TrackerInit
<1>6. Gates
  <2>1. One(rx = "profile" /\ Fresh) = 0 /\ One(rx = "add" /\ Fresh) = 0
    BY DEF One
  <2>2. Len(verdicts["hb_interval"]) = 0 /\ profile["hb_interval"].n = 0
    BY Metrics DEF AnomalyInit, ProfileInit
  <2>3. Interval \in Pair => pairs[Interval].samples_total = 0
    BY DEF TrackerInit
  <2>4. QED
    BY <2>1, <2>2, <2>3, Bounds DEF Gates, UpTo
<1>7. Samples
  <2> SUFFICES ASSUME NEW p \in Pair
               PROVE  pairs[p].n + One(rx = "add" /\ ~learning /\ p \in Sampled)
                        >= UpTo(PairMin, profile[Slowest(p)].n)
    BY DEF Samples
  <2>1. One(rx = "add" /\ ~learning /\ p \in Sampled) = 0
    BY DEF One
  <2>2. pairs[p].n = 0 /\ profile[Slowest(p)].n = 0
    BY Metrics DEF TrackerInit, ProfileInit
  <2>3. QED
    BY <2>1, <2>2, Bounds DEF UpTo
<1>8. Counters
  BY Bounds DEF Counters, AnomalyInit, Quiet, UpTo
<1>9. Scores
  BY Bounds DEF Scores, TrackerInit, Quiet, UpTo
<1>10. QED
  BY <1>3, <1>4, <1>5, <1>6, <1>7, <1>8, <1>9 DEF IInv

-----------------------------------------------------------------------------
(***************************************************************************)
(* The statistics take a heartbeat in: learning ends for good, and an      *)
(* interval that can be used can be from then on.                          *)
(***************************************************************************)
LEMMA KeptStatsUpdate == ASSUME IInv, StatsUpdate PROVE IInv'
<1>1. TypeOK
  BY DEF IInv
<1>2. /\ rx = "stats" /\ rx' = "anomaly"
      /\ UNCHANGED <<state, raised, verdicts, evaluations,
                     s_phase1_was_learning, seeded_done, profile, pairs, scored>>
  BY DEF StatsUpdate, anomaly, profiles, tracker
<1>3. PICK ends \in BOOLEAN, isTimed \in BOOLEAN, out \in SUBSET Metric :
        TakeIn(ends, isTimed, out)
  BY DEF StatsUpdate
<1>4. /\ learning' \in BOOLEAN /\ timed' \in BOOLEAN
      /\ learning' => learning
  BY <1>1, <1>3 DEF TakeIn, TypeOK
<1>5. /\ samples_total' \in 0..SpreadMin + 1
      /\ hb_count' \in 0..SpreadMin
      /\ hb_count' < samples_total' \/ hb_count' = 0
      /\ hb_count' >= hb_count
  <2>1. /\ samples_total \in 0..SpreadMin + 1 /\ hb_count \in 0..SpreadMin
        /\ hb_count < samples_total \/ hb_count = 0
    BY <1>1 DEF TypeOK
  <2>2. /\ samples_total' = UpTo(SpreadMin + 1, samples_total + 1)
        /\ hb_count' = IF isTimed THEN UpTo(SpreadMin, hb_count + 1) ELSE hb_count
        /\ isTimed => samples_total > 0
    BY <1>3 DEF TakeIn
  <2>3. QED
    BY <2>1, <2>2, Bounds DEF UpTo
<1>6. outlier' \in [Metric -> BOOLEAN]
  <2>1. outlier' = [m \in Metric |-> IF m = "hb_interval" /\ ~isTimed
                                     THEN outlier[m] ELSE m \in out]
    BY <1>3 DEF TakeIn, Judge
  <2>2. \A m \in Metric : outlier[m] \in BOOLEAN /\ (m \in out) \in BOOLEAN
    BY <1>1, OfMetric
  <2>3. \A m \in Metric : (IF m = "hb_interval" /\ ~isTimed
                          THEN outlier[m] ELSE m \in out) \in BOOLEAN
    BY <2>2, Zenon
  <2>4. QED
    BY <2>1, <2>3, Zenon
<1>7. TypeOK'
  <2>1. AnomalyTypeOK' /\ ProfileTypeOK' /\ TrackerTypeOK'
    BY <1>1, <1>2 DEF TypeOK, AnomalyTypeOK, ProfileTypeOK, TrackerTypeOK
  <2>2. QED
    BY <1>2, <1>4, <1>5, <1>6, <2>1 DEF TypeOK
<1>8. Phase'
  BY <1>2, <1>4 DEF IInv, Phase
<1>9. Ready'
  BY <1>2 DEF IInv, Ready
<1>10. Gates'
  <2>1. /\ One(rx = "profile" /\ Fresh) = 0 /\ One(rx = "add" /\ Fresh) = 0
        /\ One(rx = "profile" /\ Fresh)' = 0 /\ One(rx = "add" /\ Fresh)' = 0
    BY <1>2 DEF One
  <2>2. QED
    BY <1>2, <2>1 DEF IInv, Gates
<1>11. Samples'
  <2> SUFFICES ASSUME NEW p \in Pair
               PROVE  (pairs[p].n + One(rx = "add" /\ ~learning /\ p \in Sampled)
                         >= UpTo(PairMin, profile[Slowest(p)].n))'
    BY DEF Samples
  <2>1. /\ One(rx = "add" /\ ~learning /\ p \in Sampled) = 0
        /\ One(rx = "add" /\ ~learning /\ p \in Sampled)' = 0
    BY <1>2 DEF One
  <2>2. QED
    BY <1>2, <2>1 DEF IInv, Samples
<1>12. Counters'
  BY <1>2, <1>4 DEF IInv, Counters
<1>13. Scores'
  <2>1. HasInterval => HasInterval'
    BY <1>1, <1>5 DEF HasInterval, TypeOK
  <2>2. One(rx = "commit") = 0 /\ One(rx = "commit")' = 0
    BY <1>2 DEF One
  <2>3. QED
    BY <1>2, <1>4, <2>1, <2>2 DEF IInv, Scores
<1>14. QED
  BY <1>7, <1>8, <1>9, <1>10, <1>11, <1>12, <1>13 DEF IInv

(***************************************************************************)
(* The z-score detectors evaluate what the heartbeat brought.              *)
(***************************************************************************)
LEMMA KeptAnomalyEvaluate == ASSUME IInv, AnomalyEvaluate PROVE IInv'
<1>1. TypeOK /\ evaluations \in 0..Consecutive
  BY DEF IInv, TypeOK, AnomalyTypeOK
<1>2. /\ rx = "anomaly" /\ rx' = "profile"
      /\ Evaluate
      /\ UNCHANGED <<learning, samples_total, hb_count, timed, outlier,
                     s_phase1_was_learning, seeded_done, profile, pairs, scored>>
  BY DEF AnomalyEvaluate, snapshot, profiles, tracker
<1>3. evaluations' = IF learning THEN 0 ELSE UpTo(Consecutive, evaluations + 1)
  BY <1>2 DEF Evaluate
<1>4. ASSUME NEW m \in Metric
      PROVE  /\ state'[m] = IF m \in Evaluated
                            THEN CheckMetric(state[m], outlier[m]) ELSE state[m]
             /\ raised'[m] = IF m \in Evaluated /\ Raises(state[m], outlier[m])
                             THEN AlertType[m] ELSE raised[m]
             /\ verdicts'[m] = IF m \in Evaluated
                               THEN LastVerdicts(verdicts[m], outlier[m])
                               ELSE verdicts[m]
  BY <1>2 DEF Evaluate
<1>5. "hb_interval" \in Evaluated <=> Fresh
  BY <1>1, Metrics, Bounds DEF Evaluated, Fresh, HasInterval, TypeOK
<1>6. Evaluated # {} => ~learning
  BY DEF Evaluated
<1>7. AnomalyTypeOK'
  <2>1. ASSUME NEW m \in Metric
        PROVE  /\ state'[m] \in MetricState
               /\ raised'[m] \in {"none", AlertType[m]}
               /\ verdicts'[m] \in Seq(BOOLEAN)
    <3>1. /\ CheckMetric(state[m], outlier[m]) \in MetricState
          /\ LastVerdicts(verdicts[m], outlier[m]) \in Seq(BOOLEAN)
          /\ state[m] \in MetricState /\ verdicts[m] \in Seq(BOOLEAN)
      BY <1>1, OfMetric, GuardFacts, LastVerdictsFacts
    <3>2. raised[m] \in {"none", AlertType[m]}
      BY <1>1 DEF TypeOK, AnomalyTypeOK
    <3>3. QED
      BY <1>4, <3>1, <3>2
  <2>2. state' \in [Metric -> MetricState] /\ verdicts' \in [Metric -> Seq(BOOLEAN)]
    <3>1. /\ state' = [m \in Metric |-> state'[m]]
          /\ verdicts' = [m \in Metric |-> verdicts'[m]]
      BY <1>2 DEF Evaluate
    <3>2. QED
      BY <2>1, <3>1
  <2>3. evaluations' \in 0..Consecutive
    BY <1>1, <1>3, Bounds DEF UpTo
  <2>4. QED
    BY <2>1, <2>2, <2>3 DEF AnomalyTypeOK
<1>8. TypeOK'
  <2>1. ProfileTypeOK' /\ TrackerTypeOK'
    BY <1>1, <1>2 DEF TypeOK, ProfileTypeOK, TrackerTypeOK
  <2>2. QED
    BY <1>1, <1>2, <1>7, <2>1 DEF TypeOK
<1>9. Phase' /\ Ready'
  BY <1>2 DEF IInv, Phase, Ready
<1>10. Gates'
  <2>1. /\ One(rx = "profile" /\ Fresh) = 0 /\ One(rx = "add" /\ Fresh) = 0
        /\ One(rx = "add" /\ Fresh)' = 0
        /\ One(rx = "profile" /\ Fresh)' = One(Fresh)
    BY <1>2 DEF One, Fresh, HasInterval
  <2>2. /\ verdicts["hb_interval"] \in Seq(BOOLEAN)
        /\ outlier["hb_interval"] \in BOOLEAN
        /\ profile["hb_interval"].n \in 0..SampleCap
        /\ Len(verdicts["hb_interval"]) = UpTo(Consecutive, profile["hb_interval"].n)
    BY <1>1, <2>1, OfMetric, Metrics DEF IInv, Gates
  <2>3. Len(LastVerdicts(verdicts["hb_interval"], outlier["hb_interval"]))
          = UpTo(Consecutive, profile["hb_interval"].n + 1)
    <3>1. Len(verdicts["hb_interval"]) <= Consecutive
      BY <2>2, Bounds DEF UpTo
    <3>2. Len(LastVerdicts(verdicts["hb_interval"], outlier["hb_interval"]))
            = UpTo(Consecutive, Len(verdicts["hb_interval"]) + 1)
      BY <2>2, <3>1, LastVerdictsFacts
    <3>3. \A k \in Nat : UpTo(Consecutive, UpTo(Consecutive, k) + 1)
                          = UpTo(Consecutive, k + 1)
      BY Bounds DEF UpTo
    <3>4. profile["hb_interval"].n \in Nat
      BY <2>2, Bounds
    <3>5. QED
      BY <2>2, <3>2, <3>3, <3>4
  <2>4. Len(verdicts'["hb_interval"])
          = UpTo(Consecutive, profile["hb_interval"].n + One(Fresh))
    BY <1>4, <1>5, <2>2, <2>3, Metrics DEF One
  <2>5. QED
    BY <1>2, <2>1, <2>4 DEF IInv, Gates
<1>11. Samples'
  <2>1. \A p \in Pair :
          /\ One(rx = "add" /\ ~learning /\ p \in Sampled) = 0
          /\ One(rx = "add" /\ ~learning /\ p \in Sampled)' = 0
    BY <1>2 DEF One
  <2>2. QED
    BY <1>2, <2>1 DEF IInv, Samples
<1>12. Counters'
  <2> SUFFICES ASSUME NEW m \in Metric
               PROVE  /\ UpTo(Consecutive, state'[m].consecutive_anomalous)
                           <= evaluations'
                      /\ raised'[m] # "none" => evaluations' >= Consecutive
                      /\ learning' => /\ state'[m].consecutive_anomalous = 0
                                      /\ raised'[m] = "none"
    BY DEF Counters
  <2>1. /\ UpTo(Consecutive, state[m].consecutive_anomalous) <= evaluations
        /\ raised[m] # "none" => evaluations >= Consecutive
        /\ learning => state[m].consecutive_anomalous = 0 /\ raised[m] = "none"
        /\ state[m].consecutive_anomalous \in Nat
        /\ state[m] \in MetricState /\ outlier[m] \in BOOLEAN
    BY <1>1, OfMetric DEF IInv, Counters
  <2>2. CASE learning
    BY <1>2, <1>3, <1>4, <1>6, <2>1, <2>2, Bounds DEF UpTo
  <2>3. CASE ~learning
    <3> DEFINE c == CheckMetric(state[m], outlier[m])
    <3>1. /\ c.consecutive_anomalous \in 0..state[m].consecutive_anomalous + 1
          /\ Raises(state[m], outlier[m]) => c.consecutive_anomalous >= Consecutive
      BY <2>1, GuardFacts
    <3> HIDE DEF c
    <3>2. UpTo(Consecutive, c.consecutive_anomalous) <= evaluations'
      BY <1>1, <1>3, <2>1, <2>3, <3>1, Bounds DEF UpTo
    <3>3. evaluations' >= evaluations
      BY <1>1, <1>3, <2>3, Bounds DEF UpTo
    <3>4. Raises(state[m], outlier[m]) => evaluations' >= Consecutive
      BY <3>1, <3>2, <2>1, Bounds DEF UpTo
    <3>5. evaluations' \in Nat /\ evaluations \in Nat
      BY <1>1, <1>7, Bounds DEF AnomalyTypeOK
    <3>6. UpTo(Consecutive, state[m].consecutive_anomalous) \in Nat
      BY <2>1, Bounds DEF UpTo
    <3>7. UpTo(Consecutive, state'[m].consecutive_anomalous) <= evaluations'
      BY <1>4, <2>1, <3>2, <3>3, <3>5, <3>6 DEF c
    <3>8. raised'[m] # "none" => evaluations' >= Consecutive
      BY <1>4, <2>1, <3>3, <3>4, <3>5, Bounds
    <3>9. QED
      BY <1>2, <2>3, <3>7, <3>8
  <2>4. QED
    BY <2>2, <2>3
<1>13. Scores'
  <2>1. One(rx = "commit") = 0 /\ One(rx = "commit")' = 0
    BY <1>2 DEF One
  <2>2. QED
    BY <1>2, <2>1 DEF IInv, Scores, HasInterval
<1>14. QED
  BY <1>8, <1>9, <1>10, <1>11, <1>12, <1>13 DEF IInv

(***************************************************************************)
(* The profiles see the edge, and take in what there is.                   *)
(***************************************************************************)
LEMMA KeptBehaviorUpdate == ASSUME IInv, BehaviorUpdate PROVE IInv'
<1>1. TypeOK
  BY DEF IInv
<1>2. /\ rx = "profile" /\ rx' = "add"
      /\ ProfileUpdate
      /\ UNCHANGED <<learning, samples_total, hb_count, timed, outlier, state,
                     raised, verdicts, evaluations, pairs, scored>>
  BY DEF BehaviorUpdate, snapshot, anomaly, tracker
<1>3. /\ learning \in BOOLEAN /\ s_phase1_was_learning \in BOOLEAN
      /\ seeded_done \in BOOLEAN
  BY <1>1 DEF TypeOK, ProfileTypeOK
<1>4. /\ s_phase1_was_learning' = (s_phase1_was_learning /\ learning)
      /\ seeded_done' = (seeded_done \/ (s_phase1_was_learning /\ ~learning))
  BY <1>2 DEF ProfileUpdate
<1>5. ~learning => seeded_done'
  BY <1>3, <1>4 DEF IInv, Phase
<1>6. ASSUME NEW m \in Metric
      PROVE  profile'[m] = IF ~learning /\ (m = "hb_interval" => HasInterval)
                           THEN EmaUpdate(profile[m]) ELSE profile[m]
  BY <1>2, <1>4, <1>5 DEF ProfileUpdate
<1>7. ASSUME NEW m \in Metric
      PROVE  /\ EmaUpdate(profile[m]) \in [n : 0..SampleCap, ready : BOOLEAN]
             /\ EmaUpdate(profile[m]).n = UpTo(SampleCap, profile[m].n + 1)
             /\ EmaUpdate(profile[m]).ready <=> EmaUpdate(profile[m]).n >= ProfileMin
  <2>1. /\ profile[m].n \in 0..SampleCap /\ profile[m].ready \in BOOLEAN
        /\ profile[m].ready <=> profile[m].n >= ProfileMin
    BY <1>1, OfMetric DEF IInv, Ready
  <2> DEFINE v == UpTo(SampleCap, profile[m].n + 1)
  <2>2. v \in 0..SampleCap /\ v >= profile[m].n
    BY <2>1, Bounds DEF UpTo
  <2>3. EmaUpdate(profile[m]) =
          [n |-> v, ready |-> profile[m].ready \/ v >= ProfileMin]
    BY DEF EmaUpdate
  <2> HIDE DEF v
  <2>4. /\ EmaUpdate(profile[m]).n = v
        /\ EmaUpdate(profile[m]).ready = (profile[m].ready \/ v >= ProfileMin)
    BY <2>3
  <2>5. profile[m].ready \/ v >= ProfileMin <=> v >= ProfileMin
    BY <2>1, <2>2, Bounds
  <2>6. EmaUpdate(profile[m]) \in [n : 0..SampleCap, ready : BOOLEAN]
    BY <2>2, <2>3
  <2>7. QED
    BY <2>4, <2>5, <2>6 DEF v
<1>8. ProfileTypeOK'
  <2>1. profile' = [m \in Metric |-> profile'[m]]
    BY <1>2 DEF ProfileUpdate
  <2>2. \A m \in Metric : profile'[m] \in [n : 0..SampleCap, ready : BOOLEAN]
    BY <1>1, <1>6, <1>7, OfMetric
  <2>3. profile' \in [Metric -> [n : 0..SampleCap, ready : BOOLEAN]]
    BY <2>1, <2>2
  <2>4. QED
    BY <1>3, <1>4, <2>3 DEF ProfileTypeOK
<1>9. TypeOK'
  <2>1. AnomalyTypeOK' /\ TrackerTypeOK'
    BY <1>1, <1>2 DEF TypeOK, AnomalyTypeOK, TrackerTypeOK
  <2>2. QED
    BY <1>1, <1>2, <1>8, <2>1 DEF TypeOK
<1>10. Phase'
  BY <1>2, <1>3, <1>4 DEF IInv, Phase
<1>11. Ready'
  BY <1>2, <1>6, <1>7 DEF IInv, Ready
<1>12. Gates'
  <2> DEFINE k == profile["hb_interval"].n
  <2>1. /\ One(rx = "profile" /\ Fresh) = One(Fresh)
        /\ One(rx = "add" /\ Fresh) = 0
        /\ One(rx = "profile" /\ Fresh)' = 0
        /\ One(rx = "add" /\ Fresh)' = One(Fresh)
    BY <1>2 DEF One, Fresh, HasInterval
  <2>2. /\ profile'["hb_interval"].n = IF Fresh THEN UpTo(SampleCap, k + 1) ELSE k
        /\ k \in 0..SampleCap
    BY <1>1, <1>6, <1>7, OfMetric, Metrics DEF Fresh
  <2>3. /\ Len(verdicts'["hb_interval"]) = UpTo(Consecutive, k + One(Fresh))
        /\ Interval \in Pair =>
             k = UpTo(SampleCap, pairs[Interval].samples_total)
    <3>1. Interval \in Pair => pairs[Interval].samples_total \in 0..TotalCap
      BY <1>1, OfPair
    <3>2. QED
      BY <1>2, <2>1, <3>1, Bounds DEF IInv, Gates
  <2> HIDE DEF k
  <2>4. UpTo(Consecutive, k + One(Fresh))
          = UpTo(Consecutive, profile'["hb_interval"].n + 0)
    BY <2>2, Bounds DEF UpTo, One
  <2>5. ASSUME Interval \in Pair
        PROVE  profile'["hb_interval"].n =
                 UpTo(SampleCap, pairs[Interval].samples_total + One(Fresh))
    <3>1. pairs[Interval].samples_total \in Nat
      BY <1>1, <2>5, OfPair, Bounds
    <3>2. QED
      BY <2>2, <2>3, <2>5, <3>1, Bounds DEF UpTo, One
  <2>6. QED
    BY <1>2, <2>1, <2>3, <2>4, <2>5 DEF Gates
<1>13. Samples'
  <2> SUFFICES ASSUME NEW p \in Pair
               PROVE  (pairs[p].n + One(rx = "add" /\ ~learning /\ p \in Sampled)
                         >= UpTo(PairMin, profile[Slowest(p)].n))'
    BY DEF Samples
  <2> DEFINE fed == ~learning /\ p \in Sampled
             k   == profile[Slowest(p)].n
  <2>1. One(rx = "add" /\ fed) = 0 /\ One(rx = "add" /\ fed)' = One(fed)
    BY <1>2 DEF One, Sampled, HasInterval
  <2>2. /\ k \in 0..SampleCap
        /\ profile'[Slowest(p)].n = IF fed THEN UpTo(SampleCap, k + 1) ELSE k
    <3>1. fed <=> ~learning /\ (Slowest(p) = "hb_interval" => HasInterval)
      BY DEF Slowest, Sampled, Interval
    <3>2. QED
      BY <1>1, <1>6, <1>7, <3>1, OfMetric, Metrics
  <2>3. pairs[p].n \in Nat /\ pairs[p].n >= UpTo(PairMin, k)
    <3>1. pairs[p].n \in Nat
      BY <1>1, OfPair, Bounds
    <3>2. pairs[p].n + 0 >= UpTo(PairMin, k)
      BY <2>1 DEF IInv, Samples
    <3>3. QED
      BY <3>1, <3>2
  <2>4. (Slowest(p))' = Slowest(p) /\ pairs' = pairs
    BY <1>2 DEF Slowest
  <2> HIDE DEF fed, k
  <2>5. pairs[p].n + One(fed) >= UpTo(PairMin, profile'[Slowest(p)].n)
    BY <2>2, <2>3, Bounds DEF UpTo, One
  <2>6. QED
    BY <2>1, <2>4, <2>5 DEF fed
<1>14. Counters'
  BY <1>2 DEF IInv, Counters
<1>15. Scores'
  <2>1. One(rx = "commit") = 0 /\ One(rx = "commit")' = 0
    BY <1>2 DEF One
  <2>2. QED
    BY <1>2, <2>1 DEF IInv, Scores, HasInterval
<1>16. QED
  BY <1>9, <1>10, <1>11, <1>12, <1>13, <1>14, <1>15 DEF IInv

(***************************************************************************)
(* One sample more for a pair.                                             *)
(***************************************************************************)
LEMMA AddSampleFacts ==
  ASSUME NEW q \in PairState, NEW held
  PROVE  LET r == AddSample(q, held)
         IN  /\ r \in PairState
             /\ r.n = UpTo(WindowSize, q.n + 1)
             /\ r.samples_total = UpTo(TotalCap, q.samples_total + 1)
             /\ r.baseline_seeded = q.baseline_seeded
             /\ r.ready = (q.ready \/ (r.n >= PairMin /\ q.baseline_seeded))
             /\ r.alert = q.alert
<1> DEFINE n == UpTo(WindowSize, q.n + 1)
           st == UpTo(TotalCap, q.samples_total + 1)
           run(s) == IF s \in held THEN UpTo(WindowSize, q.same[s] + 1) ELSE 1
           r == AddSample(q, held)
<1>1. /\ q.n \in 0..WindowSize /\ q.samples_total \in 0..TotalCap
      /\ q.same.x \in 0..WindowSize /\ q.same.y \in 0..WindowSize
      /\ q.ready \in BOOLEAN /\ q.baseline_seeded \in BOOLEAN
      /\ q.z \in ZScore /\ q.alert \in MetricState
  BY DEF PairState
<1>2. /\ n \in 0..WindowSize /\ st \in 0..TotalCap
      /\ run("x") \in 0..WindowSize /\ run("y") \in 0..WindowSize
  BY <1>1, Bounds DEF UpTo
<1>3. r = [q EXCEPT !.n = n, !.samples_total = st,
                    !.same = [x |-> run("x"), y |-> run("y")],
                    !.ready = q.ready \/ (n >= PairMin /\ q.baseline_seeded)]
  BY <1>1 DEF AddSample, PairState
<1> HIDE DEF n, st, run, r
<1>4. /\ r.n = n /\ r.samples_total = st
      /\ r.baseline_seeded = q.baseline_seeded /\ r.alert = q.alert
      /\ r.ready = (q.ready \/ (n >= PairMin /\ q.baseline_seeded))
  BY <1>3 DEF PairState
<1>5. r \in PairState
  BY <1>1, <1>2, <1>3 DEF PairState
<1>6. QED
  BY <1>4, <1>5 DEF n, st, r

(***************************************************************************)
(* The pairs take their samples.                                           *)
(***************************************************************************)
LEMMA KeptCorrelationAdd == ASSUME IInv, CorrelationAdd PROVE IInv'
<1>1. TypeOK /\ learning \in BOOLEAN
  BY DEF IInv, TypeOK
<1>2. /\ rx = "add" /\ rx' = "commit"
      /\ UNCHANGED <<learning, samples_total, hb_count, timed, outlier, state,
                     raised, verdicts, evaluations, s_phase1_was_learning,
                     seeded_done, profile, scored>>
  BY DEF CorrelationAdd, AddSamples, snapshot, anomaly, profiles
<1>3. PICK held \in [Pair -> SUBSET {"x", "y"}] : AddSamples(held)
  BY DEF CorrelationAdd
<1> DEFINE fed(p) == ~learning /\ p \in Sampled
<1>4. ASSUME NEW p \in Pair
      PROVE  pairs'[p] = IF fed(p) THEN AddSample(pairs[p], held[p])
                         ELSE pairs[p]
  BY <1>3 DEF AddSamples
<1>5. ASSUME NEW p \in Pair, fed(p)
      PROVE  /\ pairs'[p] \in PairState
             /\ pairs'[p].n = UpTo(WindowSize, pairs[p].n + 1)
             /\ pairs'[p].samples_total = UpTo(TotalCap, pairs[p].samples_total + 1)
             /\ pairs'[p].baseline_seeded = pairs[p].baseline_seeded
             /\ pairs'[p].ready =
                  (pairs[p].ready \/ (pairs'[p].n >= PairMin
                                        /\ pairs[p].baseline_seeded))
             /\ pairs'[p].alert = pairs[p].alert
  <2>1. pairs[p] \in PairState
    BY <1>1, OfPair
  <2>2. pairs'[p] = AddSample(pairs[p], held[p])
    BY <1>4, <1>5
  <2>3. QED
    BY <2>1, <2>2, AddSampleFacts
<1>6. ASSUME NEW p \in Pair, ~fed(p)
      PROVE  pairs'[p] = pairs[p]
  BY <1>4, <1>6
<1> HIDE DEF fed
<1>7. TypeOK'
  <2>1. pairs' = [p \in Pair |-> pairs'[p]]
    BY <1>3 DEF AddSamples
  <2>2. pairs' \in [Pair -> PairState]
    <3>1. ASSUME NEW p \in Pair PROVE pairs'[p] \in PairState
      <4>1. pairs[p] \in PairState
        BY <1>1, OfPair
      <4>2. QED
        BY <1>5, <1>6, <4>1
    <3>2. QED
      BY <2>1, <3>1
  <2>3. TrackerTypeOK'
    BY <1>1, <1>2, <2>2 DEF TypeOK, TrackerTypeOK, PairState
  <2>4. AnomalyTypeOK' /\ ProfileTypeOK'
    BY <1>1, <1>2 DEF TypeOK, AnomalyTypeOK, ProfileTypeOK
  <2>5. QED
    BY <1>1, <1>2, <2>3, <2>4 DEF TypeOK
<1>8. Phase'
  BY <1>2 DEF IInv, Phase
<1>9. Ready'
  <2> SUFFICES ASSUME NEW p \in Pair
               PROVE  pairs'[p].ready <=>
                        pairs'[p].n >= PairMin /\ pairs'[p].baseline_seeded
    BY <1>2 DEF IInv, Ready
  <2>1. /\ pairs[p].ready <=> pairs[p].n >= PairMin /\ pairs[p].baseline_seeded
        /\ pairs[p].n \in 0..WindowSize
    BY <1>1, OfPair DEF IInv, Ready
  <2>2. CASE fed(p)
    <3>1. pairs'[p].n = UpTo(WindowSize, pairs[p].n + 1)
      BY <1>5, <2>2
    <3>2. pairs[p].n >= PairMin => pairs'[p].n >= PairMin
      BY <2>1, <3>1, Bounds DEF UpTo
    <3>3. QED
      BY <1>5, <2>1, <2>2, <3>2
  <2>3. CASE ~fed(p)
    BY <1>6, <2>1, <2>3
  <2>4. QED
    BY <2>2, <2>3
<1>10. Gates'
  <2>1. /\ One(rx = "profile" /\ Fresh) = 0 /\ One(rx = "profile" /\ Fresh)' = 0
        /\ One(rx = "add" /\ Fresh) = One(Fresh)
        /\ One(rx = "add" /\ Fresh)' = 0
    BY <1>2 DEF One
  <2>2. ASSUME Interval \in Pair
        PROVE  profile["hb_interval"].n =
                 UpTo(SampleCap, pairs'[Interval].samples_total + 0)
    <3>1. fed(Interval) <=> Fresh
      BY <2>2 DEF fed, Fresh, Sampled, Interval
    <3>2. pairs[Interval].samples_total \in Nat
      BY <1>1, <2>2, OfPair, Bounds
    <3>3. profile["hb_interval"].n =
            UpTo(SampleCap, pairs[Interval].samples_total + One(Fresh))
      BY <2>1, <2>2 DEF IInv, Gates
    <3>4. CASE Fresh
      <4>1. pairs'[Interval].samples_total =
              UpTo(TotalCap, pairs[Interval].samples_total + 1)
        BY <1>5, <2>2, <3>1, <3>4
      <4>2. QED
        BY <3>2, <3>3, <3>4, <4>1, Bounds DEF UpTo, One
    <3>5. CASE ~Fresh
      <4>1. pairs'[Interval] = pairs[Interval]
        BY <1>6, <2>2, <3>1, <3>5
      <4>2. QED
        BY <3>2, <3>3, <3>5, <4>1 DEF One
    <3>6. QED
      BY <3>4, <3>5
  <2>3. QED
    BY <1>2, <2>1, <2>2 DEF IInv, Gates
<1>11. Samples'
  <2> SUFFICES ASSUME NEW p \in Pair
               PROVE  (pairs[p].n + One(rx = "add" /\ ~learning /\ p \in Sampled)
                         >= UpTo(PairMin, profile[Slowest(p)].n))'
    BY DEF Samples
  <2>1. /\ One(rx = "add" /\ ~learning /\ p \in Sampled) = One(fed(p))
        /\ One(rx = "add" /\ ~learning /\ p \in Sampled)' = 0
    BY <1>2 DEF One, fed
  <2> DEFINE k == profile[Slowest(p)].n
  <2>2. /\ pairs[p].n + One(fed(p)) >= UpTo(PairMin, k)
        /\ k \in Nat /\ pairs[p].n \in Nat
    BY <1>1, <2>1, OfMetric, OfPair, Metrics, Bounds DEF IInv, Samples
  <2> HIDE DEF k
  <2>3. pairs'[p].n + 0 >= UpTo(PairMin, k)
    <3>1. CASE fed(p)
      <4>1. pairs'[p].n = UpTo(WindowSize, pairs[p].n + 1)
        BY <1>5, <3>1
      <4>2. One(fed(p)) = 1
        BY <3>1 DEF One
      <4>3. QED
        BY <2>2, <4>1, <4>2, Bounds DEF UpTo
    <3>2. CASE ~fed(p)
      <4>1. pairs'[p].n = pairs[p].n /\ One(fed(p)) = 0
        BY <1>6, <3>2 DEF One
      <4>2. QED
        BY <2>2, <4>1
    <3>3. QED
      BY <3>1, <3>2
  <2>4. (Slowest(p))' = Slowest(p)
    BY DEF Slowest
  <2>5. QED
    BY <1>2, <2>1, <2>3, <2>4 DEF k
<1>12. Counters'
  BY <1>2 DEF IInv, Counters
<1>13. Scores'
  <2> SUFFICES ASSUME NEW p \in Pair
               PROVE  /\ pairs'[p].n >= PairMin =>
                           pairs'[p].samples_total >= PairMin
                      /\ pairs'[p].n = UpTo(WindowSize, pairs'[p].samples_total)
                      /\ pairs'[p].n > 0 => /\ ~learning'
                                            /\ p = Interval => HasInterval'
                      /\ pairs'[p].alert.alert_active =>
                           pairs'[p].samples_total >= PairMin + Consecutive - 1
                      /\ \/ pairs'[p].alert.consecutive_anomalous = 0
                         \/ pairs'[p].samples_total >= PairMin + Consecutive - 1
                         \/ pairs'[p].samples_total >=
                              PairMin + pairs'[p].alert.consecutive_anomalous - 1
                                + One(rx' = "commit")
    BY DEF Scores
  <2> DEFINE st == pairs[p].samples_total
             ca == pairs[p].alert.consecutive_anomalous
  <2>1. /\ pairs[p].n >= PairMin => st >= PairMin
        /\ pairs[p].n = UpTo(WindowSize, st)
        /\ pairs[p].n > 0 => ~learning /\ (p = Interval => HasInterval)
        /\ pairs[p].alert.alert_active => st >= PairMin + Consecutive - 1
        /\ \/ ca = 0
           \/ st >= PairMin + Consecutive - 1
           \/ st >= PairMin + ca - 1 + One(rx = "commit")
    BY DEF IInv, Scores
  <2>2. /\ st \in 0..TotalCap /\ ca \in 0..CountCap /\ pairs[p].n \in 0..WindowSize
    BY <1>1, OfPair
  <2>3. One(rx = "commit") = 0 /\ One(rx' = "commit") = 1
    BY <1>2 DEF One
  <2>4. HasInterval' = HasInterval /\ learning' = learning
    BY <1>2 DEF HasInterval
  <2>5. CASE fed(p)
    <3>1. /\ pairs'[p].samples_total = UpTo(TotalCap, st + 1)
          /\ pairs'[p].n = UpTo(WindowSize, pairs[p].n + 1)
          /\ pairs'[p].alert = pairs[p].alert
      BY <1>5, <2>5
    <3>2. ~learning /\ (p = Interval => HasInterval)
      BY <2>5 DEF fed, Sampled, Interval
    <3> HIDE DEF st, ca
    <3>3. pairs'[p].n = UpTo(WindowSize, pairs'[p].samples_total)
      BY <2>1, <2>2, <3>1, Bounds DEF UpTo
    <3>4. pairs'[p].samples_total \in Nat /\ pairs'[p].samples_total >= st
      BY <2>2, <3>1, Bounds DEF UpTo
    <3>5. pairs'[p].n >= PairMin => pairs'[p].samples_total >= PairMin
      BY <3>3, <3>4, Bounds DEF UpTo
    <3>6. pairs'[p].alert.alert_active =>
            pairs'[p].samples_total >= PairMin + Consecutive - 1
      BY <2>1, <2>2, <3>1, <3>4, Bounds
    <3>7. \/ ca = 0
          \/ pairs'[p].samples_total >= PairMin + Consecutive - 1
          \/ pairs'[p].samples_total >= PairMin + ca - 1 + One(rx' = "commit")
      BY <2>1, <2>2, <2>3, <3>1, Bounds DEF UpTo
    <3>8. QED
      BY <2>4, <3>1, <3>2, <3>3, <3>5, <3>6, <3>7 DEF ca
  <2>6. CASE ~fed(p)
    <3>1. /\ pairs'[p].samples_total = st /\ pairs'[p].n = pairs[p].n
          /\ pairs'[p].alert = pairs[p].alert
      BY <1>6, <2>6
    <3>2. pairs[p].n = 0
      BY <2>1, <2>2, <2>6 DEF fed, Sampled, Interval
    <3>3. st = 0
      BY <2>1, <2>2, <3>2, Bounds DEF UpTo
    <3> HIDE DEF st, ca
    <3>4. ca = 0
      BY <2>1, <2>2, <2>3, <3>3, Bounds
    <3>5. QED
      BY <2>1, <2>4, <3>1, <3>4 DEF ca
  <2>7. QED
    BY <2>5, <2>6
<1>14. QED
  BY <1>7, <1>8, <1>9, <1>10, <1>11, <1>12, <1>13 DEF IInv

(***************************************************************************)
(* What a commit does to a pair: it may make the pair ready, and a pair    *)
(* that was ready already may be scored.                                   *)
(***************************************************************************)
LEMMA CommitPairFacts ==
  ASSUME NEW q \in PairState, NEW z \in ZScore,
         q.ready <=> q.n >= PairMin /\ q.baseline_seeded
  PROVE  LET r == CommitPair(q, z)
         IN  /\ r \in PairState
             /\ r.n = q.n /\ r.samples_total = q.samples_total
             /\ r.ready <=> r.n >= PairMin /\ r.baseline_seeded
             /\ \/ r.alert = q.alert
                \/ q.ready /\ \E v \in BOOLEAN : r.alert = CheckMetric(q.alert, v)
<1> DEFINE seeded == q.baseline_seeded \/ Valid(q)
           zscore == IF ~Valid(q) THEN q.z
                     ELSE IF q.baseline_seeded THEN z ELSE "none"
           alert  == IF IsScored(q, zscore)
                     THEN CheckMetric(q.alert, zscore = "anomalous") ELSE q.alert
           ready  == q.ready \/ (q.n >= PairMin /\ seeded)
           r      == CommitPair(q, z)
<1>1. /\ q.n \in 0..WindowSize /\ q.samples_total \in 0..TotalCap
      /\ q.ready \in BOOLEAN /\ q.baseline_seeded \in BOOLEAN
      /\ q.z \in ZScore /\ q.alert \in MetricState
  BY DEF PairState
<1>2. seeded \in BOOLEAN /\ ready \in BOOLEAN
  <2>1. Valid(q) \in BOOLEAN
    BY DEF Valid
  <2>2. QED
    BY <1>1, <2>1
<1>3. zscore \in ZScore
  BY <1>1 DEF ZScore
<1>4. alert \in MetricState
  <2>1. (zscore = "anomalous") \in BOOLEAN
    OBVIOUS
  <2>2. CheckMetric(q.alert, zscore = "anomalous") \in MetricState
    BY <1>1, <2>1, GuardFacts
  <2>3. QED
    BY <1>1, <2>2
<1>5. \/ alert = q.alert
      \/ q.ready /\ \E v \in BOOLEAN : alert = CheckMetric(q.alert, v)
  <2>1. CASE IsScored(q, zscore)
    <3>1. q.ready
      BY <2>1 DEF IsScored
    <3>2. alert = CheckMetric(q.alert, zscore = "anomalous")
      BY <2>1
    <3>3. (zscore = "anomalous") \in BOOLEAN
      OBVIOUS
    <3>4. QED
      BY <3>1, <3>2, <3>3
  <2>2. CASE ~IsScored(q, zscore)
    BY <2>2
  <2>3. QED
    BY <2>1, <2>2
<1>6. ready <=> q.n >= PairMin /\ seeded
  OBVIOUS
<1>7. r = [q EXCEPT !.baseline_seeded = seeded, !.z = zscore,
                    !.alert = alert, !.ready = ready]
  BY <1>1 DEF CommitPair, PairState
<1> HIDE DEF seeded, zscore, alert, ready, r
<1>8. r \in PairState
  BY <1>1, <1>2, <1>3, <1>4, <1>7 DEF PairState
<1>9. /\ r.n = q.n /\ r.samples_total = q.samples_total
      /\ r.baseline_seeded = seeded /\ r.ready = ready /\ r.alert = alert
  BY <1>7 DEF PairState
<1>10. QED
  BY <1>5, <1>6, <1>8, <1>9 DEF r

(***************************************************************************)
(* The results are committed.                                              *)
(***************************************************************************)
LEMMA KeptCorrelationCommit == ASSUME IInv, CorrelationCommit PROVE IInv'
<1>1. TypeOK /\ learning \in BOOLEAN
  BY DEF IInv, TypeOK
<1>2. /\ rx = "commit" /\ rx' = "stats"
      /\ UNCHANGED <<learning, samples_total, hb_count, timed, outlier, state,
                     raised, verdicts, evaluations, s_phase1_was_learning,
                     seeded_done, profile>>
  BY DEF CorrelationCommit, snapshot, anomaly, profiles
<1>3. PICK z \in [Pair -> ZScore] : Commit(z)
  BY DEF CorrelationCommit
<1>4. ASSUME NEW p \in Pair
      PROVE  /\ pairs'[p] \in PairState
             /\ pairs'[p].n = pairs[p].n
             /\ pairs'[p].samples_total = pairs[p].samples_total
             /\ pairs'[p].ready <=> pairs'[p].n >= PairMin /\ pairs'[p].baseline_seeded
             /\ \/ pairs'[p].alert = pairs[p].alert
                \/ /\ pairs[p].ready
                   /\ \E v \in BOOLEAN :
                        pairs'[p].alert = CheckMetric(pairs[p].alert, v)
  <2>1. /\ pairs[p] \in PairState /\ z[p] \in ZScore
        /\ pairs[p].ready <=> pairs[p].n >= PairMin /\ pairs[p].baseline_seeded
    BY <1>1, OfPair DEF IInv, Ready
  <2>2. pairs'[p] = IF learning THEN pairs[p] ELSE CommitPair(pairs[p], z[p])
    BY <1>3 DEF Commit
  <2>3. CASE learning
    BY <2>1, <2>2, <2>3
  <2>4. CASE ~learning
    BY <2>1, <2>2, <2>4, CommitPairFacts
  <2>5. QED
    BY <2>3, <2>4
<1>5. scored' \in [Pair -> Seq(BOOLEAN)]
  <2>1. ASSUME NEW p \in Pair PROVE scored'[p] \in Seq(BOOLEAN)
    <3> DEFINE zs == IF pairs[p].baseline_seeded THEN z[p] ELSE "none"
    <3>1. scored'[p] = IF ~learning /\ IsScored(pairs[p], zs)
                       THEN LastVerdicts(scored[p], zs = "anomalous")
                       ELSE scored[p]
      BY <1>3 DEF Commit
    <3>2. scored[p] \in Seq(BOOLEAN) /\ (zs = "anomalous") \in BOOLEAN
      BY <1>1, OfPair
    <3>3. LastVerdicts(scored[p], zs = "anomalous") \in Seq(BOOLEAN)
      BY <3>2, LastVerdictsFacts
    <3> HIDE DEF zs
    <3>4. QED
      BY <3>1, <3>2, <3>3
  <2>2. scored' = [p \in Pair |-> scored'[p]]
    BY <1>3 DEF Commit
  <2>3. QED
    BY <2>1, <2>2
<1>6. TypeOK'
  <2>1. pairs' = [p \in Pair |-> pairs'[p]]
    BY <1>3 DEF Commit
  <2>2. pairs' \in [Pair -> PairState]
    BY <1>4, <2>1
  <2>3. TrackerTypeOK'
    BY <1>5, <2>2 DEF TrackerTypeOK, PairState
  <2>4. AnomalyTypeOK' /\ ProfileTypeOK'
    BY <1>1, <1>2 DEF TypeOK, AnomalyTypeOK, ProfileTypeOK
  <2>5. QED
    BY <1>1, <1>2, <2>3, <2>4 DEF TypeOK
<1>7. Phase'
  BY <1>2 DEF IInv, Phase
<1>8. Ready'
  BY <1>2, <1>4 DEF IInv, Ready
<1>9. Gates'
  <2>1. /\ One(rx = "profile" /\ Fresh) = 0 /\ One(rx = "profile" /\ Fresh)' = 0
        /\ One(rx = "add" /\ Fresh) = 0 /\ One(rx = "add" /\ Fresh)' = 0
    BY <1>2 DEF One
  <2>2. QED
    BY <1>2, <1>4, <2>1 DEF IInv, Gates
<1>10. Samples'
  <2>1. \A p \in Pair :
          /\ One(rx = "add" /\ ~learning /\ p \in Sampled) = 0
          /\ One(rx = "add" /\ ~learning /\ p \in Sampled)' = 0
          /\ (Slowest(p))' = Slowest(p)
    BY <1>2 DEF One, Slowest
  <2>2. QED
    BY <1>2, <1>4, <2>1 DEF IInv, Samples
<1>11. Counters'
  BY <1>2 DEF IInv, Counters
<1>12. Scores'
  <2> SUFFICES ASSUME NEW p \in Pair
               PROVE  /\ pairs'[p].n >= PairMin =>
                           pairs'[p].samples_total >= PairMin
                      /\ pairs'[p].n = UpTo(WindowSize, pairs'[p].samples_total)
                      /\ pairs'[p].n > 0 => /\ ~learning'
                                            /\ p = Interval => HasInterval'
                      /\ pairs'[p].alert.alert_active =>
                           pairs'[p].samples_total >= PairMin + Consecutive - 1
                      /\ \/ pairs'[p].alert.consecutive_anomalous = 0
                         \/ pairs'[p].samples_total >= PairMin + Consecutive - 1
                         \/ pairs'[p].samples_total >=
                              PairMin + pairs'[p].alert.consecutive_anomalous - 1
                                + One(rx' = "commit")
    BY DEF Scores
  <2> DEFINE st  == pairs[p].samples_total
             ca  == pairs[p].alert.consecutive_anomalous
             ca2 == pairs'[p].alert.consecutive_anomalous
  <2>1. /\ pairs[p].n >= PairMin => st >= PairMin
        /\ pairs[p].n = UpTo(WindowSize, st)
        /\ pairs[p].n > 0 => ~learning /\ (p = Interval => HasInterval)
        /\ pairs[p].alert.alert_active => st >= PairMin + Consecutive - 1
        /\ \/ ca = 0
           \/ st >= PairMin + Consecutive - 1
           \/ st >= PairMin + ca - 1 + One(rx = "commit")
    BY DEF IInv, Scores
  <2>2. st \in Nat /\ ca \in Nat
    BY <1>1, OfPair, Bounds
  <2>3. One(rx = "commit") = 1 /\ One(rx' = "commit") = 0
    BY <1>2 DEF One
  <2>4. HasInterval' = HasInterval /\ learning' = learning
    BY <1>2 DEF HasInterval
  <2>5. /\ pairs'[p].samples_total = st /\ pairs'[p].n = pairs[p].n
    BY <1>4
  <2>6. /\ pairs'[p].alert.alert_active => st >= PairMin + Consecutive - 1
        /\ \/ ca2 = 0
           \/ st >= PairMin + Consecutive - 1
           \/ st >= PairMin + ca2 - 1
    <3>1. CASE pairs'[p].alert = pairs[p].alert
      <4>1. ca2 = ca
        BY <3>1
      <4> HIDE DEF ca, ca2, st
      <4>2. QED
        BY <2>1, <2>2, <2>3, <3>1, <4>1, Bounds
    <3>2. CASE /\ pairs[p].ready
               /\ \E v \in BOOLEAN : pairs'[p].alert = CheckMetric(pairs[p].alert, v)
      <4>1. PICK v \in BOOLEAN : pairs'[p].alert = CheckMetric(pairs[p].alert, v)
        BY <3>2
      <4>2. pairs[p].alert \in MetricState
        BY <1>1, OfPair
      <4>3. /\ ca2 \in 0..ca + 1
            /\ pairs'[p].alert.alert_active =>
                 pairs[p].alert.alert_active \/ ca2 >= Consecutive
        BY <4>1, <4>2, GuardFacts
      <4>4. pairs[p].n >= PairMin
        BY <3>2 DEF IInv, Ready
      <4> HIDE DEF ca, ca2, st
      <4>5. st >= PairMin
        BY <2>1, <4>4
      <4>6. \/ ca2 = 0
            \/ st >= PairMin + Consecutive - 1
            \/ st >= PairMin + ca2 - 1
        BY <2>1, <2>2, <2>3, <4>3, <4>5, Bounds
      <4>7. QED
        BY <2>1, <2>2, <4>3, <4>6, Bounds
    <3>3. QED
      BY <1>4, <3>1, <3>2
  <2> HIDE DEF st
  <2>7. ca2 \in Nat
    <3>1. pairs'[p].alert \in MetricState
      BY <1>4 DEF PairState
    <3>2. QED
      BY <3>1, Bounds DEF MetricState
  <2>8. QED
    BY <2>1, <2>2, <2>3, <2>4, <2>5, <2>6, <2>7, Bounds
<1>13. QED
  BY <1>6, <1>7, <1>8, <1>9, <1>10, <1>11, <1>12 DEF IInv

-----------------------------------------------------------------------------
LEMMA IInvNext == IInv /\ [Next]_vars => IInv'
<1> SUFFICES ASSUME IInv, [Next]_vars PROVE IInv'
  OBVIOUS
<1>1. CASE StatsUpdate
  BY <1>1, KeptStatsUpdate
<1>2. CASE AnomalyEvaluate
  BY <1>2, KeptAnomalyEvaluate
<1>3. CASE BehaviorUpdate
  BY <1>3, KeptBehaviorUpdate
<1>4. CASE CorrelationAdd
  BY <1>4, KeptCorrelationAdd
<1>5. CASE CorrelationCommit
  BY <1>5, KeptCorrelationCommit
<1>6. CASE UNCHANGED vars
  <2>1. UNCHANGED <<learning, samples_total, hb_count, timed, outlier, state,
                    raised, verdicts, evaluations, s_phase1_was_learning,
                    seeded_done, profile, pairs, scored, rx>>
    BY <1>6 DEF vars, snapshot, anomaly, profiles, tracker
  <2>2. TypeOK'
    BY <2>1 DEF IInv, TypeOK, AnomalyTypeOK, ProfileTypeOK, TrackerTypeOK
  <2>3. Phase' /\ Ready' /\ Counters'
    BY <2>1 DEF IInv, Phase, Ready, Counters
  <2>4. Gates'
    BY <2>1 DEF IInv, Gates, Fresh, HasInterval
  <2>5. Samples'
    BY <2>1 DEF IInv, Samples, Sampled, HasInterval, Slowest
  <2>6. Scores'
    BY <2>1 DEF IInv, Scores, HasInterval
  <2>7. QED
    BY <2>2, <2>3, <2>4, <2>5, <2>6 DEF IInv
<1>7. QED
  BY <1>1, <1>2, <1>3, <1>4, <1>5, <1>6 DEF Next

LEMMA IInvAlways == Spec => []IInv
BY IInvInit, IInvNext, PTL DEF Spec

-----------------------------------------------------------------------------
\* Every guard has been given the verdicts that its ghost holds.
Followed ==
  /\ \A m \in Metric : Follows(state[m], verdicts[m])
  /\ \A p \in Pair : Follows(pairs[p].alert, scored[p])

LEMMA FollowedInit == Init => Followed
BY QuietFollows DEF Init, AnomalyInit, TrackerInit, Followed

(***************************************************************************)
(* An evaluation gives each detector that it runs one verdict.             *)
(***************************************************************************)
LEMMA EvaluateGuards ==
  ASSUME IInv, Followed, AnomalyEvaluate, NEW m \in Metric
  PROVE  /\ Follows(state'[m], verdicts'[m])
         /\ Guards(verdicts[m], state[m].alert_active,
                   verdicts'[m], state'[m].alert_active)
<1>1. /\ state[m] \in MetricState /\ outlier[m] \in BOOLEAN
      /\ Follows(state[m], verdicts[m])
  BY OfMetric DEF IInv, Followed
<1>2. /\ state'[m] = IF m \in Evaluated
                     THEN CheckMetric(state[m], outlier[m]) ELSE state[m]
      /\ verdicts'[m] = IF m \in Evaluated
                        THEN LastVerdicts(verdicts[m], outlier[m])
                        ELSE verdicts[m]
  BY DEF AnomalyEvaluate, Evaluate
<1>3. CASE m \in Evaluated
  BY <1>1, <1>2, <1>3, GuardFollows
<1>4. CASE m \notin Evaluated
  BY <1>1, <1>2, <1>4 DEF Guards
<1>5. QED
  BY <1>3, <1>4

(***************************************************************************)
(* A commit gives each pair that it scores one verdict, the same to its    *)
(* alert and to the ghost.                                                 *)
(***************************************************************************)
LEMMA CommitGuards ==
  ASSUME IInv, Followed, CorrelationCommit, NEW p \in Pair
  PROVE  /\ Follows(pairs'[p].alert, scored'[p])
         /\ Guards(scored[p], pairs[p].alert.alert_active,
                   scored'[p], pairs'[p].alert.alert_active)
<1>1. PICK z \in [Pair -> ZScore] : Commit(z)
  BY DEF CorrelationCommit
<1> DEFINE q == pairs[p]
           zs == IF q.baseline_seeded THEN z[p] ELSE "none"
           v == zs = "anomalous"
<1>2. /\ q \in PairState /\ q.alert \in MetricState
      /\ Follows(q.alert, scored[p])
  BY OfPair DEF IInv, Followed
<1>3. /\ pairs'[p] = IF learning THEN q ELSE CommitPair(q, z[p])
      /\ scored'[p] = IF ~learning /\ IsScored(q, zs)
                      THEN LastVerdicts(scored[p], v) ELSE scored[p]
  BY <1>1 DEF Commit
<1>4. CommitPair(q, z[p]).alert =
        IF IsScored(q, zs) THEN CheckMetric(q.alert, v) ELSE q.alert
  <2>1. CASE Valid(q)
    BY <1>2, <2>1 DEF CommitPair, PairState
  <2>2. CASE ~Valid(q)
    BY <1>2, <2>2 DEF CommitPair, PairState, IsScored
  <2>3. QED
    BY <2>1, <2>2
<1>5. v \in BOOLEAN
  OBVIOUS
<1> HIDE DEF q, zs, v
<1>6. CASE ~learning /\ IsScored(q, zs)
  <2>1. /\ pairs'[p].alert = CheckMetric(q.alert, v)
        /\ scored'[p] = LastVerdicts(scored[p], v)
    BY <1>3, <1>4, <1>6
  <2>2. QED
    BY <1>2, <1>5, <2>1, GuardFollows DEF q
<1>7. CASE ~(~learning /\ IsScored(q, zs))
  <2>1. pairs'[p].alert = q.alert /\ scored'[p] = scored[p]
    BY <1>3, <1>4, <1>7
  <2>2. QED
    BY <1>2, <2>1 DEF Guards, q
<1>8. QED
  BY <1>6, <1>7

(***************************************************************************)
(* No other step touches a guard.                                          *)
(***************************************************************************)
LEMMA FollowedStep ==
  ASSUME IInv, Followed, [Next]_vars
  PROVE  /\ Followed'
         /\ \A m \in Metric : Guards(verdicts[m], state[m].alert_active,
                                     verdicts'[m], state'[m].alert_active)
         /\ \A p \in Pair : Guards(scored[p], pairs[p].alert.alert_active,
                                   scored'[p], pairs'[p].alert.alert_active)
<1>1. ASSUME UNCHANGED <<state, verdicts>>, NEW m \in Metric
      PROVE  /\ Follows(state'[m], verdicts'[m])
             /\ Guards(verdicts[m], state[m].alert_active,
                       verdicts'[m], state'[m].alert_active)
  BY <1>1 DEF Followed, Guards
<1>2. ASSUME UNCHANGED scored,
             \A p \in Pair : pairs'[p].alert = pairs[p].alert,
             NEW p \in Pair
      PROVE  /\ Follows(pairs'[p].alert, scored'[p])
             /\ Guards(scored[p], pairs[p].alert.alert_active,
                       scored'[p], pairs'[p].alert.alert_active)
  BY <1>2 DEF Followed, Guards
<1>3. CASE AnomalyEvaluate
  <2>1. UNCHANGED <<pairs, scored>>
    BY <1>3 DEF AnomalyEvaluate, tracker
  <2>2. QED
    BY <1>2, <1>3, <2>1, EvaluateGuards DEF Followed
<1>4. CASE CorrelationCommit
  <2>1. UNCHANGED <<state, verdicts>>
    BY <1>4 DEF CorrelationCommit, anomaly
  <2>2. QED
    BY <1>1, <1>4, <2>1, CommitGuards DEF Followed
<1>5. CASE CorrelationAdd
  <2>1. UNCHANGED <<state, verdicts, scored>>
    BY <1>5 DEF CorrelationAdd, AddSamples, anomaly
  <2>2. ASSUME NEW p \in Pair PROVE pairs'[p].alert = pairs[p].alert
    <3>1. PICK held \in [Pair -> SUBSET {"x", "y"}] : AddSamples(held)
      BY <1>5 DEF CorrelationAdd
    <3>2. pairs[p] \in PairState
      BY OfPair DEF IInv
    <3>3. AddSample(pairs[p], held[p]).alert = pairs[p].alert
      BY <3>2 DEF AddSample, PairState
    <3>4. QED
      BY <3>1, <3>3 DEF AddSamples
  <2>3. QED
    BY <1>1, <1>2, <2>1, <2>2 DEF Followed
<1>6. CASE StatsUpdate \/ BehaviorUpdate \/ UNCHANGED vars
  <2>1. UNCHANGED <<state, verdicts, pairs, scored>>
    BY <1>6 DEF StatsUpdate, BehaviorUpdate, vars, anomaly, tracker
  <2>2. QED
    BY <1>1, <1>2, <2>1 DEF Followed
<1>7. QED
  BY <1>3, <1>4, <1>5, <1>6 DEF Next

-----------------------------------------------------------------------------
(* Every guard is a refinement of AlertPolicy. *)

LEMMA MetricGuards ==
  ASSUME IInv, Followed, [Next]_vars, IInv', NEW m \in Metric
  PROVE  /\ verdicts[m] \in Seq(BOOLEAN) /\ state'[m].alert_active \in BOOLEAN
         /\ Guards(verdicts[m], state[m].alert_active,
                   verdicts'[m], state'[m].alert_active)
<1>1. state'[m] \in MetricState
  BY DEF IInv, TypeOK, AnomalyTypeOK
<1>2. QED
  BY <1>1, OfMetric, FollowedStep DEF IInv, MetricState

LEMMA RssiFollowsPolicy == Spec => RssiPolicy!Spec
<1> DEFINE s == verdicts["rssi"]
           a == state["rssi"].alert_active
<1>1. Init => RssiPolicy!Init
  BY Metrics DEF Init, AnomalyInit, RssiPolicy!Init, Quiet
<1>2. IInv /\ Followed /\ [Next]_vars => Followed'
  BY FollowedStep
<1>3. IInv /\ IInv' /\ Followed /\ [Next]_vars => [RssiPolicy!Next]_<<s, a>>
  <2> SUFFICES ASSUME IInv, IInv', Followed, [Next]_vars, s' # s \/ a' # a
               PROVE  \E v \in BOOLEAN : RssiPolicy!Sample(v)
    BY DEF RssiPolicy!Next
  <2>1. s \in Seq(BOOLEAN) /\ a' \in BOOLEAN /\ Guards(s, a, s', a')
    BY Metrics, MetricGuards
  <2>2. PolicyStep(s, a, s', a')
    BY <2>1, GuardsPolicy
  <2>3. QED
    BY <2>2 DEF PolicyStep, RssiPolicy!Sample, RssiPolicy!Window, RssiPolicy!FullRun
<1>4. QED
  BY <1>1, <1>2, <1>3, IInvAlways, FollowedInit, PTL DEF Spec, RssiPolicy!Spec

LEMMA PairFollowsPolicy ==
  ASSUME Interval \in Pair
  PROVE  Spec => PairPolicy!Spec
<1> DEFINE s == scored["RSSI_HB_INTERVAL"]
           a == pairs["RSSI_HB_INTERVAL"].alert.alert_active
<1>1. Init => PairPolicy!Init
  BY DEF Init, TrackerInit, PairPolicy!Init, Quiet, Interval
<1>2. IInv /\ Followed /\ [Next]_vars => Followed'
  BY FollowedStep
<1>3. IInv /\ IInv' /\ Followed /\ [Next]_vars => [PairPolicy!Next]_<<s, a>>
  <2> SUFFICES ASSUME IInv, IInv', Followed, [Next]_vars, s' # s \/ a' # a
               PROVE  \E v \in BOOLEAN : PairPolicy!Sample(v)
    BY DEF PairPolicy!Next
  <2>1. s \in Seq(BOOLEAN)
    BY OfPair DEF IInv, Interval
  <2>2. a' \in BOOLEAN
    BY DEF IInv, TypeOK, TrackerTypeOK, MetricState, Interval
  <2>3. Guards(s, a, s', a')
    BY FollowedStep DEF Interval
  <2>4. PolicyStep(s, a, s', a')
    BY <2>1, <2>2, <2>3, GuardsPolicy
  <2>5. QED
    BY <2>4 DEF PolicyStep, PairPolicy!Sample, PairPolicy!Window, PairPolicy!FullRun
<1>4. QED
  BY <1>1, <1>2, <1>3, IInvAlways, FollowedInit, PTL DEF Spec, PairPolicy!Spec

(***************************************************************************)
(* The alerts whose every verdict is on a new sample implement AlertPolicy *)
(* (anomaly_engine.c:73-108, correlation_tracker.c:198-241): that of the   *)
(* signal strength, and that of its correlation with the interval, one of  *)
(* the three that the code tracks.  The interval's own alert does not: its *)
(* sample may be evaluated several times (anomaly_engine.c:202-208).       *)
(***************************************************************************)
THEOREM AlertsFollowPolicyHolds ==
  ASSUME "RSSI_HB_INTERVAL" \in Pair
  PROVE  Spec => AlertsFollowPolicy
<1>1. Interval \in Pair
  BY DEF Interval
<1>2. QED
  BY <1>1, RssiFollowsPolicy, PairFollowsPolicy, PTL
  DEF AlertsFollowPolicy

-----------------------------------------------------------------------------
(***************************************************************************)
(* No z-score detector speaks before Consecutive heartbeats after learning *)
(* (anomaly_engine.c:182-190), and no pair before its window was filled    *)
(* and scored Consecutive times (correlation_tracker.h:54-63).             *)
(***************************************************************************)
THEOREM SilentAtFirstHolds == Spec => []SilentAtFirst
<1>1. IInv => SilentAtFirst
  BY DEF IInv, SilentAtFirst, QuietUntilLearned, QuietUntilReady, Counters, Scores
<1>2. QED
  BY <1>1, IInvAlways, PTL

(***************************************************************************)
(* A pair is ready exactly when it has its samples and a baseline, though  *)
(* the two are tested at two places (correlation_tracker.c:171-175,        *)
(* 350-363).                                                               *)
(***************************************************************************)
THEOREM ReadyExactHolds == Spec => []ReadyExact
<1>1. IInv => ReadyExact
  BY DEF IInv, Ready, ReadyExact
<1>2. QED
  BY <1>1, IInvAlways, PTL

(***************************************************************************)
(* The three modules that use the interval have taken in the same number   *)
(* of intervals between two heartbeats, though each decides for itself     *)
(* whether there is one.                                                   *)
(***************************************************************************)
THEOREM GatesAgreeHolds == Spec => []GatesAgree
<1>1. IInv => GatesAgree
  <2> SUFFICES ASSUME IInv, rx = "stats"
               PROVE  /\ Len(verdicts["hb_interval"]) =
                           UpTo(Consecutive, profile["hb_interval"].n)
                      /\ "RSSI_HB_INTERVAL" \in Pair =>
                           UpTo(SampleCap, pairs["RSSI_HB_INTERVAL"].samples_total)
                             = profile["hb_interval"].n
    BY DEF GatesAgree
  <2>1. One(rx = "profile" /\ Fresh) = 0 /\ One(rx = "add" /\ Fresh) = 0
    BY DEF One
  <2>2. profile["hb_interval"].n \in Nat
    BY OfMetric, Metrics, Bounds DEF IInv
  <2>3. Interval \in Pair => pairs[Interval].samples_total \in Nat
    BY OfPair, Bounds DEF IInv
  <2>4. QED
    BY <2>1, <2>2, <2>3 DEF IInv, Gates, Interval
<1>2. QED
  BY <1>1, IInvAlways, PTL

(***************************************************************************)
(* When every profile is ready, and a divergence score is computed, every  *)
(* pair has had its samples (fingerprint_engine.c:315).                    *)
(***************************************************************************)
THEOREM ScoredPairsHaveSamplesHolds == Spec => []ScoredPairsHaveSamples
<1>1. IInv => ScoredPairsHaveSamples
  <2> SUFFICES ASSUME IInv, rx = "stats", AllReady, NEW p \in Pair
               PROVE  pairs[p].n >= PairMin
    BY DEF ScoredPairsHaveSamples
  <2>1. profile[Slowest(p)].n >= ProfileMin
    BY Metrics DEF IInv, AllReady, Ready
  <2>2. pairs[p].n \in Nat /\ profile[Slowest(p)].n \in Nat
    BY OfPair, OfMetric, Metrics, Bounds DEF IInv
  <2>3. One(rx = "add" /\ ~learning /\ p \in Sampled) = 0
    BY DEF One
  <2>4. pairs[p].n + 0 >= UpTo(PairMin, profile[Slowest(p)].n)
    BY <2>3 DEF IInv, Samples
  <2>5. QED
    BY <2>1, <2>2, <2>4, Bounds DEF UpTo
<1>2. QED
  BY <1>1, IInvAlways, PTL

-----------------------------------------------------------------------------
(* The fingerprint engine *)

(***************************************************************************)
(* A sub-score is within 0..100, whatever the z-score.                     *)
(***************************************************************************)
LEMMA SubscoreRange ==
  ASSUME NEW z \in AbsZScore, NEW ready \in BOOLEAN
  PROVE  Component(ready, z) \in [ready : BOOLEAN, sub_score : Subscore]
<1>1. z * 100 \in Nat /\ Z_SCALE \in Nat \ {0}
  BY FingerprintAssumption
<1>2. (z * 100) \div Z_SCALE \in Nat
  BY <1>1
<1>3. ZToSubscore(z) \in Subscore
  BY <1>2 DEF ZToSubscore, Subscore
<1>4. QED
  BY <1>3 DEF Component, Subscore

(***************************************************************************)
(* The score is within 0..100, and a score of 75 takes both the metric and *)
(* the correlation component.                                              *)
(***************************************************************************)
LEMMA PdsRange ==
  ASSUME NEW d \in [ready : BOOLEAN, sub_score : Subscore],
         NEW c \in [ready : BOOLEAN, sub_score : Subscore],
         NEW s \in [ready : BOOLEAN, sub_score : Subscore],
         NEW pds \in ComputePds(d, c, s)
  PROVE  /\ pds \in 0..100
         /\ pds >= 75 => d.sub_score > 0 /\ c.sub_score > 0
<1> DEFINE x == d.sub_score
           y == c.sub_score
           w == s.sub_score
<1>1. x \in 0..100 /\ y \in 0..100 /\ w \in 0..100
  BY DEF Subscore
<1>2. /\ s.ready => pds \in Truncated(40 * x + 35 * y + 25 * w, 100)
      /\ ~s.ready => pds \in Truncated(40 * x + 35 * y, 75)
  BY DEF ComputePds
<1> HIDE DEF x, y, w
<1>3. CASE s.ready
  <2> DEFINE n == 40 * x + 35 * y + 25 * w
  <2>1. n \in Nat /\ n <= 10000 /\ n >= 0
    BY <1>1
  <2>2. x = 0 => n <= 6500
    BY <1>1
  <2>3. y = 0 => n <= 6500
    BY <1>1
  <2>4. pds \in Truncated(n, 100)
    BY <1>2, <1>3
  <2> HIDE DEF n
  <2>5. pds \in 0..100 /\ 100 * pds <= n
    BY <2>1, <2>4 DEF Truncated
  <2>6. pds >= 75 => x # 0 /\ y # 0
    BY <2>1, <2>2, <2>3, <2>5
  <2>7. QED
    BY <1>1, <2>5, <2>6 DEF x, y
<1>4. CASE ~s.ready
  <2> DEFINE n == 40 * x + 35 * y
  <2>1. n \in Nat /\ n <= 7500 /\ n >= 0
    BY <1>1
  <2>2. x = 0 => n <= 4000
    BY <1>1
  <2>3. y = 0 => n <= 4000
    BY <1>1
  <2>4. pds \in Truncated(n, 75)
    BY <1>2, <1>4
  <2> HIDE DEF n
  <2>5. pds \in 0..100 /\ 75 * pds <= n
    BY <2>1, <2>4 DEF Truncated
  <2>6. pds >= 75 => x # 0 /\ y # 0
    BY <2>1, <2>2, <2>3, <2>5
  <2>7. QED
    BY <1>1, <2>5, <2>6 DEF x, y
<1>5. QED
  BY <1>3, <1>4

(***************************************************************************)
(* Two guards side by side: when one counts no more hits and no fewer      *)
(* misses than the other, and every sample anomalous to it is anomalous to *)
(* the other, then that stays so and its alert implies the other's.        *)
(***************************************************************************)
StricterThan(m, n) ==
  /\ m.consecutive_anomalous <= n.consecutive_anomalous
  /\ n.consecutive_normal <= m.consecutive_normal
  /\ m.alert_active => n.alert_active

LEMMA StricterStays ==
  ASSUME NEW m \in MetricState, NEW n \in MetricState, StricterThan(m, n),
         NEW a \in BOOLEAN, NEW b \in BOOLEAN, a => b
  PROVE  StricterThan(CheckMetric(m, a), CheckMetric(n, b))
<1> DEFINE m1 == CheckMetric(m, a)
           n1 == CheckMetric(n, b)
<1>1. \A g \in MetricState : g.consecutive_anomalous \in 0..CountCap
                           /\ g.consecutive_normal \in 0..CountCap
  BY DEF MetricState
<1>2. \A k \in 0..CountCap : CountUp(k) \in Nat /\ CountUp(k) >= 0
  BY ConsecutiveAssumption DEF CountUp
<1>3. \A j, k \in 0..CountCap : j <= k => CountUp(j) <= CountUp(k)
  BY ConsecutiveAssumption DEF CountUp
<1>4. /\ CountUp(m.consecutive_anomalous) <= CountUp(n.consecutive_anomalous)
      /\ CountUp(n.consecutive_normal) <= CountUp(m.consecutive_normal)
  BY <1>1, <1>3 DEF StricterThan
<1>5. /\ CountUp(m.consecutive_anomalous) \in Nat
      /\ CountUp(n.consecutive_anomalous) \in Nat
      /\ CountUp(m.consecutive_normal) \in Nat
      /\ CountUp(n.consecutive_normal) \in Nat
  BY <1>1, <1>2
<1>6. CASE a /\ b
  <2>1. /\ m1.consecutive_anomalous = CountUp(m.consecutive_anomalous)
        /\ n1.consecutive_anomalous = CountUp(n.consecutive_anomalous)
        /\ m1.consecutive_normal = 0
        /\ n1.consecutive_normal = 0
    BY <1>6 DEF CheckMetric
  <2>2. m1.alert_active <=>
          (m.alert_active \/ CountUp(m.consecutive_anomalous) >= Consecutive)
    BY <1>6 DEF CheckMetric
  <2>3. n1.alert_active <=>
          (n.alert_active \/ CountUp(n.consecutive_anomalous) >= Consecutive)
    BY <1>6 DEF CheckMetric
  <2>4. CountUp(m.consecutive_anomalous) >= Consecutive
          => CountUp(n.consecutive_anomalous) >= Consecutive
    BY <1>4, <1>5, ConsecutiveAssumption
  <2> HIDE DEF m1, n1
  <2>5. StricterThan(m1, n1)
    BY <1>4, <2>1, <2>2, <2>3, <2>4 DEF StricterThan
  <2>6. QED
    BY <2>5 DEF m1, n1
<1>7. CASE ~a /\ b
  <2>1. /\ m1.consecutive_anomalous = 0
        /\ n1.consecutive_anomalous = CountUp(n.consecutive_anomalous)
        /\ m1.consecutive_normal = CountUp(m.consecutive_normal)
        /\ n1.consecutive_normal = 0
    BY <1>7 DEF CheckMetric
  <2>2. m1.alert_active => m.alert_active
    BY <1>7 DEF CheckMetric
  <2>3. n.alert_active => n1.alert_active
    BY <1>7 DEF CheckMetric
  <2> HIDE DEF m1, n1
  <2>4. StricterThan(m1, n1)
    BY <1>5, <2>1, <2>2, <2>3 DEF StricterThan
  <2>5. QED
    BY <2>4 DEF m1, n1
<1>8. CASE ~a /\ ~b
  <2>1. /\ m1.consecutive_anomalous = 0
        /\ n1.consecutive_anomalous = 0
        /\ m1.consecutive_normal = CountUp(m.consecutive_normal)
        /\ n1.consecutive_normal = CountUp(n.consecutive_normal)
    BY <1>8 DEF CheckMetric
  <2>2. m1.alert_active <=>
          (m.alert_active /\ CountUp(m.consecutive_normal) < Consecutive)
    BY <1>8 DEF CheckMetric
  <2>3. n1.alert_active <=>
          (n.alert_active /\ CountUp(n.consecutive_normal) < Consecutive)
    BY <1>8 DEF CheckMetric
  <2>4. CountUp(m.consecutive_normal) < Consecutive
          => CountUp(n.consecutive_normal) < Consecutive
    BY <1>4, <1>5, ConsecutiveAssumption
  <2> HIDE DEF m1, n1
  <2>5. StricterThan(m1, n1)
    BY <1>4, <2>1, <2>2, <2>3, <2>4 DEF StricterThan
  <2>6. QED
    BY <2>5 DEF m1, n1
<1>9. QED
  BY <1>6, <1>7, <1>8

-----------------------------------------------------------------------------
ScoreIInv ==
  /\ ScoreTypeOK
  /\ GuardOrder
  /\ MultiSignal(evaluation)
  /\ MultiSignal(last_snapshot)

LEMMA ScoreIInvInit == ScoreInit => ScoreIInv
<1> SUFFICES ASSUME ScoreInit PROVE ScoreIInv
  OBVIOUS
<1>1. Quiet \in MetricState
  BY ConsecutiveAssumption DEF Quiet, MetricState
<1>2. Zeroed \in Snapshot
  BY DEF Zeroed, Snapshot, None, Subscore
<1>3. <<>> \in Seq(0..100)
  OBVIOUS
<1>4. upstream \in BOOLEAN \X BOOLEAN \X BOOLEAN
  BY DEF ScoreInit, upstream
<1>5. ScoreTypeOK
  BY <1>1, <1>2, <1>3, <1>4 DEF ScoreInit, ScoreTypeOK
<1>6. QED
  BY <1>5 DEF ScoreInit, ScoreIInv, GuardOrder, CriticalImpliesElevated, MultiSignal,
              Quiet, Zeroed

LEMMA ScoreIInvStep == ScoreIInv /\ [ScoreNext]_scoreVars => ScoreIInv'
<1> SUFFICES ASSUME ScoreIInv, [ScoreNext]_scoreVars PROVE ScoreIInv'
  OBVIOUS
<1>1. ASSUME BecomeReady PROVE ScoreIInv'
  <2>1. UNCHANGED <<elevated, critical, evaluation, last_snapshot, recentPds>>
    BY <1>1 DEF BecomeReady
  <2>2. upstream' \in BOOLEAN \X BOOLEAN \X BOOLEAN
    BY <1>1 DEF BecomeReady, ScoreIInv, ScoreTypeOK, upstream
  <2>3. QED
    BY <2>1, <2>2 DEF ScoreIInv, ScoreTypeOK, GuardOrder, CriticalImpliesElevated,
                      MultiSignal
<1>2. ASSUME NEW zd \in AbsZScore, NEW zc \in AbsZScore, NEW zs \in AbsZScore,
             EvaluateScore(zd, zc, zs)
      PROVE  ScoreIInv'
  <2> DEFINE d == Component(TRUE, zd)
             c == Component(corrReady, zc)
             s == Component(sessReady, zs)
  <2>1. PICK pds \in ComputePds(d, c, s) :
          /\ CheckAlerts(pds)
          /\ evaluation' = [pds |-> pds, metric_drift |-> d,
                            correlation_drift |-> c, session_drift |-> s,
                            alert_elevated |-> elevated'.alert_active,
                            alert_critical |-> critical'.alert_active,
                            ready |-> TRUE]
    BY <1>2 DEF EvaluateScore
  <2>2. UNCHANGED <<upstream, last_snapshot>>
    BY <1>2 DEF EvaluateScore
  <2>3. /\ d \in [ready : BOOLEAN, sub_score : Subscore]
        /\ c \in [ready : BOOLEAN, sub_score : Subscore]
        /\ s \in [ready : BOOLEAN, sub_score : Subscore]
    BY SubscoreRange DEF ScoreIInv, ScoreTypeOK, upstream
  <2> HIDE DEF d, c, s
  <2>4. pds \in 0..100 /\ (pds >= 75 => d.sub_score > 0 /\ c.sub_score > 0)
    BY <2>3, PdsRange
  <2> DEFINE over == pds >= ELEVATED
             wayOver == pds >= CRITICAL
  <2>5. over \in BOOLEAN /\ wayOver \in BOOLEAN /\ (wayOver => over)
    BY <2>4, FingerprintAssumption
  <2>6. /\ elevated' = CheckMetric(elevated, over)
        /\ critical' = CheckMetric(critical, wayOver)
        /\ recentPds' = LET q == Append(recentPds, pds)
                        IN  IF Len(q) > Consecutive THEN Tail(q) ELSE q
    BY <2>1 DEF CheckAlerts
  <2> HIDE DEF over, wayOver
  <2>7. elevated' \in MetricState /\ critical' \in MetricState
    BY <2>5, <2>6, GuardFacts DEF ScoreIInv, ScoreTypeOK
  <2>8. evaluation' \in Snapshot
    <3>1. elevated'.alert_active \in BOOLEAN /\ critical'.alert_active \in BOOLEAN
      BY <2>7 DEF MetricState
    <3>2. QED
      BY <2>1, <2>3, <2>4, <3>1 DEF Snapshot
  <2>9. recentPds' \in Seq(0..100)
    <3>1. Append(recentPds, pds) \in Seq(0..100) /\ Append(recentPds, pds) # <<>>
      BY <2>4 DEF ScoreIInv, ScoreTypeOK
    <3>2. QED
      BY <2>6, <3>1
  <2>10. ScoreTypeOK'
    BY <2>2, <2>7, <2>8, <2>9 DEF ScoreIInv, ScoreTypeOK, upstream
  <2>11. /\ critical'.consecutive_anomalous <= elevated'.consecutive_anomalous
         /\ elevated'.consecutive_normal <= critical'.consecutive_normal
         /\ critical'.alert_active => elevated'.alert_active
    <3>1. /\ elevated \in MetricState /\ critical \in MetricState
          /\ StricterThan(critical, elevated)
      BY DEF ScoreIInv, ScoreTypeOK, GuardOrder, CriticalImpliesElevated, StricterThan
    <3>2. StricterThan(critical', elevated')
      BY <2>5, <2>6, <3>1, StricterStays
    <3>3. QED
      BY <3>2 DEF StricterThan
  <2>12. GuardOrder'
    BY <2>1, <2>2, <2>11 DEF ScoreIInv, GuardOrder, CriticalImpliesElevated
  <2>13. MultiSignal(evaluation)' /\ MultiSignal(last_snapshot)'
    BY <2>1, <2>2, <2>4 DEF ScoreIInv, MultiSignal
  <2>14. QED
    BY <2>10, <2>12, <2>13 DEF ScoreIInv
<1>3. ASSUME Publish PROVE ScoreIInv'
  <2>1. /\ last_snapshot' = evaluation
        /\ evaluation' = Zeroed
        /\ UNCHANGED <<upstream, elevated, critical, recentPds>>
    BY <1>3 DEF Publish
  <2>2. Zeroed \in Snapshot
    BY DEF Zeroed, Snapshot, None, Subscore
  <2>3. ScoreTypeOK'
    BY <2>1, <2>2 DEF ScoreIInv, ScoreTypeOK, upstream
  <2>4. QED
    BY <2>1, <2>3 DEF ScoreIInv, GuardOrder, CriticalImpliesElevated, MultiSignal,
                      Zeroed
<1>4. ASSUME UNCHANGED scoreVars PROVE ScoreIInv'
  BY <1>4 DEF scoreVars, upstream, ScoreIInv, ScoreTypeOK, GuardOrder,
              CriticalImpliesElevated, MultiSignal
<1>5. QED
  BY <1>1, <1>2, <1>3, <1>4 DEF ScoreNext

(***************************************************************************)
(* Type correctness: in particular the published score stays in 0..100     *)
(* (fingerprint_engine.c:225-242, 312-367).                                *)
(***************************************************************************)
THEOREM FingerprintTypeCorrect == ScoreSpec => []ScoreTypeOK
<1>1. ScoreIInv => ScoreTypeOK
  BY DEF ScoreIInv
<1>2. QED
  BY ScoreIInvInit, ScoreIInvStep, <1>1, PTL DEF ScoreSpec

(***************************************************************************)
(* A critical divergence is always shown as an elevated one too, for any   *)
(* thresholds and any guard length (fingerprint_engine.c:246-297).         *)
(***************************************************************************)
THEOREM CriticalImpliesElevatedHolds == ScoreSpec => []CriticalImpliesElevated
<1>1. ScoreIInv => CriticalImpliesElevated
  BY DEF ScoreIInv, GuardOrder
<1>2. QED
  BY ScoreIInvInit, ScoreIInvStep, <1>1, PTL DEF ScoreSpec

(***************************************************************************)
(* No published score of 75 or more comes from a single component,         *)
(* whatever the z-scores (fingerprint_engine.h:27, .c:225-242).            *)
(***************************************************************************)
THEOREM CriticalIsMultiSignalHolds == ScoreSpec => []CriticalIsMultiSignal
<1>1. ScoreIInv => CriticalIsMultiSignal
  BY DEF ScoreIInv, CriticalIsMultiSignal
<1>2. QED
  BY ScoreIInvInit, ScoreIInvStep, <1>1, PTL DEF ScoreSpec

-----------------------------------------------------------------------------
(* The two alerts refine AlertPolicy on the scores. *)

\* The verdicts of a threshold on the scores r.
Reaches(r, threshold) == [i \in DOMAIN r |-> r[i] >= threshold]

LEMMA ReachesSeq ==
  ASSUME NEW r \in Seq(0..100), NEW threshold \in Nat
  PROVE  /\ Reaches(r, threshold) \in Seq(BOOLEAN)
         /\ Len(Reaches(r, threshold)) = Len(r)
         /\ \A i \in 1..Len(r) : Reaches(r, threshold)[i] = (r[i] >= threshold)
<1>1. DOMAIN r = 1..Len(r) /\ Len(r) \in Nat
  OBVIOUS
<1>2. \A i \in 1..Len(r) : (r[i] >= threshold) \in BOOLEAN
  OBVIOUS
<1>3. Reaches(r, threshold) \in [1..Len(r) -> BOOLEAN]
  BY <1>1, <1>2 DEF Reaches
<1>4. QED
  BY <1>1, <1>3 DEF Reaches

LEMMA SameSeq ==
  ASSUME NEW s \in Seq(BOOLEAN), NEW t \in Seq(BOOLEAN), Len(s) = Len(t),
         \A i \in 1..Len(s) : s[i] = t[i]
  PROVE  s = t
OBVIOUS

(***************************************************************************)
(* The scores kept are those that the verdicts kept are about.             *)
(***************************************************************************)
LEMMA ReachesStep ==
  ASSUME NEW r \in Seq(0..100), NEW pds \in 0..100, NEW threshold \in Nat
  PROVE  LET t == Append(r, pds)
         IN  Reaches(IF Len(t) > Consecutive THEN Tail(t) ELSE t, threshold)
               = LastVerdicts(Reaches(r, threshold), pds >= threshold)
<1> DEFINE t == Append(r, pds)
           v == Reaches(r, threshold)
           w == Append(v, pds >= threshold)
<1>1. /\ t \in Seq(0..100) /\ Len(t) = Len(r) + 1 /\ t # <<>> /\ Len(r) \in Nat
      /\ \A i \in 1..Len(t) : t[i] = IF i = Len(t) THEN pds ELSE r[i]
  OBVIOUS
<1>2. /\ v \in Seq(BOOLEAN) /\ Len(v) = Len(r)
      /\ \A i \in 1..Len(r) : v[i] = (r[i] >= threshold)
  BY ReachesSeq
<1> HIDE DEF t, v
<1>3. /\ w \in Seq(BOOLEAN) /\ Len(w) = Len(t) /\ w # <<>>
      /\ \A i \in 1..Len(t) : w[i] = (t[i] >= threshold)
  <2>1. (pds >= threshold) \in BOOLEAN
    OBVIOUS
  <2>2. /\ w \in Seq(BOOLEAN) /\ Len(w) = Len(v) + 1
        /\ \A i \in 1..Len(w) : w[i] = IF i = Len(w) THEN pds >= threshold ELSE v[i]
    BY <1>2, <2>1
  <2>3. QED
    BY <1>1, <1>2, <2>2
<1> HIDE DEF w
<1>4. Reaches(t, threshold) = w
  <2>1. /\ Reaches(t, threshold) \in Seq(BOOLEAN)
        /\ Len(Reaches(t, threshold)) = Len(t)
        /\ \A i \in 1..Len(t) : Reaches(t, threshold)[i] = (t[i] >= threshold)
    BY <1>1, ReachesSeq
  <2>2. QED
    BY <1>3, <2>1, SameSeq
<1>5. Reaches(Tail(t), threshold) = Tail(w)
  <2>1. /\ Tail(t) \in Seq(0..100) /\ Len(Tail(t)) = Len(t) - 1
        /\ \A i \in 1..(Len(t) - 1) : Tail(t)[i] = t[i + 1]
    BY <1>1
  <2>2. /\ Tail(w) \in Seq(BOOLEAN) /\ Len(Tail(w)) = Len(t) - 1
        /\ \A i \in 1..(Len(t) - 1) : Tail(w)[i] = w[i + 1]
    BY <1>3
  <2>3. /\ Reaches(Tail(t), threshold) \in Seq(BOOLEAN)
        /\ Len(Reaches(Tail(t), threshold)) = Len(Tail(t))
        /\ \A i \in 1..Len(Tail(t)) :
             Reaches(Tail(t), threshold)[i] = (Tail(t)[i] >= threshold)
    BY <2>1, ReachesSeq
  <2>4. \A i \in 1..(Len(t) - 1) : Reaches(Tail(t), threshold)[i] = Tail(w)[i]
    BY <1>1, <1>3, <2>1, <2>2, <2>3
  <2>5. QED
    BY <2>1, <2>2, <2>3, <2>4, SameSeq
<1>6. LastVerdicts(v, pds >= threshold)
        = IF Len(t) > Consecutive THEN Tail(w) ELSE w
  BY <1>3 DEF LastVerdicts, w
<1>7. QED
  BY <1>4, <1>5, <1>6 DEF t, v

ScoreFollowed ==
  /\ Follows(elevated, Over(ELEVATED))
  /\ Follows(critical, Over(CRITICAL))

LEMMA ScoreFollowedInit == ScoreInit => ScoreFollowed
<1>1. \A n : Over(n) = [i \in DOMAIN recentPds |-> recentPds[i] >= n]
  BY DEF Over
<1>2. ASSUME ScoreInit, NEW n PROVE Over(n) = <<>>
  BY <1>1, <1>2 DEF ScoreInit
<1>3. QED
  BY <1>2, QuietFollows DEF ScoreInit, ScoreFollowed

(***************************************************************************)
(* An evaluation gives each guard the verdict of its threshold; no other   *)
(* step touches a guard.                                                   *)
(***************************************************************************)
LEMMA ScoreFollowedStep ==
  ASSUME ScoreIInv, ScoreFollowed, [ScoreNext]_scoreVars
  PROVE  /\ ScoreFollowed'
         /\ Guards(Over(ELEVATED), elevated.alert_active,
                   Over(ELEVATED)', elevated'.alert_active)
         /\ Guards(Over(CRITICAL), critical.alert_active,
                   Over(CRITICAL)', critical'.alert_active)
<1>1. /\ elevated \in MetricState /\ critical \in MetricState
      /\ recentPds \in Seq(0..100) /\ ELEVATED \in Nat /\ CRITICAL \in Nat
  BY FingerprintAssumption DEF ScoreIInv, ScoreTypeOK
<1>2. ASSUME NEW zd \in AbsZScore, NEW zc \in AbsZScore, NEW zs \in AbsZScore,
             EvaluateScore(zd, zc, zs)
      PROVE  \E pds \in 0..100 : CheckAlerts(pds)
  <2> DEFINE d == Component(TRUE, zd)
             c == Component(corrReady, zc)
             s == Component(sessReady, zs)
  <2>1. PICK pds \in ComputePds(d, c, s) : CheckAlerts(pds)
    BY <1>2 DEF EvaluateScore
  <2>2. /\ d \in [ready : BOOLEAN, sub_score : Subscore]
        /\ c \in [ready : BOOLEAN, sub_score : Subscore]
        /\ s \in [ready : BOOLEAN, sub_score : Subscore]
    BY SubscoreRange DEF ScoreIInv, ScoreTypeOK, upstream
  <2> HIDE DEF d, c, s
  <2>3. QED
    BY <2>1, <2>2, PdsRange
<1>3. ASSUME NEW pds \in 0..100, CheckAlerts(pds)
      PROVE  /\ elevated' = CheckMetric(elevated, pds >= ELEVATED)
             /\ Over(ELEVATED)' = LastVerdicts(Over(ELEVATED), pds >= ELEVATED)
             /\ critical' = CheckMetric(critical, pds >= CRITICAL)
             /\ Over(CRITICAL)' = LastVerdicts(Over(CRITICAL), pds >= CRITICAL)
  <2>1. /\ Over(ELEVATED) = Reaches(recentPds, ELEVATED)
        /\ Over(CRITICAL) = Reaches(recentPds, CRITICAL)
        /\ Over(ELEVATED)' = Reaches(recentPds', ELEVATED)
        /\ Over(CRITICAL)' = Reaches(recentPds', CRITICAL)
    BY DEF Over, Reaches
  <2>2. recentPds' = LET t == Append(recentPds, pds)
                     IN  IF Len(t) > Consecutive THEN Tail(t) ELSE t
    BY <1>3 DEF CheckAlerts
  <2>3. QED
    BY <1>1, <1>3, <2>1, <2>2, ReachesStep DEF CheckAlerts
<1>4. ASSUME NEW pds \in 0..100, CheckAlerts(pds)
      PROVE  /\ ScoreFollowed'
             /\ Guards(Over(ELEVATED), elevated.alert_active,
                       Over(ELEVATED)', elevated'.alert_active)
             /\ Guards(Over(CRITICAL), critical.alert_active,
                       Over(CRITICAL)', critical'.alert_active)
  <2>1. (pds >= ELEVATED) \in BOOLEAN /\ (pds >= CRITICAL) \in BOOLEAN
    BY <1>1
  <2>2. /\ Follows(elevated', Over(ELEVATED)')
        /\ Guards(Over(ELEVATED), elevated.alert_active,
                  Over(ELEVATED)', elevated'.alert_active)
    BY <1>1, <1>3, <1>4, <2>1, GuardFollows DEF ScoreFollowed
  <2>3. /\ Follows(critical', Over(CRITICAL)')
        /\ Guards(Over(CRITICAL), critical.alert_active,
                  Over(CRITICAL)', critical'.alert_active)
    BY <1>1, <1>3, <1>4, <2>1, GuardFollows DEF ScoreFollowed
  <2>4. QED
    BY <2>2, <2>3 DEF ScoreFollowed
<1>5. ASSUME UNCHANGED <<elevated, critical, recentPds>>
      PROVE  /\ ScoreFollowed'
             /\ Guards(Over(ELEVATED), elevated.alert_active,
                       Over(ELEVATED)', elevated'.alert_active)
             /\ Guards(Over(CRITICAL), critical.alert_active,
                       Over(CRITICAL)', critical'.alert_active)
  BY <1>5 DEF ScoreFollowed, Over, Guards
<1>6. CASE \E zd, zc, zs \in AbsZScore : EvaluateScore(zd, zc, zs)
  BY <1>2, <1>4, <1>6
<1>7. CASE BecomeReady \/ Publish \/ UNCHANGED scoreVars
  BY <1>5, <1>7 DEF BecomeReady, Publish, scoreVars
<1>8. QED
  BY <1>6, <1>7 DEF ScoreNext

LEMMA ElevatedFollowsPolicy == ScoreSpec => ElevatedPolicy!Spec
<1> DEFINE s == Over(ELEVATED)
           a == elevated.alert_active
<1>1. ScoreInit => ElevatedPolicy!Init
  <2> SUFFICES ASSUME ScoreInit PROVE s = <<>> /\ a = FALSE
    BY DEF ElevatedPolicy!Init
  <2>1. recentPds = <<>> /\ elevated = Quiet
    BY DEF ScoreInit
  <2>2. QED
    BY <2>1 DEF Over, Quiet
<1>2. ScoreIInv /\ ScoreFollowed /\ [ScoreNext]_scoreVars => ScoreIInv' /\ ScoreFollowed'
  BY ScoreIInvStep, ScoreFollowedStep
<1>3. ScoreIInv /\ ScoreIInv' /\ ScoreFollowed /\ [ScoreNext]_scoreVars => [ElevatedPolicy!Next]_<<s, a>>
  <2> SUFFICES ASSUME ScoreIInv, ScoreIInv', ScoreFollowed, [ScoreNext]_scoreVars, s' # s \/ a' # a
               PROVE  \E v \in BOOLEAN : ElevatedPolicy!Sample(v)
    BY DEF ElevatedPolicy!Next
  <2>1. s \in Seq(BOOLEAN)
    BY DEF ScoreFollowed, Follows
  <2>2. a' \in BOOLEAN
    BY DEF ScoreIInv, ScoreTypeOK, MetricState
  <2>3. Guards(s, a, s', a')
    BY ScoreFollowedStep
  <2> HIDE DEF s, a
  <2>4. PolicyStep(s, a, s', a')
    BY <2>1, <2>2, <2>3, GuardsPolicy
  <2>5. QED
    BY <2>4 DEF PolicyStep, s, a, ElevatedPolicy!Sample, ElevatedPolicy!Window, ElevatedPolicy!FullRun
<1>4. QED
  BY <1>1, <1>2, <1>3, ScoreIInvInit, ScoreFollowedInit, PTL DEF ScoreSpec, ElevatedPolicy!Spec

LEMMA CriticalFollowsPolicy == ScoreSpec => CriticalPolicy!Spec
<1> DEFINE s == Over(CRITICAL)
           a == critical.alert_active
<1>1. ScoreInit => CriticalPolicy!Init
  <2> SUFFICES ASSUME ScoreInit PROVE s = <<>> /\ a = FALSE
    BY DEF CriticalPolicy!Init
  <2>1. recentPds = <<>> /\ critical = Quiet
    BY DEF ScoreInit
  <2>2. QED
    BY <2>1 DEF Over, Quiet
<1>2. ScoreIInv /\ ScoreFollowed /\ [ScoreNext]_scoreVars => ScoreIInv' /\ ScoreFollowed'
  BY ScoreIInvStep, ScoreFollowedStep
<1>3. ScoreIInv /\ ScoreIInv' /\ ScoreFollowed /\ [ScoreNext]_scoreVars => [CriticalPolicy!Next]_<<s, a>>
  <2> SUFFICES ASSUME ScoreIInv, ScoreIInv', ScoreFollowed, [ScoreNext]_scoreVars, s' # s \/ a' # a
               PROVE  \E v \in BOOLEAN : CriticalPolicy!Sample(v)
    BY DEF CriticalPolicy!Next
  <2>1. s \in Seq(BOOLEAN)
    BY DEF ScoreFollowed, Follows
  <2>2. a' \in BOOLEAN
    BY DEF ScoreIInv, ScoreTypeOK, MetricState
  <2>3. Guards(s, a, s', a')
    BY ScoreFollowedStep
  <2> HIDE DEF s, a
  <2>4. PolicyStep(s, a, s', a')
    BY <2>1, <2>2, <2>3, GuardsPolicy
  <2>5. QED
    BY <2>4 DEF PolicyStep, s, a, CriticalPolicy!Sample, CriticalPolicy!Window, CriticalPolicy!FullRun
<1>4. QED
  BY <1>1, <1>2, <1>3, ScoreIInvInit, ScoreFollowedInit, PTL DEF ScoreSpec, CriticalPolicy!Spec

(***************************************************************************)
(* Each of the two alerts implements AlertPolicy on the scores, for any    *)
(* thresholds and any guard length (fingerprint_engine.h:60-66,            *)
(* fingerprint_engine.c:246-297).                                          *)
(***************************************************************************)
THEOREM ScoreAlertsFollowPolicyHolds == ScoreSpec => ScoreAlertsFollowPolicy
BY ElevatedFollowsPolicy, CriticalFollowsPolicy, PTL DEF ScoreAlertsFollowPolicy

=============================================================================
