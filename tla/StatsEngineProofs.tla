------------------------- MODULE StatsEngineProofs --------------------------
(***************************************************************************)
(* Proofs about StatsEngine, for every learning time, interval limit and   *)
(* rate limit and any number of heartbeats and reconnects, as long as the  *)
(* clock does not wrap before the learning phase can end.                  *)
(***************************************************************************)
EXTENDS StatsEngine, TLAPS

NoWrap == MaxTime + Learning < ClockMod

(***************************************************************************)
(* What two states of the camera, one before the other, have in common:    *)
(* the total grows, and the counter with it until a reboot clears it.      *)
(***************************************************************************)
Behind(a, b) ==
  /\ a.total <= b.total
  /\ a.rebooted => b.rebooted
  /\ a.rebooted = b.rebooted => b.count - a.count = b.total - a.total
  /\ b.count - a.count <= b.total - a.total
  /\ ~a.rebooted /\ b.rebooted => b.count <= b.total - a.total

Start == [count |-> 0, total |-> 0, rebooted |-> FALSE]

\* What is in the network is between the last heartbeat and the camera.
Chain ==
  /\ Behind(Start, camera)
  /\ Behind(heard.first, heard.last)
  /\ Behind(heard.last, camera)
  /\ \A i \in 1..Len(network) :
       Behind(heard.last, network[i]) /\ Behind(network[i], camera)
  /\ \A i, j \in 1..Len(network) : i < j => Behind(network[i], network[j])

\* The counter that the next one is compared with is that of a heartbeat, and
\* the reconnects up to that one are in samples.
Baseline(base) ==
  /\ base.count = last_reconnect_count
  /\ Behind(heard.first, base)
  /\ Behind(base, heard.last)
  /\ accounted <= base.total - heard.first.total
  /\ ~heard.last.rebooted => accounted = base.total - heard.first.total

Accounts ==
  IF first_sample
  THEN /\ last_reconnect_count = NotSeen
       /\ accounted = 0
       /\ heard.first = Start /\ heard.last = Start
  ELSE /\ last_reconnect_count # NotSeen
       /\ \E base \in Camera : Baseline(base)

\* The ticks the code keeps are the true times the ghosts keep.
Timing ==
  IF first_sample
  THEN /\ samples_total = 0
       /\ ~learning_done
       /\ heard.prevAt = 0 /\ heard.lastAt = 0
  ELSE /\ samples_total > 0
       /\ learning_end_ms = heard.firstAt + Learning
       /\ last_rx_ms = heard.lastAt
       /\ heard.firstAt <= heard.lastAt
       /\ heard.prevAt <= heard.lastAt
       /\ heard.lastAt <= time

IInv == TypeOK /\ Chain /\ Accounts /\ Timing /\ LearningExact /\ IntervalIsGap

-----------------------------------------------------------------------------
LEMMA BehindTransitive ==
  ASSUME NEW a \in Camera, NEW b \in Camera, NEW c \in Camera,
         Behind(a, b), Behind(b, c)
  PROVE  Behind(a, c)
BY DEF Camera, Behind

LEMMA BehindReflexive == ASSUME NEW a \in Camera PROVE Behind(a, a)
BY DEF Camera, Behind

(***************************************************************************)
(* Within one lap of the clock a subtraction of ticks is one of times.     *)
(***************************************************************************)
LEMMA SmallModulo ==
  ASSUME NEW k \in 0..ClockMod - 1
  PROVE  k % ClockMod = k
BY StatsAssumption

LEMMA NowValue == ASSUME NoWrap, TypeOK PROVE now_ms = time
BY SmallModulo, StatsAssumption DEF NoWrap, TypeOK, now_ms

LEMMA SinceValue ==
  ASSUME NoWrap, TypeOK, NEW then \in 0..time
  PROVE  Since(then) = time - then
BY NowValue, SmallModulo, StatsAssumption DEF NoWrap, TypeOK, Since

LEMMA IInvInit == Init => IInv
<1> SUFFICES ASSUME Init PROVE IInv
  OBVIOUS
<1>1. TypeOK
  <2>1. camera \in Camera
    BY StatsAssumption DEF Init, Camera
  <2>2. heard \in [firstAt : 0..MaxTime, prevAt : 0..MaxTime,
                  lastAt : 0..MaxTime, first : Camera, last : Camera]
    BY <2>1, StatsAssumption DEF Init
  <2>3. network \in Seq(Camera) /\ Len(network) = 0
    BY DEF Init
  <2>4. hb_interval \in [count : 0..SampleCap, latest : 0..IntervalClamp - 1]
    BY StatsAssumption DEF Init
  <2>5. 0 \in Clock /\ 0 \in 0..MaxTime /\ 0 \in 0..SampleCap /\ 0 \in 0..MaxReconnects
    BY StatsAssumption DEF Clock
  <2>6. Len(network) <= MaxInFlight
    BY <2>3, StatsAssumption
  <2>7. QED
    BY <2>1, <2>2, <2>3, <2>4, <2>5, <2>6 DEF Init, TypeOK
<1>2. Chain
  <2>1. heard.first = camera /\ heard.last = camera
    BY DEF Init
  <2>2. Behind(camera, camera) /\ Behind(Start, camera)
    BY DEF Init, Behind, Start
  <2>3. Len(network) = 0
    BY DEF Init
  <2>4. QED
    BY <2>1, <2>2, <2>3 DEF Chain
<1>3. Accounts /\ Timing
  BY DEF Init, Accounts, Timing, Start
<1>4. LearningExact /\ IntervalIsGap
  BY StatsAssumption DEF Init, LearningExact, IntervalIsGap
<1>5. QED
  BY <1>1, <1>2, <1>3, <1>4 DEF IInv

-----------------------------------------------------------------------------
(***************************************************************************)
(* The learning timer and the interval, on any heartbeat.                  *)
(***************************************************************************)
LEMMA UpdateTiming ==
  ASSUME NoWrap, IInv, NEW hb \in Camera, Update(hb), UNCHANGED time
  PROVE  /\ learning_end_ms' \in Clock /\ learning_done' \in BOOLEAN
         /\ samples_total' \in 0..SampleCap
         /\ last_rx_ms' \in Clock /\ first_sample' = FALSE
         /\ hb_interval' \in [count : 0..SampleCap, latest : 0..IntervalClamp - 1]
         /\ heard' \in [firstAt : 0..MaxTime, prevAt : 0..MaxTime,
                        lastAt : 0..MaxTime, first : Camera, last : Camera]
         /\ Timing' /\ LearningExact' /\ IntervalIsGap'
<1>1. TypeOK /\ Timing /\ LearningExact /\ IntervalIsGap
  BY DEF IInv
<1>2. now_ms = time /\ time \in 0..MaxTime
  BY <1>1, NowValue DEF TypeOK
<1>3. heard' = [firstAt |-> IF first_sample THEN time ELSE heard.firstAt,
                prevAt  |-> IF first_sample THEN time ELSE heard.lastAt,
                lastAt  |-> time,
                first   |-> IF first_sample THEN hb ELSE heard.first,
                last    |-> hb]
  BY DEF Update
<1>4. heard' \in [firstAt : 0..MaxTime, prevAt : 0..MaxTime,
                 lastAt : 0..MaxTime, first : Camera, last : Camera]
  BY <1>1, <1>2, <1>3 DEF TypeOK
<1>5. samples_total' = UpTo(SampleCap, samples_total + 1)
  BY DEF Update
<1>6. /\ samples_total' \in 1..SampleCap
      /\ samples_total > 0 => samples_total' > 1
      /\ samples_total = 0 => samples_total' = 1
  BY <1>1, <1>5, StatsAssumption DEF UpTo, TypeOK
<1>7. samples_total = 0 <=> first_sample
  BY <1>1 DEF TypeOK, Timing
<1>8. /\ learning_end_ms' = heard'.firstAt + Learning
      /\ learning_end_ms' \in Clock
      /\ learning_done' = (learning_done \/ (~learning_done /\ time >= learning_end_ms'
                                              /\ samples_total > 0))
  <2>1. samples_total = 0 => (now_ms + Learning) % ClockMod = time + Learning
    BY <1>2, SmallModulo, StatsAssumption DEF NoWrap
  <2>2. learning_end_ms' = IF first_sample THEN time + Learning ELSE learning_end_ms
    BY <1>7, <2>1 DEF Update, UpdateLearning
  <2>3. learning_end_ms' = heard'.firstAt + Learning
    BY <1>1, <1>3, <2>2 DEF Timing
  <2>4. learning_done' = (learning_done \/ (~learning_done /\ time >= learning_end_ms'
                                              /\ samples_total > 0))
    BY <1>2 DEF Update, UpdateLearning
  <2>5. learning_end_ms' \in Clock
    BY <1>4, <2>3, StatsAssumption DEF NoWrap, Clock
  <2>6. QED
    BY <2>3, <2>4, <2>5
<1>9. first_sample' = FALSE /\ last_rx_ms' = time
  BY <1>2 DEF Update, UpdateInterval
<1>10. Timing'
  BY <1>1, <1>2, <1>3, <1>6, <1>8, <1>9 DEF Timing, TypeOK
<1>11. LearningExact'
  <2>1. heard'.lastAt = time
    BY <1>3
  <2>2. CASE first_sample
    <3>1. ~(samples_total' > 1) /\ ~learning_done /\ ~(samples_total > 0)
      BY <1>1, <1>6, <2>2 DEF Timing
    <3>2. ~learning_done'
      BY <1>8, <3>1
    <3>3. QED
      BY <3>1, <3>2 DEF LearningExact
  <2>3. CASE ~first_sample
    <3>1. heard'.firstAt = heard.firstAt /\ samples_total' > 1 /\ samples_total > 0
      BY <1>1, <1>3, <1>6, <2>3 DEF Timing
    <3>2. learning_done' <=> learning_done \/ time >= heard.firstAt + Learning
      BY <1>8, <3>1
    <3>3. learning_done => time >= heard.firstAt + Learning
      BY <1>1, <1>2, <2>3, StatsAssumption DEF Timing, LearningExact, TypeOK
    <3>4. time >= heard.firstAt + Learning <=> time - heard.firstAt >= Learning
      BY <1>1, <1>2, StatsAssumption DEF TypeOK
    <3>5. QED
      BY <2>1, <3>1, <3>2, <3>3, <3>4 DEF LearningExact
  <2>4. QED
    BY <2>2, <2>3
<1>12. ASSUME ~first_sample PROVE Since(last_rx_ms) = time - heard.lastAt
  BY <1>1, <1>12, SinceValue DEF Timing, TypeOK
<1>13. /\ hb_interval' \in [count : 0..SampleCap, latest : 0..IntervalClamp - 1]
       /\ IntervalIsGap'
  <2>1. CASE first_sample
    BY <1>1, <1>2, <1>3, <2>1, StatsAssumption
       DEF Update, UpdateInterval, IntervalIsGap, TypeOK
  <2>2. CASE ~first_sample
    <3>1. hb_interval' =
            IF time - heard.lastAt > 0 /\ time - heard.lastAt < IntervalClamp
            THEN [count  |-> UpTo(SampleCap, hb_interval.count + 1),
                  latest |-> time - heard.lastAt]
            ELSE hb_interval
      BY <1>12, <2>2 DEF Update, UpdateInterval
    <3>2. UpTo(SampleCap, hb_interval.count + 1) \in 0..SampleCap
      BY <1>1, StatsAssumption DEF UpTo, TypeOK
    <3>3. time - heard.lastAt \in Int
      BY <1>1 DEF TypeOK
    <3>4. QED
      BY <1>1, <1>2, <1>3, <2>2, <3>1, <3>2, <3>3, StatsAssumption
         DEF IntervalIsGap, TypeOK
  <2>3. QED
    BY <2>1, <2>2
<1>14. last_rx_ms' \in Clock
  BY <1>2, <1>9, StatsAssumption DEF NoWrap, Clock
<1>15. learning_done' \in BOOLEAN
  BY <1>8
<1>16. QED
  BY <1>4, <1>6, <1>8, <1>9, <1>10, <1>11, <1>13, <1>14, <1>15

(***************************************************************************)
(* The reconnects, on a heartbeat sent after the last one processed.       *)
(***************************************************************************)
LEMMA UpdateAccounts ==
  ASSUME NoWrap, IInv, NEW hb \in Camera, Behind(heard.last, hb), Update(hb),
         heard' \in [firstAt : 0..MaxTime, prevAt : 0..MaxTime,
                    lastAt : 0..MaxTime, first : Camera, last : Camera]
  PROVE  /\ last_reconnect_count' \in 0..MaxReconnects
         /\ reconnect_window_start_ms' \in Clock
         /\ accounted' \in 0..MaxReconnects
         /\ Accounts'
         /\ Behind(heard'.first, heard'.last)
<1> DEFINE first == heard'.first
           seen  == last_reconnect_count # NotSeen
           delta == IF hb.count > last_reconnect_count
                    THEN hb.count - last_reconnect_count ELSE 0
<1>1. TypeOK /\ Accounts /\ Chain
  BY DEF IInv
<1>2. /\ heard'.last = hb
      /\ first = IF first_sample THEN hb ELSE heard.first
      /\ first_sample' = FALSE
  BY DEF Update, UpdateInterval
<1>3. hb.count \in 0..MaxReconnects /\ hb.total \in 0..MaxReconnects
  BY DEF Camera
<1>4. now_ms \in Clock
  BY <1>1, NowValue, StatsAssumption DEF NoWrap, TypeOK, Clock
<1>5. Behind(first, hb)
  BY <1>1, <1>2, BehindReflexive, BehindTransitive DEF Chain, TypeOK
<1>6. CASE ~seen
  <2>1. first_sample /\ accounted = 0 /\ first = hb
    BY <1>1, <1>2, <1>6 DEF Accounts
  <2>2. /\ last_reconnect_count' = hb.count
        /\ reconnect_window_start_ms' = now_ms
        /\ accounted' = 0
    BY <1>6, <2>1 DEF Update, UpdateReconnects
  <2>3. Baseline(hb)'
    BY <1>2, <1>3, <1>5, <2>1, <2>2, BehindReflexive DEF Baseline
  <2>4. Accounts'
    BY <1>2, <1>3, <2>2, <2>3 DEF Accounts, NotSeen
  <2>5. QED
    BY <1>2, <1>3, <1>4, <1>5, <2>2, <2>4, StatsAssumption
<1>7. CASE seen
  <2>1. ~first_sample /\ first = heard.first
    BY <1>1, <1>2, <1>7 DEF Accounts
  <2>2. PICK base \in Camera : Baseline(base)
    BY <1>1, <2>1 DEF Accounts
  <2>3. Behind(base, hb)
    BY <1>1, <2>2, BehindTransitive DEF Baseline, TypeOK
  <2>4. hb.rebooted \/ ~heard.last.rebooted
    BY DEF Behind
  <2>5. CASE Since(reconnect_window_start_ms) < RateMin
    <3>1. UNCHANGED <<last_reconnect_count, reconnect_window_start_ms, accounted>>
      BY <1>7, <2>5 DEF Update, UpdateReconnects
    <3>2. Baseline(base)'
      BY <1>2, <2>1, <2>2, <2>3, <2>4, <3>1 DEF Baseline
    <3>3. /\ last_reconnect_count \in 0..MaxReconnects
          /\ reconnect_window_start_ms \in Clock
          /\ accounted \in 0..MaxReconnects
      BY <1>1, <1>7 DEF TypeOK
    <3>4. Accounts'
      BY <1>2, <1>7, <3>1, <3>2 DEF Accounts
    <3>5. Behind(heard'.first, heard'.last)
      BY <1>2, <1>5
    <3>6. QED
      BY <3>1, <3>3, <3>4, <3>5
  <2>6. CASE ~(Since(reconnect_window_start_ms) < RateMin)
    <3>1. /\ last_reconnect_count' = hb.count
          /\ reconnect_window_start_ms' = now_ms
          /\ accounted' = accounted + delta
      BY <1>7, <2>6 DEF Update, UpdateReconnects
    <3>2. /\ delta \in Nat
          /\ delta <= hb.total - base.total
          /\ ~hb.rebooted => delta = hb.total - base.total
      <4>1. /\ base.count = last_reconnect_count
            /\ base.total <= hb.total
            /\ hb.count - base.count <= hb.total - base.total
            /\ ~hb.rebooted => hb.count - base.count = hb.total - base.total
        BY <2>2, <2>3 DEF Baseline, Behind, Camera
      <4>2. base.count \in Int /\ base.total \in Int
        BY DEF Camera
      <4>3. QED
        BY <1>3, <4>1, <4>2
    <3>3. /\ accounted' \in Nat
          /\ accounted' <= hb.total - first.total
          /\ ~hb.rebooted => accounted' = hb.total - first.total
      <4>1. /\ accounted <= base.total - first.total
            /\ ~hb.rebooted => accounted = base.total - first.total
        BY <2>1, <2>2, <2>4 DEF Baseline
      <4>2. accounted \in Nat /\ base.total \in Int /\ first.total \in Int
        BY <1>1, <2>1 DEF TypeOK, Camera
      <4>3. QED
        BY <1>3, <3>1, <3>2, <4>1, <4>2
    <3>4. accounted' \in 0..MaxReconnects
      <4>1. first.total \in Nat
        BY <1>1, <2>1 DEF TypeOK, Camera
      <4>2. QED
        BY <1>3, <3>3, <4>1, StatsAssumption
    <3>5. Baseline(hb)'
      BY <1>2, <1>5, <3>1, <3>3, BehindReflexive DEF Baseline
    <3>6. Accounts'
      BY <1>2, <1>3, <3>1, <3>5 DEF Accounts, NotSeen
    <3>7. QED
      BY <1>2, <1>3, <1>4, <1>5, <3>1, <3>4, <3>6
  <2>7. QED
    BY <2>5, <2>6
<1>8. QED
  BY <1>6, <1>7

(***************************************************************************)
(* Processing the head of the network, whether it is then taken off or     *)
(* kept for a second time.                                                 *)
(***************************************************************************)
LEMMA UpdateStep ==
  ASSUME NoWrap, IInv, network # <<>>, Update(Head(network)),
         network' \in {network, Tail(network)}, UNCHANGED <<time, camera>>
  PROVE  IInv'
<1> DEFINE hb == Head(network)
<1>1. TypeOK /\ Chain
  BY DEF IInv
<1>2. /\ Len(network) \in Nat \ {0}
      /\ hb = network[1] /\ hb \in Camera
      /\ \A i \in 1..Len(network) : network[i] \in Camera
  BY <1>1 DEF TypeOK
<1>3. Behind(heard.last, hb) /\ Behind(hb, camera)
  BY <1>1, <1>2 DEF Chain
<1>4. \A i \in 1..Len(network) : Behind(hb, network[i])
  BY <1>1, <1>2, BehindReflexive DEF Chain
<1>5. /\ Tail(network) \in Seq(Camera)
      /\ Len(Tail(network)) = Len(network) - 1
      /\ \A i \in 1..Len(network) - 1 : Tail(network)[i] = network[i + 1]
  BY <1>1, <1>2 DEF TypeOK
<1>6. /\ network' \in Seq(Camera) /\ Len(network') <= MaxInFlight
      /\ \A i \in 1..Len(network') :
           LET k == IF network' = network THEN i ELSE i + 1
           IN  k \in 1..Len(network) /\ network'[i] = network[k]
  <2>1. CASE network' = network
    BY <1>1, <2>1 DEF TypeOK
  <2>2. CASE network' = Tail(network)
    <3>1. /\ network' \in Seq(Camera)
          /\ Len(network') = Len(network) - 1
          /\ \A i \in 1..Len(network) - 1 : network'[i] = network[i + 1]
      BY <1>5, <2>2, Zenon
    <3>2. network' # network
      BY <1>2, <3>1
    <3>3. Len(network) <= MaxInFlight
      BY <1>1 DEF TypeOK
    <3>4. QED
      BY <1>2, <3>1, <3>2, <3>3, StatsAssumption
  <2>3. QED
    BY <2>1, <2>2
<1>7. heard'.last = hb
  BY DEF Update
<1>8. Timing' /\ LearningExact' /\ IntervalIsGap'
  BY <1>2, UpdateTiming
<1>9. Accounts' /\ Behind(heard'.first, heard'.last)
  BY <1>2, <1>3, UpdateTiming, UpdateAccounts
<1>10. TypeOK'
  BY <1>1, <1>2, <1>3, <1>6, UpdateTiming, UpdateAccounts DEF TypeOK
<1>11. Chain'
  <2>1. \A i \in 1..Len(network') :
          Behind(hb, network'[i]) /\ Behind(network'[i], camera)
    BY <1>1, <1>4, <1>6 DEF Chain
  <2>2. \A i, j \in 1..Len(network') : i < j => Behind(network'[i], network'[j])
    <3>1. TAKE i, j \in 1..Len(network')
    <3>2. HAVE i < j
    <3>3. CASE network' = network
      BY <1>1, <3>2, <3>3 DEF Chain
    <3>4. CASE network' # network
      <4>1. /\ i + 1 \in 1..Len(network) /\ j + 1 \in 1..Len(network)
            /\ network'[i] = network[i + 1] /\ network'[j] = network[j + 1]
        BY <1>6, <3>4
      <4>2. i + 1 < j + 1
        BY <3>2
      <4>3. QED
        BY <1>1, <4>1, <4>2 DEF Chain
    <3>5. QED
      BY <3>3, <3>4
  <2>3. QED
    BY <1>1, <1>3, <1>7, <1>9, <2>1, <2>2 DEF Chain
<1>12. QED
  BY <1>8, <1>9, <1>10, <1>11 DEF IInv

-----------------------------------------------------------------------------
LEMMA RestUnchanged ==
  ASSUME IInv, UNCHANGED <<time, stats, ghosts>>
  PROVE  Accounts' /\ Timing' /\ LearningExact' /\ IntervalIsGap'
BY DEF IInv, Accounts, Baseline, Timing, LearningExact, IntervalIsGap, stats,
       ghosts

LEMMA CounterBelowTotal == ASSUME IInv PROVE camera.count <= camera.total
BY DEF IInv, TypeOK, Chain, Behind, Start, Camera

LEMMA IInvStep ==
  ASSUME NoWrap, IInv, [Next]_vars
  PROVE  IInv'
<1> USE DEF IInv
<1>1. ASSUME Reconnect PROVE IInv'
  <2>1. /\ camera' = [camera EXCEPT !.count = @ + 1, !.total = @ + 1]
        /\ camera.total < MaxReconnects
        /\ UNCHANGED <<time, network, stats, ghosts>>
    BY <1>1 DEF Reconnect
  <2>2. /\ camera' \in Camera
        /\ camera'.count = camera.count + 1 /\ camera'.total = camera.total + 1
        /\ camera'.rebooted = camera.rebooted
    <3>1. /\ camera.count \in 0..MaxReconnects /\ camera.total \in 0..MaxReconnects
          /\ camera.rebooted \in BOOLEAN /\ camera.count <= camera.total
      BY CounterBelowTotal DEF TypeOK, Camera
    <3>2. camera' = [count |-> camera.count + 1, total |-> camera.total + 1,
                     rebooted |-> camera.rebooted]
      BY <2>1 DEF TypeOK, Camera
    <3>3. camera.count + 1 \in 0..MaxReconnects /\ camera.total + 1 \in 0..MaxReconnects
      BY <2>1, <3>1, StatsAssumption
    <3>4. QED
      BY <3>1, <3>2, <3>3 DEF Camera
  <2>3. \A c \in Camera : Behind(c, camera) => Behind(c, camera')
    <3>1. TAKE c \in Camera
    <3>2. /\ c.total \in Int /\ c.count \in Nat /\ c.rebooted \in BOOLEAN
          /\ camera.total \in Int /\ camera.count \in Nat
          /\ camera.rebooted \in BOOLEAN
      BY DEF TypeOK, Camera
    <3>3. QED
      BY <2>1, <2>2, <3>2 DEF Behind
  <2>4. TypeOK'
    BY <2>1, <2>2 DEF TypeOK, stats, ghosts
  <2>5. Chain'
    <3>1. Start \in Camera
      BY StatsAssumption DEF Start, Camera
    <3>2. QED
      BY <2>1, <2>3, <3>1 DEF Chain, TypeOK, stats, ghosts
  <2>6. QED
    BY <2>1, <2>4, <2>5, RestUnchanged
<1>2. ASSUME CameraReboot PROVE IInv'
  <2>1. /\ camera' = [camera EXCEPT !.count = 0, !.rebooted = TRUE]
        /\ ~camera.rebooted
        /\ UNCHANGED <<time, network, stats, ghosts>>
    BY <1>2 DEF CameraReboot
  <2>2. /\ camera' \in Camera
        /\ camera'.count = 0 /\ camera'.total = camera.total /\ camera'.rebooted = TRUE
    <3>1. camera' = [count |-> 0, total |-> camera.total, rebooted |-> TRUE]
      BY <2>1 DEF TypeOK, Camera
    <3>2. QED
      BY <3>1, StatsAssumption DEF TypeOK, Camera
  <2>3. \A c \in Camera : Behind(c, camera) => Behind(c, camera')
    <3>1. TAKE c \in Camera
    <3>2. /\ c.total \in Int /\ c.count \in Nat /\ c.rebooted \in BOOLEAN
          /\ camera.total \in Int /\ camera.count \in Nat
          /\ camera.rebooted \in BOOLEAN
      BY DEF TypeOK, Camera
    <3>3. HAVE Behind(c, camera)
    <3>4. ~c.rebooted /\ c.total <= camera.total
      BY <2>1, <3>3 DEF Behind
    <3>5. ~(c.rebooted = camera'.rebooted)
      BY <2>2, <3>2, <3>4
    <3>6. camera'.count = 0 /\ camera'.total = camera.total /\ camera'.rebooted
      BY <2>2
    <3>7. /\ camera'.count - c.count <= camera'.total - c.total
          /\ camera'.count <= camera'.total - c.total
          /\ c.total <= camera'.total
      BY <3>2, <3>4, <3>6
    <3>8. QED
      BY <3>5, <3>6, <3>7, Zenon DEF Behind
  <2>4. TypeOK'
    BY <2>1, <2>2 DEF TypeOK, stats, ghosts
  <2>5. Chain'
    <3>1. Start \in Camera
      BY StatsAssumption DEF Start, Camera
    <3>2. QED
      BY <2>1, <2>3, <3>1 DEF Chain, TypeOK, stats, ghosts
  <2>6. QED
    BY <2>1, <2>4, <2>5, RestUnchanged
<1>3. ASSUME Send PROVE IInv'
  <2>1. /\ network' = Append(network, camera)
        /\ Len(network) < MaxInFlight
        /\ UNCHANGED <<time, camera, stats, ghosts>>
    BY <1>3 DEF Send
  <2>2. /\ network' \in Seq(Camera)
        /\ Len(network') = Len(network) + 1
        /\ network'[Len(network) + 1] = camera
        /\ \A i \in 1..Len(network) : network'[i] = network[i]
    BY <2>1 DEF TypeOK
  <2>3. Len(network) \in Nat
    BY DEF TypeOK
  <2>4. TypeOK'
    BY <2>1, <2>2, <2>3, StatsAssumption DEF TypeOK, stats, ghosts
  <2>5. Chain'
    <3>1. Behind(camera, camera)
      BY BehindReflexive DEF TypeOK
    <3>2. \A i \in 1..Len(network') :
            Behind(heard.last, network'[i]) /\ Behind(network'[i], camera)
      BY <2>2, <2>3, <3>1 DEF Chain
    <3>3. \A i, j \in 1..Len(network') : i < j => Behind(network'[i], network'[j])
      BY <2>2, <2>3 DEF Chain
    <3>4. QED
      BY <2>1, <3>2, <3>3 DEF Chain, stats, ghosts
  <2>6. QED
    BY <2>1, <2>4, <2>5, RestUnchanged
<1>4. ASSUME Lose PROVE IInv'
  <2>1. /\ network' = Tail(network) /\ network # <<>>
        /\ UNCHANGED <<time, camera, stats, ghosts>>
    BY <1>4 DEF Lose
  <2>2. /\ network' \in Seq(Camera)
        /\ Len(network') = Len(network) - 1
        /\ \A i \in 1..Len(network) - 1 : network'[i] = network[i + 1]
    BY <2>1 DEF TypeOK
  <2>3. Len(network) \in Nat
    BY DEF TypeOK
  <2>4. TypeOK'
    BY <2>1, <2>2, <2>3, StatsAssumption DEF TypeOK, stats, ghosts
  <2>5. Chain'
    <3>1. \A i \in 1..Len(network') :
            Behind(heard.last, network'[i]) /\ Behind(network'[i], camera)
      BY <2>2, <2>3 DEF Chain
    <3>2. \A i, j \in 1..Len(network') : i < j => Behind(network'[i], network'[j])
      BY <2>2, <2>3 DEF Chain
    <3>3. QED
      BY <2>1, <3>1, <3>2 DEF Chain, stats, ghosts
  <2>6. QED
    BY <2>1, <2>4, <2>5, RestUnchanged
<1>5. ASSUME Tick PROVE IInv'
  <2>1. /\ time' = time + 1 /\ time' \in 0..MaxTime
        /\ UNCHANGED <<camera, network, stats, ghosts>>
    BY <1>5, StatsAssumption DEF Tick, TypeOK
  <2>2. TypeOK' /\ Chain'
    BY <2>1 DEF TypeOK, Chain, stats, ghosts
  <2>3. Accounts' /\ LearningExact' /\ IntervalIsGap'
    BY <2>1 DEF Accounts, Baseline, LearningExact, IntervalIsGap, stats, ghosts
  <2>4. Timing'
    BY <2>1 DEF Timing, TypeOK, stats, ghosts
  <2>5. QED
    BY <2>2, <2>3, <2>4
<1>6. ASSUME Deliver PROVE IInv'
  BY <1>6, UpdateStep DEF Deliver
<1>7. ASSUME DeliverCopy PROVE IInv'
  BY <1>7, UpdateStep DEF DeliverCopy
<1>8. ASSUME UNCHANGED vars PROVE IInv'
  BY <1>8 DEF vars, stats, ghosts, TypeOK, Chain, Accounts, Baseline, Timing,
              LearningExact, IntervalIsGap
<1>9. QED
  BY <1>1, <1>2, <1>3, <1>4, <1>5, <1>6, <1>7, <1>8 DEF Next

(***************************************************************************)
(* Detection is enabled by the first heartbeat that arrives once the       *)
(* learning time has passed, for every learning time and however           *)
(* heartbeats are lost, repeated or bunched (stats_engine.c:203-234).      *)
(***************************************************************************)
THEOREM LearningExactHolds ==
  ASSUME NoWrap
  PROVE  Spec => []LearningExact
<1>1. IInv => LearningExact
  BY DEF IInv
<1>2. IInv /\ [Next]_vars => IInv'
  BY IInvStep
<1>3. QED
  BY IInvInit, <1>1, <1>2, PTL DEF Spec

(***************************************************************************)
(* Each reconnect goes into one rate sample, whatever is lost or repeated, *)
(* however often a rate is put off, and none twice even if the camera      *)
(* reboots (stats_engine.c:151-174).                                       *)
(***************************************************************************)
THEOREM ReconnectsCountedOnceHolds ==
  ASSUME NoWrap
  PROVE  Spec => []ReconnectsCountedOnce
<1>1. IInv => ReconnectsCountedOnce
  <2> SUFFICES ASSUME IInv PROVE ReconnectsCountedOnce
    OBVIOUS
  <2>1. TypeOK /\ Accounts
    BY DEF IInv
  <2>2. CASE first_sample
    BY <2>1, <2>2
       DEF Accounts, Start, ReconnectsCountedOnce, NoneCountedTwice, NoneLost
  <2>3. CASE ~first_sample
    <3>1. PICK base \in Camera : Baseline(base)
      BY <2>1, <2>3 DEF Accounts
    <3>2. /\ accounted \in Int /\ base.count \in Int /\ base.total \in Int
          /\ heard.first.total \in Int /\ heard.last.total \in Int
          /\ heard.last.count \in Int
          /\ base.rebooted \in BOOLEAN /\ heard.last.rebooted \in BOOLEAN
      BY <2>1 DEF TypeOK, Camera
    <3>3. NoneCountedTwice
      BY <3>1, <3>2 DEF Baseline, Behind, NoneCountedTwice
    <3>4. NoneLost
      <4>1. SUFFICES ASSUME ~heard.last.rebooted
                     PROVE  accounted + (heard.last.count - last_reconnect_count)
                              = heard.last.total - heard.first.total
        BY <2>3 DEF NoneLost
      <4>2. /\ accounted = base.total - heard.first.total
            /\ base.count = last_reconnect_count
            /\ heard.last.count - base.count = heard.last.total - base.total
        BY <3>1, <3>2, <4>1 DEF Baseline, Behind
      <4>3. QED
        BY <3>2, <4>2
    <3>5. QED
      BY <2>1, <3>3, <3>4 DEF ReconnectsCountedOnce
  <2>4. QED
    BY <2>2, <2>3
<1>2. IInv /\ [Next]_vars => IInv'
  BY IInvStep
<1>3. QED
  BY IInvInit, <1>1, <1>2, PTL DEF Spec

(***************************************************************************)
(* The latest interval is the true time between the last two heartbeats,   *)
(* whenever the code accepts it (stats_engine.c:240-249).                  *)
(***************************************************************************)
THEOREM IntervalIsGapHolds ==
  ASSUME NoWrap
  PROVE  Spec => []IntervalIsGap
<1>1. IInv => IntervalIsGap
  BY DEF IInv
<1>2. IInv /\ [Next]_vars => IInv'
  BY IInvStep
<1>3. QED
  BY IInvInit, <1>1, <1>2, PTL DEF Spec

=============================================================================
