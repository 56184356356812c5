-------------------------- MODULE HeartbeatProofs ---------------------------
(***************************************************************************)
(* Proofs about the two ends of the heartbeat: the camera server, whose count *)
(* of viewers it reports, for any number of streamers, and the watchdog that *)
(* waits for it, for every timeout, polling period and scheduling delay.   *)
(***************************************************************************)
EXTENDS CameraServer, HeartbeatWatchdog, FiniteSetTheorems, TLAPS

(* The camera server *)

(***************************************************************************)
(* What the invariants need to be inductive: whoever is counting a client  *)
(* out finds the flag set, and between the two reads of an undisturbed     *)
(* collection the mutex stays free and the flag as it was read.            *)
(***************************************************************************)
FlagInv ==
  \A t \in Streamer : streamer[t] = "deactivating" => s_stream_active

ReadInv ==
  heartbeat = "viewer_count" /\ ~changed /\ ~gave_up =>
    /\ s_viewer_mutex = NoTask
    /\ telemetry.stream_active <=> s_stream_active

IInv ==
  TypeOK /\ ViewersCounted /\ FlagInv /\ ReadInv /\ AgreesWhenUndisturbed

-----------------------------------------------------------------------------
(***************************************************************************)
(* The counted streamers are finitely many, at most all of them, and none  *)
(* of them only when their number is zero.                                 *)
(***************************************************************************)
LEMMA CountedFinite ==
  /\ IsFiniteSet(Counted)
  /\ Cardinality(Counted) \in 0..Cardinality(Streamer)
  /\ Cardinality(Counted) = 0 <=> Counted = {}
<1>1. Counted \in SUBSET Streamer
  BY DEF Counted
<1>2. IsFiniteSet(Counted) /\ Cardinality(Counted) <= Cardinality(Streamer)
  BY <1>1, CameraAssumption, FS_Subset
<1>3. Cardinality(Counted) \in Nat /\ Cardinality(Streamer) \in Nat
  BY <1>2, CameraAssumption, FS_CardinalityType
<1>4. Cardinality(Counted) = 0 <=> Counted = {}
  BY <1>2, FS_EmptySet
<1>5. QED
  BY <1>2, <1>3, <1>4

(***************************************************************************)
(* A streamer outside the critical sections, moved to a place with the     *)
(* same answer to whether it is counted, leaves the count as it is.        *)
(***************************************************************************)
LEMMA SameCounted ==
  ASSUME NEW t \in Streamer, NEW place, TypeOK, Goto(t, place),
         streamer[t] \in {"activating", "streaming", "leaving"}
           <=> place \in {"activating", "streaming", "leaving"}
  PROVE  Counted' = Counted
BY DEF Goto, Counted, TypeOK

LEMMA IInvInit == Init => IInv
<1> SUFFICES ASSUME Init PROVE IInv
  OBVIOUS
<1>1. Counted = {}
  BY DEF Init, Counted
<1>2. s_viewer_count = Cardinality(Counted)
  BY <1>1, FS_EmptySet DEF Init
<1>3. s_viewer_count \in 0..Cardinality(Streamer)
  BY <1>2, CountedFinite
<1>4. TypeOK
  <2>1. 0 \in 0..Cardinality(Streamer)
    BY <1>3 DEF Init
  <2>2. \A t \in Streamer : s_viewer_mutex # t
    BY CameraAssumption DEF Init
  <2>3. QED
    BY <2>1, <2>2 DEF Init, TypeOK
<1>5. QED
  BY <1>2, <1>4 DEF Init, IInv, ViewersCounted, FlagInv, ReadInv,
                    AgreesWhenUndisturbed

-----------------------------------------------------------------------------
LEMMA IInvStep == IInv /\ [Next]_vars => IInv'
<1> SUFFICES ASSUME IInv, [Next]_vars PROVE IInv'
  OBVIOUS
<1> USE DEF IInv, viewers
<1>1. ASSUME NEW t \in Streamer, HandleStream(t) PROVE IInv'
  <2>1. Counted' = Counted
    BY <1>1, SameCounted DEF HandleStream
  <2>2. TypeOK' /\ FlagInv'
    BY <1>1 DEF HandleStream, Goto, TypeOK, FlagInv
  <2>3. QED
    BY <1>1, <2>1, <2>2 DEF HandleStream, ViewersCounted, ReadInv,
                            AgreesWhenUndisturbed
<1>2. ASSUME NEW t \in Streamer, Disconnect(t) PROVE IInv'
  BY <1>2 DEF Disconnect, TypeOK, ViewersCounted, Counted, FlagInv, ReadInv,
              AgreesWhenUndisturbed
<1>3. ASSUME NEW t \in Streamer, ClientGone(t) \/ WriteFails(t) PROVE IInv'
  <2>1. Counted' = Counted
    BY <1>3, SameCounted DEF ClientGone, WriteFails
  <2>2. TypeOK' /\ FlagInv'
    BY <1>3 DEF ClientGone, WriteFails, Goto, TypeOK, FlagInv
  <2>3. QED
    BY <1>3, <2>1, <2>2 DEF ClientGone, WriteFails, ViewersCounted, ReadInv,
                            AgreesWhenUndisturbed
<1>4. ASSUME NEW t \in Streamer, CountIn(t) PROVE IInv'
  <2>1. Counted' = Counted \cup {t} /\ t \notin Counted
    BY <1>4 DEF CountIn, Goto, Counted, TypeOK
  <2>2. s_viewer_count' = Cardinality(Counted')
    <3>1. Cardinality(Counted \cup {t}) = Cardinality(Counted) + 1
      BY <2>1, CountedFinite, FS_AddElement
    <3>2. QED
      BY <1>4, <2>1, <3>1 DEF CountIn, ViewersCounted
  <2>3. s_viewer_count' \in 0..Cardinality(Streamer)
    <3>1. Counted' \in SUBSET Streamer
      BY DEF Counted
    <3>2. Cardinality(Counted') <= Cardinality(Streamer)
      BY <3>1, CameraAssumption, FS_Subset
    <3>3. s_viewer_count' \in Nat /\ Cardinality(Streamer) \in Nat
      BY <1>4, CameraAssumption, FS_CardinalityType DEF CountIn, TypeOK
    <3>4. QED
      BY <2>2, <3>2, <3>3
  <2>4. TypeOK' /\ FlagInv'
    BY <1>4, <2>3, CameraAssumption
       DEF CountIn, Take, Change, Goto, TypeOK, FlagInv
  <2>5. s_viewer_mutex' # NoTask /\ changed'
    BY <1>4, CameraAssumption DEF CountIn, Take, Change
  <2>6. AgreesWhenUndisturbed' /\ ReadInv'
    BY <2>5 DEF AgreesWhenUndisturbed, ReadInv
  <2>7. QED
    BY <2>2, <2>4, <2>5, <2>6 DEF ViewersCounted
<1>5. ASSUME NEW t \in Streamer, Activate(t) PROVE IInv'
  <2>1. Counted' = Counted /\ t \in Counted
    BY <1>5, SameCounted DEF Activate, Counted
  <2>2. s_viewer_count > 0
    BY <2>1, CountedFinite DEF ViewersCounted
  <2>3. TypeOK' /\ FlagInv'
    BY <1>5, CameraAssumption DEF Activate, Give, Change, Goto, TypeOK, FlagInv
  <2>4. ViewersCounted'
    BY <1>5, <2>1, <2>2 DEF Activate, ViewersCounted
  <2>5. changed'
    BY <1>5 DEF Activate, Change
  <2>6. QED
    BY <2>3, <2>4, <2>5 DEF AgreesWhenUndisturbed, ReadInv
<1>6. ASSUME NEW t \in Streamer, CountOut(t) PROVE IInv'
  <2>1. Counted' = Counted \ {t} /\ t \in Counted
    BY <1>6 DEF CountOut, Goto, Counted, TypeOK
  <2>2. s_viewer_count > 0 /\ s_stream_active
    BY <1>6, <2>1, CountedFinite DEF CountOut, Take, ViewersCounted
  <2>3. s_viewer_count' = s_viewer_count - 1
    BY <1>6, <2>2 DEF CountOut
  <2>4. s_viewer_count' = Cardinality(Counted')
    <3>1. Cardinality(Counted \ {t}) = Cardinality(Counted) - 1
      BY <2>1, CountedFinite, FS_RemoveElement
    <3>2. QED
      BY <2>1, <2>3, <3>1 DEF ViewersCounted
  <2>5. s_viewer_count' \in 0..Cardinality(Streamer)
    <3>1. Cardinality(Streamer) \in Nat
      BY CameraAssumption, FS_CardinalityType
    <3>2. QED
      BY <2>2, <2>3, <3>1 DEF TypeOK
  <2>6. TypeOK' /\ FlagInv'
    BY <1>6, <2>2, <2>5, CameraAssumption
       DEF CountOut, Take, Change, Goto, TypeOK, FlagInv
  <2>7. s_viewer_mutex' # NoTask /\ changed'
    BY <1>6, CameraAssumption DEF CountOut, Take, Change
  <2>8. QED
    BY <2>4, <2>6, <2>7 DEF ViewersCounted, AgreesWhenUndisturbed, ReadInv
<1>7. ASSUME NEW t \in Streamer, Deactivate(t) PROVE IInv'
  <2>1. Counted' = Counted
    BY <1>7, SameCounted DEF Deactivate
  <2>2. s_stream_active' <=> s_viewer_count > 0
    BY <1>7, CountedFinite DEF Deactivate, FlagInv, ViewersCounted
  <2>3. TypeOK'
    BY <1>7, CameraAssumption DEF Deactivate, Give, Change, Goto, TypeOK
  <2>4. FlagInv'
    BY <1>7, CameraAssumption DEF Deactivate, Give, Goto, TypeOK, FlagInv
  <2>5. ViewersCounted'
    BY <1>7, <2>1, <2>2 DEF Deactivate, ViewersCounted
  <2>6. changed'
    BY <1>7 DEF Deactivate, Change
  <2>7. QED
    BY <2>3, <2>4, <2>5, <2>6 DEF AgreesWhenUndisturbed, ReadInv
<1>8. ASSUME Collect PROVE IInv'
  BY <1>8 DEF Collect, TypeOK, ViewersCounted, Counted, FlagInv, ReadInv,
              AgreesWhenUndisturbed
<1>9. ASSUME IsStreaming PROVE IInv'
  BY <1>9 DEF IsStreaming, Read, TypeOK, ViewersCounted, Counted, FlagInv,
              ReadInv, AgreesWhenUndisturbed
<1>10. ASSUME GetViewerCount PROVE IInv'
  <2>1. TypeOK' /\ ViewersCounted' /\ FlagInv' /\ ReadInv'
    <3>1. 0 \in 0..Cardinality(Streamer)
      BY CameraAssumption, FS_CardinalityType
    <3>2. telemetry' \in [stream_active : BOOLEAN,
                          viewer_count : 0..Cardinality(Streamer)]
      BY <1>10, <3>1 DEF GetViewerCount, Read, TypeOK
    <3>3. TypeOK'
      BY <1>10, <3>2 DEF GetViewerCount, Read, TypeOK
    <3>4. ViewersCounted' /\ FlagInv' /\ ReadInv'
      BY <1>10 DEF GetViewerCount, Read, ViewersCounted, Counted, FlagInv,
                   ReadInv
    <3>5. QED
      BY <3>3, <3>4
  <2>2. AgreesWhenUndisturbed'
    BY <1>10 DEF GetViewerCount, Read, TypeOK, ViewersCounted, ReadInv,
                 AgreesWhenUndisturbed
  <2>3. QED
    BY <2>1, <2>2
<1>11. ASSUME UNCHANGED vars PROVE IInv'
  BY <1>11 DEF vars, TypeOK, ViewersCounted, Counted, FlagInv, ReadInv,
               AgreesWhenUndisturbed
<1>12. QED
  BY <1>1, <1>2, <1>3, <1>4, <1>5, <1>6, <1>7, <1>8, <1>9, <1>10, <1>11
     DEF Next, StreamerStep

-----------------------------------------------------------------------------
(***************************************************************************)
(* The camera's viewer count is the number of streamers serving a client,  *)
(* and the flag follows it, for any number of streamers on any schedule    *)
(* (camera_server.cpp:75-145).                                             *)
(***************************************************************************)
THEOREM ViewersCountedHolds == Spec => []ViewersCounted
<1>1. IInv => ViewersCounted
  BY DEF IInv
<1>2. QED
  BY IInvInit, IInvStep, <1>1, PTL DEF Spec

(***************************************************************************)
(* A heartbeat collected while no viewer came or went, and whose reads     *)
(* were not given up, reports a stream exactly when it reports viewers     *)
(* (camera_server.cpp:297-312, telemetry_collector.cpp:13-21).             *)
(***************************************************************************)
THEOREM AgreesWhenUndisturbedHolds == Spec => []AgreesWhenUndisturbed
<1>1. IInv => AgreesWhenUndisturbed
  BY DEF IInv
<1>2. QED
  BY IInvInit, IInvStep, <1>1, PTL DEF Spec

(***************************************************************************)
(* The count, the flag, the mutex and every task keep their types, for any *)
(* number of streamers (camera_server.cpp:66-145).                         *)
(***************************************************************************)
THEOREM CameraTypeCorrect == Spec => []TypeOK
<1>1. IInv => TypeOK
  BY DEF IInv
<1>2. QED
  BY IInvInit, IInvStep, <1>1, PTL DEF Spec

-----------------------------------------------------------------------------
(* The heartbeat watchdog *)

\* No silence lasts for a whole lap of the clock (49.7 days).
NoLap == MaxSilence + Jitter < ClockMod

(***************************************************************************)
(* Subtracting two readings of a clock that wrapped at most once between   *)
(* them gives the true time.                                               *)
(***************************************************************************)
LEMMA ModularElapsed ==
  ASSUME NEW now \in 0..ClockMod - 1, NEW then \in 0..ClockMod - 1
  PROVE  (now - then) % ClockMod =
           IF now >= then THEN now - then ELSE now - then + ClockMod
BY WatchdogAssumption

LEMMA ClockStep ==
  ASSUME NEW now \in 0..ClockMod - 1
  PROVE  (now + 1) % ClockMod = IF now + 1 = ClockMod THEN 0 ELSE now + 1
BY WatchdogAssumption

-----------------------------------------------------------------------------
\* The reading `then` is age ticks old, and the clock has wrapped at most once
\* since.
Aged(then, age) ==
  clock - then = age \/ clock - then + ClockMod = age

\* The last heartbeat is as old as silence says, and the copy that is being
\* judged is no younger.
Ages ==
  /\ Aged(s_last_hb_ms, silence)
  /\ task = "judging" =>
       /\ wake <= 0
       /\ \E age \in silence..(MaxSilence - wake) : Aged(last, age)

\* While no alarm stands, the silence at the moment the task is next due leaves
\* the timeout at most one polling period behind.
Deadline ==
  /\ task = "waiting" /\ s_last_hb_ms # 0 => silence + wake <= Poll
  /\ task # "waiting" /\ ~s_hb_timeout_active =>
       silence + wake < Timeout + Poll

WatchdogIInv ==
  /\ WatchdogTypeOK
  /\ Ages
  /\ Deadline
  /\ ResumedMeansHeartbeat

LEMMA WatchdogIInvInit == WatchdogInit => WatchdogIInv
<1> SUFFICES ASSUME WatchdogInit PROVE WatchdogIInv
  OBVIOUS
<1>1. CalmCap \in Nat
  BY WatchdogAssumption DEF CalmCap
<1>2. WatchdogTypeOK
  <2>1. 0 \in 0..ClockMod - 1 /\ 0 \in -Jitter..Poll /\ 0 \in 0..MaxSilence
    BY WatchdogAssumption
  <2>2. 0 \in 0..CalmCap
    BY <1>1
  <2>3. QED
    BY <2>1, <2>2 DEF WatchdogInit, WatchdogTypeOK
<1>3. Ages /\ Deadline /\ ResumedMeansHeartbeat
  BY DEF WatchdogInit, Ages, Aged, Deadline, ResumedMeansHeartbeat
<1>4. QED
  BY <1>2, <1>3 DEF WatchdogIInv

LEMMA WatchdogIInvStep ==
  ASSUME NoLap, WatchdogIInv, [WatchdogNext]_watchdogVars
  PROVE  WatchdogIInv'
<1> USE WatchdogAssumption DEF NoLap
<1>1. ASSUME AwaitFirst PROVE WatchdogIInv'
  BY <1>1 DEF AwaitFirst, SleepTime, WatchdogIInv, WatchdogTypeOK, Ages, Aged,
              Deadline, ResumedMeansHeartbeat, CalmCap
<1>2. ASSUME ReadLast PROVE WatchdogIInv'
  <2>1. WatchdogTypeOK' /\ Deadline' /\ ResumedMeansHeartbeat'
    BY <1>2 DEF ReadLast, WatchdogIInv, WatchdogTypeOK, Deadline, ResumedMeansHeartbeat
  <2>2. silence \in silence..(MaxSilence - wake)
    BY <1>2 DEF ReadLast, WatchdogIInv, WatchdogTypeOK
  <2>3. Ages'
    BY <1>2, <2>2 DEF ReadLast, WatchdogIInv, Ages, Aged
  <2>4. QED
    BY <2>1, <2>3 DEF WatchdogIInv
<1>3. ASSUME Judge PROVE WatchdogIInv'
  <2> DEFINE elapsed == Elapsed(clock, last)
             missing == elapsed >= Timeout
  <2>1. PICK age \in silence..(MaxSilence - wake) : Aged(last, age)
    BY <1>3 DEF Judge, WatchdogIInv, Ages
  <2>2. age \in Nat /\ age < ClockMod /\ silence <= age
    BY <2>1 DEF WatchdogIInv, WatchdogTypeOK
  <2>3. elapsed = age
    BY <2>1, <2>2, ModularElapsed DEF Elapsed, Aged, WatchdogIInv, WatchdogTypeOK
  <2>4. /\ s_hb_timeout_active' = missing
        /\ IF missing /\ ~s_hb_timeout_active THEN Report("HEARTBEAT_MISSING")
           ELSE IF ~missing /\ s_hb_timeout_active
                THEN Report("DEVICE_CONNECTED")
           ELSE UNCHANGED report
        /\ calm' = IF missing THEN calm ELSE 0
        /\ task' = "sleeping"
        /\ wake' = Poll
        /\ UNCHANGED <<clock, s_last_hb_ms, last, silence>>
    BY <1>3 DEF Judge, SleepTime
  <2> HIDE DEF elapsed
  <2>5. ~missing => silence < Timeout
    BY <2>2, <2>3 DEF WatchdogIInv, WatchdogTypeOK
  <2>6. missing \in BOOLEAN
    OBVIOUS
  <2> HIDE DEF missing
  <2>7. report' \in [alert : {"none", "HEARTBEAT_MISSING", "DEVICE_CONNECTED"},
                     silence : 0..MaxSilence]
    BY <2>4 DEF Report, WatchdogIInv, WatchdogTypeOK
  <2>8. calm' \in 0..CalmCap
    BY <2>4 DEF WatchdogIInv, WatchdogTypeOK, CalmCap
  <2>9. WatchdogTypeOK'
    BY <2>4, <2>6, <2>7, <2>8 DEF WatchdogIInv, WatchdogTypeOK
  <2>10. Ages'
    BY <2>4 DEF WatchdogIInv, Ages, Aged
  <2>11. Deadline'
    BY <2>4, <2>5 DEF WatchdogIInv, WatchdogTypeOK, Deadline
  <2>12. ResumedMeansHeartbeat'
    BY <2>4, <2>5 DEF Report, WatchdogIInv, ResumedMeansHeartbeat
  <2>13. QED
    BY <2>9, <2>10, <2>11, <2>12 DEF WatchdogIInv
<1>4. ASSUME HeartbeatReceived PROVE WatchdogIInv'
  <2>1. WatchdogTypeOK' /\ Deadline' /\ ResumedMeansHeartbeat'
    BY <1>4 DEF HeartbeatReceived, WatchdogIInv, WatchdogTypeOK, Deadline,
                ResumedMeansHeartbeat
  <2>2. Aged(s_last_hb_ms, silence)'
    BY <1>4 DEF HeartbeatReceived, Aged, WatchdogIInv, WatchdogTypeOK
  <2>3. ASSUME task = "judging"
        PROVE  /\ wake <= 0
               /\ \E age \in silence'..(MaxSilence - wake) : Aged(last, age)'
    <3>1. PICK age \in silence..(MaxSilence - wake) : Aged(last, age)
      BY <2>3 DEF WatchdogIInv, Ages
    <3>2. age \in silence'..(MaxSilence - wake) /\ Aged(last, age)'
      BY <1>4, <3>1 DEF HeartbeatReceived, Aged, WatchdogIInv, WatchdogTypeOK
    <3>3. QED
      BY <2>3, <3>2 DEF WatchdogIInv, Ages
  <2>4. QED
    BY <1>4, <2>1, <2>2, <2>3 DEF HeartbeatReceived, WatchdogIInv, Ages
<1>5. ASSUME Tick PROVE WatchdogIInv'
  <2>1. /\ clock' = IF clock + 1 = ClockMod THEN 0 ELSE clock + 1
        /\ clock' \in 0..ClockMod - 1
        /\ wake > -Jitter
        /\ silence < MaxSilence
        /\ wake' = wake - 1
        /\ silence' = silence + 1
        /\ UNCHANGED <<s_last_hb_ms, s_hb_timeout_active, task, last, report>>
    BY <1>5, ClockStep DEF Tick, WatchdogIInv, WatchdogTypeOK
  <2>2. calm' \in 0..CalmCap
    BY <1>5 DEF Tick, WatchdogIInv, WatchdogTypeOK, CalmCap
  <2>3. WatchdogTypeOK'
    BY <2>1, <2>2 DEF WatchdogIInv, WatchdogTypeOK
  <2>4. \A then \in 0..ClockMod - 1, age \in 0..ClockMod - 2 :
          Aged(then, age) => Aged(then, age + 1)'
    BY <2>1 DEF Aged, WatchdogIInv, WatchdogTypeOK
  <2>5. Aged(s_last_hb_ms, silence)'
    BY <2>1, <2>4 DEF WatchdogIInv, WatchdogTypeOK, Ages
  <2>6. ASSUME task = "judging"
        PROVE  /\ wake' <= 0
               /\ \E age \in silence'..(MaxSilence - wake') : Aged(last, age)'
    <3>1. PICK age \in silence..(MaxSilence - wake) : Aged(last, age)
      BY <2>6 DEF WatchdogIInv, Ages
    <3>2. age \in 0..ClockMod - 2
      BY <2>1 DEF WatchdogIInv, WatchdogTypeOK
    <3>3. Aged(last, age + 1)'
      BY <2>1, <2>4, <3>1, <3>2 DEF WatchdogIInv, WatchdogTypeOK
    <3>4. age + 1 \in silence'..(MaxSilence - wake')
      BY <2>1, <3>1 DEF WatchdogIInv, WatchdogTypeOK
    <3>5. QED
      BY <2>1, <2>6, <3>3, <3>4 DEF WatchdogIInv, Ages, WatchdogTypeOK
  <2>7. Ages'
    BY <2>1, <2>5, <2>6 DEF Ages
  <2>8. Deadline' /\ ResumedMeansHeartbeat'
    BY <2>1 DEF WatchdogIInv, WatchdogTypeOK, Deadline, ResumedMeansHeartbeat
  <2>9. QED
    BY <2>3, <2>7, <2>8 DEF WatchdogIInv
<1>6. ASSUME UNCHANGED watchdogVars PROVE WatchdogIInv'
  BY <1>6 DEF watchdogVars, WatchdogIInv, WatchdogTypeOK, Ages, Aged, Deadline, ResumedMeansHeartbeat
<1>7. QED
  BY <1>1, <1>2, <1>3, <1>4, <1>5, <1>6 DEF WatchdogNext

(***************************************************************************)
(* A silent camera is reported within one polling period and one           *)
(* scheduling delay of the timeout (anomaly_engine.c:128-145).             *)
(***************************************************************************)
THEOREM DetectedInTimeHolds ==
  ASSUME NoLap
  PROVE  WatchdogSpec => []DetectedInTime
<1>1. WatchdogIInv => DetectedInTime
  BY WatchdogAssumption DEF WatchdogIInv, WatchdogTypeOK, Deadline, DetectedInTime, Watched
<1>2. WatchdogIInv /\ [WatchdogNext]_watchdogVars => WatchdogIInv'
  BY WatchdogIInvStep
<1>3. QED
  BY WatchdogIInvInit, <1>1, <1>2, PTL DEF WatchdogSpec

(***************************************************************************)
(* The camera is only reported back when a heartbeat did arrive within the *)
(* timeout (anomaly_engine.c:146-151).                                     *)
(***************************************************************************)
THEOREM ResumedMeansHeartbeatHolds ==
  ASSUME NoLap
  PROVE  WatchdogSpec => []ResumedMeansHeartbeat
<1>1. WatchdogIInv => ResumedMeansHeartbeat
  BY DEF WatchdogIInv
<1>2. WatchdogIInv /\ [WatchdogNext]_watchdogVars => WatchdogIInv'
  BY WatchdogIInvStep
<1>3. QED
  BY WatchdogIInvInit, <1>1, <1>2, PTL DEF WatchdogSpec

-----------------------------------------------------------------------------
\* What is judged is the last heartbeat, or one has come since, and that not
\* before the task woke; and a camera that has been back for longer than that
\* will be seen to be.
Judged(age) ==
  /\ age \in silence..(MaxSilence - wake)
  /\ Aged(last, age)
  /\ age = silence \/ silence + wake <= 0
  /\ \/ calm + wake <= 0
     \/ age + wake <= Poll + Jitter /\ calm + wake <= Poll + Jitter

\* A camera that is back while it is reported missing has been for no longer
\* than the task has slept, and the delay of the wake-up that missed it.
Calm ==
  /\ task = "waiting" => ~s_hb_timeout_active
  /\ ~s_hb_timeout_active => calm = 0
  /\ silence >= Timeout => calm = 0
  /\ task = "sleeping" /\ s_hb_timeout_active /\ silence < Timeout =>
       calm + wake <= Poll + Jitter /\ silence + wake <= Poll + Jitter
  /\ task = "judging" => wake <= 0 /\ \E age \in Nat : Judged(age)

LEMMA SumsAtMost ==
  ASSUME NEW a \in Int, NEW b \in Int, NEW c \in Int, a <= b, b <= c
  PROVE  a <= c
OBVIOUS

LEMMA CalmInit == WatchdogInit => Calm
BY WatchdogAssumption DEF WatchdogInit, Calm

LEMMA CalmStep ==
  ASSUME NoLap, WatchdogIInv, Calm, [WatchdogNext]_watchdogVars
  PROVE  Calm'
<1> USE WatchdogAssumption DEF NoLap
<1>0. WatchdogTypeOK /\ calm \in Nat /\ silence \in Nat /\ wake \in Int
  BY DEF WatchdogIInv, WatchdogTypeOK
<1>1. ASSUME AwaitFirst PROVE Calm'
  BY <1>1 DEF AwaitFirst, Calm
<1>2. ASSUME ReadLast PROVE Calm'
  <2>1. /\ task' = "judging" /\ wake <= 0 /\ last' = s_last_hb_ms
        /\ task = "sleeping"
        /\ UNCHANGED <<clock, s_hb_timeout_active, wake, silence, calm>>
    BY <1>2 DEF ReadLast
  <2>2. Judged(silence)'
    <3>1. silence \in silence..(MaxSilence - wake)
      BY <1>0, <2>1 DEF WatchdogTypeOK
    <3>2. Aged(last, silence)'
      BY <2>1 DEF WatchdogIInv, Ages, Aged
    <3>3. \/ calm + wake <= 0
          \/ silence + wake <= Poll + Jitter /\ calm + wake <= Poll + Jitter
      BY <1>0, <2>1 DEF Calm, WatchdogTypeOK
    <3>4. QED
      BY <2>1, <3>1, <3>2, <3>3 DEF Judged
  <2>3. \E age \in Nat : Judged(age)'
    BY <1>0, <2>1, <2>2
  <2>4. QED
    BY <2>1, <2>3 DEF Calm
<1>3. ASSUME Judge PROVE Calm'
  <2> DEFINE missing == Elapsed(clock, last) >= Timeout
  <2>1. PICK age \in Nat : Judged(age)
    BY <1>3 DEF Judge, Calm
  <2>2. age < ClockMod /\ silence <= age /\ wake <= 0 /\ -wake <= Jitter
    BY <1>0, <1>3, <2>1 DEF Judge, Judged, Calm, WatchdogTypeOK
  <2>3. Elapsed(clock, last) = age
    BY <1>0, <2>1, <2>2, ModularElapsed DEF Elapsed, Judged, Aged, WatchdogTypeOK
  <2>4. /\ s_hb_timeout_active' = missing
        /\ calm' = IF missing THEN calm ELSE 0
        /\ task' = "sleeping"
        /\ wake' = Poll
        /\ UNCHANGED silence
    BY <1>3 DEF Judge, SleepTime
  <2>5. missing <=> age >= Timeout
    BY <2>3
  <2> HIDE DEF missing
  <2>6. CASE missing
    <3>1. calm + wake <= 0
      BY <1>0, <2>1, <2>2, <2>5, <2>6 DEF Judged
    <3>2. silence < Timeout => silence + wake <= 0
      BY <1>0, <2>1, <2>5, <2>6 DEF Judged
    <3>3. QED
      BY <1>0, <2>2, <2>4, <2>6, <3>1, <3>2 DEF Calm
  <2>7. CASE ~missing
    BY <2>4, <2>7 DEF Calm
  <2>8. QED
    BY <2>6, <2>7
<1>4. ASSUME HeartbeatReceived PROVE Calm'
  <2>1. /\ silence' = 0
        /\ UNCHANGED <<clock, s_hb_timeout_active, task, wake, last, calm>>
    BY <1>4 DEF HeartbeatReceived
  <2>2. ASSUME task = "judging" PROVE wake' <= 0 /\ \E age \in Nat : Judged(age)'
    <3>1. PICK age \in Nat : Judged(age)
      BY <2>2 DEF Calm
    <3>2. Judged(age)'
      BY <1>0, <2>1, <2>2, <3>1 DEF Judged, Aged, Calm
    <3>3. QED
      BY <2>1, <2>2, <3>2 DEF Calm
  <2>3. task = "sleeping" /\ s_hb_timeout_active =>
          calm + wake <= Poll + Jitter /\ wake <= Poll + Jitter
    BY <1>0 DEF Calm, WatchdogTypeOK
  <2>4. QED
    BY <1>0, <2>1, <2>2, <2>3 DEF Calm
<1>5. ASSUME Tick PROVE Calm'
  <2>1. /\ clock' = IF clock + 1 = ClockMod THEN 0 ELSE clock + 1
        /\ wake > -Jitter /\ silence < MaxSilence
        /\ wake' = wake - 1 /\ silence' = silence + 1
        /\ UNCHANGED <<s_hb_timeout_active, task, last>>
    BY <1>5, ClockStep DEF Tick, WatchdogIInv, WatchdogTypeOK
  <2>2. /\ calm' \in Nat
        /\ ~s_hb_timeout_active => calm' = 0
        /\ silence' >= Timeout => calm' = 0
        /\ calm' + wake' <= calm + wake
    <3>1. calm' = IF s_hb_timeout_active /\ silence' < Timeout
                  THEN IF calm < CalmCap THEN calm + 1 ELSE calm
                  ELSE 0
      BY <1>5 DEF Tick
    <3>2. QED
      BY <1>0, <2>1, <3>1
  <2>3. ASSUME task = "judging" PROVE wake' <= 0 /\ \E age \in Nat : Judged(age)'
    <3>1. PICK age \in Nat : Judged(age)
      BY <2>3 DEF Calm
    <3>2. age \in 0..ClockMod - 2
      BY <1>0, <2>1, <3>1 DEF Judged, WatchdogTypeOK
    <3>3. Aged(last, age + 1)'
      BY <1>0, <2>1, <3>1, <3>2 DEF Judged, Aged, WatchdogTypeOK
    <3>4. age + 1 \in silence'..(MaxSilence - wake')
      BY <1>0, <2>1, <3>1 DEF Judged, WatchdogTypeOK
    <3>5. age + 1 = silence' \/ silence' + wake' <= 0
      BY <1>0, <2>1, <3>1 DEF Judged
    <3>6. \/ calm' + wake' <= 0
          \/ age + 1 + wake' <= Poll + Jitter /\ calm' + wake' <= Poll + Jitter
      <4>1. age + 1 + wake' = age + wake /\ calm' \in Int /\ wake' \in Int
        BY <1>0, <2>1, <2>2
      <4>2. \/ calm + wake <= 0
            \/ age + wake <= Poll + Jitter /\ calm + wake <= Poll + Jitter
        BY <3>1 DEF Judged
      <4>3. /\ calm' + wake' \in Int /\ calm + wake \in Int
            /\ Poll + Jitter \in Int /\ 0 \in Int
        BY <1>0, <4>1
      <4>4. QED
        BY <2>2, <4>1, <4>2, <4>3, SumsAtMost
    <3>7. Judged(age + 1)'
      BY <3>3, <3>4, <3>5, <3>6 DEF Judged
    <3>8. age + 1 \in Nat
      OBVIOUS
    <3>9. QED
      BY <1>0, <2>1, <2>3, <3>7, <3>8 DEF Calm
  <2>4. task' = "sleeping" /\ s_hb_timeout_active' /\ silence' < Timeout =>
          /\ calm' + wake' <= Poll + Jitter
          /\ silence' + wake' <= Poll + Jitter
    <3>1. silence' < Timeout => silence < Timeout
      BY <1>0, <2>1
    <3>2. calm' \in Int /\ wake' \in Int /\ silence' + wake' = silence + wake
      BY <1>0, <2>1, <2>2
    <3>3. task = "sleeping" /\ s_hb_timeout_active /\ silence < Timeout =>
            calm + wake <= Poll + Jitter /\ silence + wake <= Poll + Jitter
      BY DEF Calm
    <3>4. /\ calm' + wake' \in Int /\ calm + wake \in Int
          /\ Poll + Jitter \in Int
      BY <1>0, <3>2
    <3>5. QED
      BY <2>1, <2>2, <3>1, <3>2, <3>3, <3>4, SumsAtMost
  <2>5. QED
    BY <2>1, <2>2, <2>3, <2>4 DEF Calm
<1>6. ASSUME UNCHANGED watchdogVars PROVE Calm'
  BY <1>6 DEF watchdogVars, Calm, Judged, Aged
<1>7. QED
  BY <1>1, <1>2, <1>3, <1>4, <1>5, <1>6 DEF WatchdogNext

(***************************************************************************)
(* A camera that is back is not reported missing for longer than a polling *)
(* period and the delays of two wake-ups (anomaly_engine.c:127-151).       *)
(***************************************************************************)
THEOREM RecoveredInTimeHolds ==
  ASSUME NoLap
  PROVE  WatchdogSpec => []RecoveredInTime
<1>1. WatchdogIInv /\ Calm => RecoveredInTime
  <2> SUFFICES ASSUME WatchdogIInv, Calm PROVE calm <= Poll + 2 * Jitter
    BY DEF RecoveredInTime
  <2>1. /\ calm \in Nat /\ wake \in Int /\ -wake <= Jitter /\ Jitter \in Nat
        /\ Poll \in Nat
        /\ task \in {"waiting", "sleeping", "judging"}
    BY WatchdogAssumption DEF WatchdogIInv, WatchdogTypeOK
  <2>2. calm > 0 => task # "waiting" /\ s_hb_timeout_active /\ silence < Timeout
    BY <2>1, WatchdogAssumption DEF Calm, WatchdogIInv, WatchdogTypeOK
  <2>3. task = "judging" => calm + wake <= Poll + Jitter
    BY <2>1, WatchdogAssumption DEF Calm, Judged
  <2>4. QED
    BY <2>1, <2>2, <2>3 DEF Calm
<1>2. WatchdogIInv /\ [WatchdogNext]_watchdogVars => WatchdogIInv'
  BY WatchdogIInvStep
<1>3. WatchdogIInv /\ Calm /\ [WatchdogNext]_watchdogVars => Calm'
  BY CalmStep
<1>4. QED
  BY WatchdogIInvInit, CalmInit, <1>1, <1>2, <1>3, PTL DEF WatchdogSpec

(***************************************************************************)
(* The stamps stay on the clock and the watchdog at one of its steps, for  *)
(* every timeout, polling period and jitter (anomaly_engine.c:110-157).    *)
(***************************************************************************)
THEOREM WatchdogTypeCorrect ==
  ASSUME NoLap
  PROVE  WatchdogSpec => []WatchdogTypeOK
<1>1. WatchdogIInv => WatchdogTypeOK
  BY DEF WatchdogIInv
<1>2. WatchdogIInv /\ [WatchdogNext]_watchdogVars => WatchdogIInv'
  BY WatchdogIInvStep
<1>3. QED
  BY WatchdogIInvInit, <1>1, <1>2, PTL DEF WatchdogSpec

=============================================================================
