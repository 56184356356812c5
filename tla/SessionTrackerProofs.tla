------------------------ MODULE SessionTrackerProofs ------------------------
(***************************************************************************)
(* Proofs about SessionTracker, for every minimum duration, register and   *)
(* clock offset, as long as true time stays within one lap of the clock    *)
(* (the stamps themselves may wrap).                                       *)
(***************************************************************************)
EXTENDS SessionTracker, FiniteSetTheorems, TLAPS

NoLap == MaxTime < ClockMod

Stamp(t) == (t + LogBase) % ClockMod

(***************************************************************************)
(* Subtracting the stamps of two moments gives the time between them.      *)
(***************************************************************************)
LEMMA StampValue ==
  ASSUME NoLap, NEW t \in 0..MaxTime
  PROVE  Stamp(t) = IF t + LogBase < ClockMod
                    THEN t + LogBase ELSE t + LogBase - ClockMod
BY SessionAssumption DEF Stamp, NoLap

LEMMA MinusValue ==
  ASSUME NEW a \in 0..ClockMod - 1, NEW b \in 0..ClockMod - 1
  PROVE  Minus(a, b) = IF a >= b THEN a - b ELSE a - b + ClockMod
BY SessionAssumption DEF Minus

LEMMA StampsApart ==
  ASSUME NoLap, NEW s \in 0..MaxTime, NEW t \in 0..MaxTime, s <= t
  PROVE  /\ Stamp(t) \in 0..ClockMod - 1
         /\ Minus(Stamp(t), Stamp(s)) = t - s
<1>1. /\ Stamp(s) \in 0..ClockMod - 1
      /\ Stamp(t) \in 0..ClockMod - 1
  BY StampValue, SessionAssumption DEF NoLap
<1>2. Minus(Stamp(t), Stamp(s)) =
        IF Stamp(t) >= Stamp(s) THEN Stamp(t) - Stamp(s)
                                ELSE Stamp(t) - Stamp(s) + ClockMod
  BY <1>1, MinusValue
<1>3. QED
  BY <1>1, <1>2, StampValue, SessionAssumption DEF NoLap

-----------------------------------------------------------------------------
\* What TimeIsTiled rests on: the ticks the code keeps are the stamps of the
\* true times the ghosts keep, and sessions follow one another.
Kept ==
  IF has_prior_end
  THEN /\ session_end_tick = Stamp(span.to)
       /\ span.to <= time
       /\ sessions_completed \in Nat \ {0}
  ELSE /\ sessions_completed = 0
       /\ duration = Fresh
       /\ interval = Fresh
       /\ span = [from |-> 0, to |-> 0]

Running ==
  stream_was_active =>
    /\ session_start_tick = Stamp(startAt)
    /\ startAt <= time
    /\ has_prior_end => span.to <= startAt

Typed ==
  /\ time \in 0..MaxTime
  /\ stream_was_active \in BOOLEAN
  /\ has_prior_end \in BOOLEAN
  /\ duration \in Average /\ interval \in Average
  /\ startAt \in 0..MaxTime
  /\ span \in [from : 0..MaxTime, to : 0..MaxTime]

IInv == Typed /\ Kept /\ Running /\ TimeIsTiled

LEMMA IInvInit == Init => IInv
<1> SUFFICES ASSUME Init PROVE IInv
  OBVIOUS
<1>1. 0 \in 0..MaxTime /\ Fresh \in Average
  BY SessionAssumption DEF Fresh, Average
<1>2. Typed
  BY <1>1 DEF Init, Typed
<1>3. Kept /\ Running
  BY DEF Init, Kept, Running
<1>4. TimeIsTiled
  BY DEF Init, TimeIsTiled, Fresh
<1>5. QED
  BY <1>2, <1>3, <1>4 DEF IInv

\* The variables that the invariant is about.
kept == <<time, stream_was_active, has_prior_end, session_start_tick,
          session_end_tick, duration, interval, sessions_completed, startAt,
          span>>

LEMMA IInvUnchanged ==
  ASSUME IInv, UNCHANGED kept
  PROVE  IInv'
BY DEF kept, IInv, Typed, Kept, Running, TimeIsTiled, Stamp, Average, Fresh

LEMMA IInvStep ==
  ASSUME NoLap, IInv, [Next]_vars
  PROVE  IInv'
<1>1. ASSUME NEW stream_active \in BOOLEAN, Heartbeat(stream_active)
      PROVE  IInv'
  <2> DEFINE duration_ms == Minus(log_timestamp, session_start_tick)
  <2>1. log_timestamp = Stamp(time)
    BY DEF log_timestamp, Stamp
  <2>2. UNCHANGED time /\ stream_was_active' = stream_active
    BY <1>1 DEF Heartbeat, Update
  <2>3. CASE ~stream_was_active /\ stream_active
    <3>1. StartSession(log_timestamp)
      BY <1>1, <2>3 DEF Heartbeat, Update
    <3>2. QED
      BY <2>1, <2>2, <3>1
         DEF StartSession, IInv, Typed, Kept, Running, TimeIsTiled, Stamp
  <2>4. CASE stream_was_active /\ ~stream_active
    <3>1. duration_ms = time - startAt
      BY <2>1, <2>4, StampsApart DEF IInv, Typed, Running
    <3>2. \/ EndSession(log_timestamp, duration_ms)
          \/ DiscardSession
      BY <1>1, <2>4 DEF Heartbeat, Update
    <3>3. CASE DiscardSession
      BY <2>2, <2>4, <3>3
         DEF DiscardSession, IInv, Typed, Kept, Running, TimeIsTiled, Stamp
    <3>4. CASE EndSession(log_timestamp, duration_ms)
      <4>1. /\ duration' = Feed(duration, time - startAt)
            /\ interval' = IF has_prior_end
                           THEN Feed(interval, Minus(session_start_tick,
                                                     session_end_tick))
                           ELSE interval
            /\ session_end_tick' = Stamp(time)
            /\ has_prior_end' = TRUE
            /\ sessions_completed' = sessions_completed + 1
            /\ span' = [from |-> IF has_prior_end THEN span.from ELSE startAt,
                        to   |-> time]
            /\ UNCHANGED startAt
        BY <2>1, <3>1, <3>4 DEF EndSession
      <4>2. has_prior_end =>
              Minus(session_start_tick, session_end_tick) = startAt - span.to
        BY <2>4, StampsApart DEF IInv, Typed, Kept, Running
      <4>3. startAt <= time /\ (has_prior_end => span.to <= startAt)
        BY <2>4 DEF IInv, Running
      <4>4. duration' \in Average /\ interval' \in Average
        BY <4>1, <4>2, <4>3 DEF IInv, Typed, Average, Feed
      <4>5. Typed'
        BY <2>2, <4>1, <4>4 DEF IInv, Typed
      <4>6. Kept' /\ Running'
        BY <2>2, <2>4, <4>1 DEF IInv, Typed, Kept, Running, Stamp
      <4>7. TimeIsTiled'
        <5>1. CASE has_prior_end
          BY <4>1, <4>2, <5>1
             DEF IInv, Typed, Kept, TimeIsTiled, Feed, Average
        <5>2. CASE ~has_prior_end
          BY <4>1, <5>2
             DEF IInv, Typed, Kept, TimeIsTiled, Feed, Fresh, Average
        <5>3. QED
          BY <5>1, <5>2
      <4>8. QED
        BY <4>5, <4>6, <4>7 DEF IInv
    <3>5. QED
      BY <3>2, <3>3, <3>4
  <2>5. CASE stream_was_active <=> stream_active
    <3>1. NoEdge
      BY <1>1, <2>5 DEF Heartbeat, Update
    <3>2. QED
      BY <2>2, <2>5, <3>1
         DEF NoEdge, IInv, Typed, Kept, Running, TimeIsTiled, Stamp
  <2>6. QED
    BY <2>3, <2>4, <2>5 DEF IInv, Typed
<1>2. ASSUME GetSnapshot PROVE IInv'
  BY <1>2, IInvUnchanged DEF GetSnapshot, tracker, kept
<1>3. ASSUME Tick PROVE IInv'
  <2>1. /\ time' = time + 1
        /\ time' \in 0..MaxTime
        /\ UNCHANGED <<stream_was_active, has_prior_end, session_start_tick,
                       session_end_tick, duration, interval,
                       sessions_completed, startAt, span>>
    BY <1>3, SessionAssumption DEF Tick, tracker, IInv, Typed
  <2>2. Typed' /\ TimeIsTiled'
    BY <2>1 DEF IInv, Typed, TimeIsTiled
  <2>3. Kept' /\ Running'
    BY <2>1 DEF IInv, Typed, Kept, Running, Stamp
  <2>4. QED
    BY <2>2, <2>3 DEF IInv
<1>4. ASSUME UNCHANGED vars PROVE IInv'
  BY <1>4, IInvUnchanged DEF vars, tracker, kept
<1>5. QED
  BY <1>1, <1>2, <1>3, <1>4 DEF Next

(***************************************************************************)
(* The sessions kept and the pauses between them tile the time they span,  *)
(* whatever flags arrive when (session_tracker.c:131-208).                 *)
(***************************************************************************)
THEOREM TimeIsTiledHolds ==
  ASSUME NoLap
  PROVE  Spec => []TimeIsTiled
<1>1. IInv => TimeIsTiled
  BY DEF IInv
<1>2. IInv /\ [Next]_vars => IInv'
  BY IInvStep
<1>3. QED
  BY IInvInit, <1>1, <1>2, PTL DEF Spec

-----------------------------------------------------------------------------
(***************************************************************************)
(* The register against the flags received: bit b is set when the flag     *)
(* before the last b began a session.                                      *)
(***************************************************************************)
Window ==
  /\ received \in Seq(BOOLEAN)
  /\ Len(received) \in 1..Register + 1
  /\ received[1] = stream_was_active
  /\ session_start_window \subseteq 0..Register - 1
  /\ \A b \in 0..Register - 1 : b \in session_start_window <=> b + 1 \in Starts
  /\ session_count = Cardinality(session_start_window)

\* What the register's type invariant needs beside it.
Rest ==
  /\ in_session = stream_was_active
  /\ ready \in BOOLEAN /\ sessions_completed \in Nat
  /\ session_start_tick \in Clock /\ session_end_tick \in Clock
  /\ snapshot \in [in_session : BOOLEAN, elapsed : Clock,
                   true_elapsed : 0..MaxTime]

RInv == IInv /\ Window /\ Rest

LEMMA OneFlagMore ==
  ASSUME NEW r \in Seq(BOOLEAN), NEW f \in BOOLEAN, Len(r) \in 1..Register + 1,
         NEW n, n = IF Len(r) + 1 <= Register + 1 THEN Len(r) + 1
                    ELSE Register + 1
  PROVE  LET t == SubSeq(<<f>> \o r, 1, n)
         IN  /\ t \in Seq(BOOLEAN) /\ Len(t) = n
             /\ t[1] = f
             /\ \A i \in 2..n : t[i] = r[i - 1]
<1> DEFINE u == <<f>> \o r
<1>1. /\ u \in Seq(BOOLEAN) /\ Len(u) = Len(r) + 1
      /\ u[1] = f
      /\ \A i \in 2..Len(r) + 1 : u[i] = r[i - 1]
  OBVIOUS
<1>2. n \in 1..Len(u) /\ n \in Nat
  BY <1>1, SessionAssumption
<1> HIDE DEF u
<1>3. /\ SubSeq(u, 1, n) \in Seq(BOOLEAN) /\ Len(SubSeq(u, 1, n)) = n
      /\ \A i \in 1..n : SubSeq(u, 1, n)[i] = u[i]
  BY <1>1, <1>2
<1>4. QED
  BY <1>1, <1>2, <1>3 DEF u

(***************************************************************************)
(* The register is shifted whatever happens, and bit 0 set by a start.     *)
(***************************************************************************)
LEMMA WindowStep ==
  ASSUME Window, stream_was_active \in BOOLEAN,
         NEW f \in BOOLEAN, Heartbeat(f)
  PROVE  Window'
<1> USE SessionAssumption
<1> DEFINE start == ~stream_was_active /\ f
           n == IF Len(received) + 1 <= Register + 1 THEN Len(received) + 1
                ELSE Register + 1
<1>1. /\ session_start_window' =
           Shift(session_start_window) \cup (IF start THEN {0} ELSE {})
      /\ session_count' = Cardinality(session_start_window')
      /\ stream_was_active' = f
  BY DEF Heartbeat, Update, StartSession, EndSession, DiscardSession, NoEdge
<1>2. received' = SubSeq(<<f>> \o received, 1, n)
  BY DEF Heartbeat, Window
<1>3. /\ received' \in Seq(BOOLEAN) /\ Len(received') = n
      /\ received'[1] = f
      /\ \A i \in 2..n : received'[i] = received[i - 1]
  BY <1>2, OneFlagMore DEF Window
<1>4. n \in 2..Register + 1
  BY DEF Window
<1>5. 1 \in Starts' <=> start
  BY <1>3, <1>4 DEF Starts, Window
<1>6. ASSUME NEW b \in 1..Register - 1
      PROVE  b + 1 \in Starts' <=> b \in Starts
  <2>1. b + 1 < n <=> b < Len(received)
    BY DEF Window
  <2>2. b + 1 < n => /\ received'[b + 1] = received[b]
                     /\ received'[b + 2] = received[b + 1]
    BY <1>3, <1>4
  <2>3. b \in 1..Register /\ b + 1 \in 1..Register
    OBVIOUS
  <2> HIDE DEF n
  <2>4. b + 1 \in Starts' <=>
          b + 1 < n /\ received'[b + 1] /\ ~received'[b + 2]
    BY <1>3, <2>3 DEF Starts
  <2>5. b \in Starts <=> b < Len(received) /\ received[b] /\ ~received[b + 1]
    BY <2>3 DEF Starts
  <2>6. QED
    BY <2>1, <2>2, <2>4, <2>5
<1>7. session_start_window' \subseteq 0..Register - 1
  BY <1>1 DEF Shift
<1>8. ASSUME NEW b \in 0..Register - 1
      PROVE  b \in session_start_window' <=> b + 1 \in Starts'
  <2>1. CASE b = 0
    BY <1>1, <1>5, <2>1 DEF Shift, Window
  <2>2. CASE b # 0
    <3>1. b \in 1..Register - 1 /\ b - 1 \in 0..Register - 1
      BY <2>2
    <3>2. b \in session_start_window' <=> b - 1 \in session_start_window
      BY <1>1, <2>2, <3>1 DEF Shift, Window
    <3>3. b - 1 \in session_start_window <=> (b - 1) + 1 \in Starts
      BY <3>1 DEF Window
    <3>4. (b - 1) + 1 = b
      BY <3>1
    <3>5. QED
      BY <1>6, <3>1, <3>2, <3>3, <3>4
  <2>3. QED
    BY <2>1, <2>2
<1>9. Len(received') \in 1..Register + 1
  BY <1>3, <1>4
<1>10. QED
  BY <1>1, <1>3, <1>7, <1>8, <1>9 DEF Window

LEMMA RestStep ==
  ASSUME NoLap, IInv, Rest, [Next]_vars
  PROVE  Rest'
<1> USE SessionAssumption
<1>0. /\ stream_was_active \in BOOLEAN /\ time \in 0..MaxTime
      /\ log_timestamp \in Clock
      /\ \A a, b \in Clock : Minus(a, b) \in Clock
  BY MinusValue DEF IInv, Typed, log_timestamp, Clock
<1>1. ASSUME NEW f \in BOOLEAN, Heartbeat(f) PROVE Rest'
  <2>1. stream_was_active' = f /\ UNCHANGED snapshot
    BY <1>1 DEF Heartbeat, Update
  <2>2. CASE ~stream_was_active /\ f
    BY <1>0, <1>1, <2>1, <2>2 DEF Heartbeat, Update, StartSession, Rest
  <2>3. CASE stream_was_active /\ ~f
    <3>1. CASE DiscardSession
      BY <1>0, <2>1, <2>3, <3>1 DEF DiscardSession, Rest
    <3>2. CASE EndSession(log_timestamp, Minus(log_timestamp, session_start_tick))
      <4>1. /\ in_session' = FALSE /\ session_end_tick' = log_timestamp
            /\ sessions_completed' = sessions_completed + 1
            /\ ready' = (ready \/ sessions_completed' >= MinSessions)
            /\ UNCHANGED session_start_tick
        BY <3>2 DEF EndSession
      <4>2. ready' \in BOOLEAN
        BY <4>1
      <4>3. QED
        <5>1. in_session' = stream_was_active'
          BY <2>1, <2>3, <4>1
        <5>2. sessions_completed' \in Nat
          BY <4>1 DEF Rest
        <5>3. session_end_tick' \in Clock /\ session_start_tick' \in Clock
          BY <1>0, <4>1 DEF Rest
        <5>4. QED
          BY <2>1, <4>2, <5>1, <5>2, <5>3 DEF Rest
    <3>3. QED
      BY <1>1, <2>3, <3>1, <3>2 DEF Heartbeat, Update
  <2>4. CASE stream_was_active <=> f
    <3>1. NoEdge
      BY <1>1, <2>4 DEF Heartbeat, Update
    <3>2. stream_was_active = f
      BY <1>0, <2>4
    <3>3. QED
      BY <2>1, <3>1, <3>2 DEF NoEdge, Rest
  <2>5. QED
    BY <1>0, <2>2, <2>3, <2>4
<1>2. ASSUME GetSnapshot PROVE Rest'
  <2>1. tick_count \in Clock
    BY <1>0 DEF tick_count, Clock
  <2>2. in_session => time - startAt \in 0..MaxTime
    BY <1>0 DEF Rest, IInv, Typed, Running
  <2>3. 0 \in Clock /\ 0 \in 0..MaxTime
    BY DEF Clock
  <2>4. in_session \in BOOLEAN /\ session_start_tick \in Clock
    BY <1>0 DEF Rest
  <2>5. snapshot' \in [in_session : BOOLEAN, elapsed : Clock,
                       true_elapsed : 0..MaxTime]
    BY <1>0, <1>2, <2>1, <2>2, <2>3, <2>4 DEF GetSnapshot
  <2>6. UNCHANGED <<in_session, stream_was_active, ready, sessions_completed,
                    session_start_tick, session_end_tick>>
    BY <1>2 DEF GetSnapshot, tracker
  <2>7. QED
    BY <2>5, <2>6 DEF Rest
<1>3. ASSUME Tick PROVE Rest'
  BY <1>3 DEF Tick, tracker, Rest
<1>4. ASSUME UNCHANGED vars PROVE Rest'
  BY <1>4 DEF vars, tracker, Rest
<1>5. QED
  BY <1>1, <1>2, <1>3, <1>4 DEF Next

(***************************************************************************)
(* Two sessions do not begin with one heartbeat after the other, so that   *)
(* of d heartbeats at most every other one begins a session.               *)
(***************************************************************************)
LEMMA LateIsShort ==
  ASSUME received \in Seq(BOOLEAN)
  PROVE  /\ IsFiniteSet(Late)
         /\ Cardinality(Late) <= (Register - ActiveBits + 1) \div 2
<1> USE SessionAssumption
<1> DEFINE d == Register - ActiveBits
           T == 1..(d + 1) \div 2
           half == [i \in Late |-> (i - ActiveBits + 1) \div 2]
<1>1. d \in Nat /\ (d + 1) \div 2 \in Nat
  OBVIOUS
<1>2. IsFiniteSet(T) /\ Cardinality(T) = (d + 1) \div 2
  BY <1>1, FS_Interval
<1>3. ASSUME NEW i \in Late
      PROVE  i \in ActiveBits + 1..Register /\ received[i] /\ ~received[i + 1]
  BY <1>3 DEF Late, Starts
<1>4. ASSUME NEW i \in Late
      PROVE  (i - ActiveBits + 1) \div 2 \in T
  BY <1>3
<1>5. ASSUME NEW i \in Late, NEW j \in Late,
             (i - ActiveBits + 1) \div 2 = (j - ActiveBits + 1) \div 2
      PROVE  i = j
  <2>1. i \in ActiveBits + 1..Register /\ received[i] /\ ~received[i + 1]
    BY <1>3
  <2>2. j \in ActiveBits + 1..Register /\ received[j] /\ ~received[j + 1]
    BY <1>3
  <2>3. j # i + 1
    BY <2>1, <2>2, Zenon
  <2>4. i # j + 1
    BY <2>1, <2>2, Zenon
  <2>5. i \in Int /\ j \in Int /\ ActiveBits \in Int
    BY <2>1, <2>2
  <2>6. QED
    BY <1>5, <2>3, <2>4, <2>5
<1>6. half \in Injection(Late, T)
  <2>1. half \in [Late -> T]
    BY <1>4
  <2>2. \A i, j \in Late : half[i] = half[j] => i = j
    BY <1>5
  <2> HIDE DEF half, T
  <2>3. IsInjective(half)
    BY <2>1, <2>2 DEF IsInjective
  <2>4. QED
    BY <2>1, <2>3 DEF Injection
<1> HIDE DEF half, T
<1>7. QED
  BY <1>2, <1>6, FS_Injection DEF ExistsInjection

(***************************************************************************)
(* Counting the register's bits counts the starts.                         *)
(***************************************************************************)
LEMMA WindowCounts ==
  ASSUME Window
  PROVE  CountIsStarts /\ session_count \in 0..Register
<1> USE SessionAssumption
<1> DEFINE f == [b \in session_start_window |-> b + 1]
<1>1. /\ IsFiniteSet(0..Register - 1) /\ Cardinality(0..Register - 1) = Register
  <2>1. 0 \in Int /\ Register - 1 \in Int
    OBVIOUS
  <2>2. QED
    BY <2>1, FS_Interval
<1>2. /\ IsFiniteSet(session_start_window)
      /\ Cardinality(session_start_window) <= Register
  <2>1. session_start_window \in SUBSET (0..Register - 1)
    BY DEF Window
  <2>2. QED
    BY <1>1, <2>1, FS_Subset
<1>3. f \in Bijection(session_start_window, Starts)
  <2>1. \A b \in session_start_window : b \in 0..Register - 1 /\ b + 1 \in Starts
    BY DEF Window
  <2>2. \A i \in Starts : i - 1 \in session_start_window /\ i = (i - 1) + 1
    <3>1. \A i \in Starts : i \in 1..Register
      BY DEF Starts
    <3>2. \A i \in Starts : i - 1 \in 0..Register - 1 /\ i = (i - 1) + 1
      BY <3>1
    <3>3. QED
      BY <3>2 DEF Window
  <2>3. f \in [session_start_window -> Starts]
    BY <2>1
  <2>4. \A a, b \in session_start_window : f[a] = f[b] => a = b
    BY <2>1
  <2>5. \A i \in Starts : \E b \in session_start_window : f[b] = i
    BY <2>2
  <2> HIDE DEF f
  <2>6. f \in Injection(session_start_window, Starts)
    <3>1. DOMAIN f = session_start_window
      BY <2>3
    <3>2. IsInjective(f)
      BY <2>4, <3>1 DEF IsInjective
    <3>3. QED
      BY <2>3, <3>2 DEF Injection
  <2>7. f \in Surjection(session_start_window, Starts)
    BY <2>3, <2>5, Zenon DEF Surjection
  <2>8. QED
    BY <2>6, <2>7 DEF Bijection
<1>4. Cardinality(Starts) = Cardinality(session_start_window)
  BY <1>2, <1>3, FS_Bijection DEF ExistsBijection
<1>5. Cardinality(session_start_window) \in Nat
  BY <1>2, FS_CardinalityType
<1>6. IsFiniteSet(Starts)
  BY <1>2, <1>3, FS_Bijection DEF ExistsBijection
<1>7. IsFiniteSet(Promised) /\ IsFiniteSet(Late)
  BY <1>6, FS_Subset DEF Promised, Late
<1>8. Promised \cup Late = Starts /\ Promised \cap Late = {}
  BY DEF Promised, Late, Starts
<1>9. Cardinality(Promised) \in Nat /\ Cardinality(Late) \in Nat
  BY <1>7, FS_CardinalityType
<1>10. Cardinality(Starts) = Cardinality(Promised) + Cardinality(Late)
  <2>1. Cardinality(Promised \cup Late) =
          Cardinality(Promised) + Cardinality(Late) - Cardinality(Promised \cap Late)
    BY <1>7, FS_Union
  <2>2. Cardinality(Promised \cap Late) = 0
    BY <1>8, FS_EmptySet
  <2>3. QED
    BY <1>8, <1>9, <2>1, <2>2
<1>11. Cardinality(Late) <= (Register - ActiveBits + 1) \div 2
  BY LateIsShort DEF Window
<1>12. QED
  BY <1>2, <1>4, <1>5, <1>10, <1>11 DEF Window, CountIsStarts

(***************************************************************************)
(* The count of sessions has those begun in the last ActiveBits            *)
(* heartbeats, discarded ones included, and those of the heartbeats before *)
(* whose bits are still in the register, of which at most every other has  *)
(* one (session_tracker.c:146-153, 213; session_tracker.h:18, 155 promise  *)
(* the former only), for every length of the register and of its part.     *)
(***************************************************************************)
THEOREM RegisterInvHolds ==
  ASSUME NoLap
  PROVE  Spec => []RegisterInv
<1>1. Init => RInv
  <2> SUFFICES ASSUME Init PROVE Window /\ Rest
    BY IInvInit DEF RInv
  <2>1. received \in Seq(BOOLEAN) /\ Len(received) = 1 /\ received[1] = FALSE
    BY DEF Init
  <2>2. Starts = {}
    BY <2>1 DEF Starts
  <2>3. session_start_window = {} /\ session_count = 0 /\ stream_was_active = FALSE
    BY DEF Init
  <2>4. Cardinality({}) = 0
    BY FS_EmptySet
  <2>5. Window
    <3>1. Len(received) \in 1..Register + 1
      BY <2>1, SessionAssumption
    <3>2. session_count = Cardinality(session_start_window)
      BY <2>3, <2>4
    <3>3. \A b \in 0..Register - 1 :
            b \in session_start_window <=> b + 1 \in Starts
      BY <2>2, <2>3
    <3>4. session_start_window \subseteq 0..Register - 1
      BY <2>3
    <3>5. QED
      BY <2>1, <2>3, <3>1, <3>2, <3>3, <3>4 DEF Window
  <2>6. 0 \in Clock /\ 0 \in 0..MaxTime
    BY SessionAssumption DEF Clock
  <2>7. Rest
    BY <2>6 DEF Init, Rest
  <2>8. QED
    BY <2>5, <2>7
<1>2. RInv /\ [Next]_vars => RInv'
  <2> SUFFICES ASSUME RInv, [Next]_vars PROVE IInv' /\ Window' /\ Rest'
    BY DEF RInv
  <2>1. IInv' /\ Rest'
    BY IInvStep, RestStep DEF RInv
  <2>2. CASE \E f \in BOOLEAN : Heartbeat(f)
    BY <2>1, <2>2, WindowStep DEF RInv, IInv, Typed
  <2>3. CASE GetSnapshot \/ Tick \/ UNCHANGED vars
    <3>1. UNCHANGED <<received, stream_was_active, session_start_window,
                      session_count>>
      BY <2>3 DEF GetSnapshot, Tick, vars, tracker
    <3>2. QED
      BY <2>1, <3>1 DEF RInv, Window, Starts
  <2>4. QED
    BY <2>1, <2>2, <2>3 DEF Next, RInv
<1>3. RInv => RegisterInv
  <2> SUFFICES ASSUME RInv PROVE TypeOK /\ CountIsStarts
    BY DEF RegisterInv
  <2>1. CountIsStarts /\ session_count \in 0..Register
    BY WindowCounts DEF RInv
  <2>2. TypeOK
    BY <2>1 DEF RInv, IInv, Typed, Window, Rest, TypeOK
  <2>3. QED
    BY <2>1, <2>2
<1>4. QED
  BY <1>1, <1>2, <1>3, PTL DEF Spec

=============================================================================
