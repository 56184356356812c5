--------------------------- MODULE SessionTracker ---------------------------
(***************************************************************************)
(* session_tracker.c: streaming sessions, as the monitor makes them out    *)
(* from the stream_active flag of each heartbeat.  The receiver task is    *)
(* the only writer and commits under the module's mutex; the HTTP task and *)
(* the fingerprint engine take snapshots under it at any time.             *)
(*                                                                         *)
(* The module reads two clocks.  Heartbeats are stamped with               *)
(* esp_log_timestamp(), which counts from the reset and therefore runs     *)
(* LogBase ahead of xTaskGetTickCount(), which counts from the start of    *)
(* the scheduler and is what the snapshot uses.  Both wrap at 32 bits.     *)
(*                                                                         *)
(* A moving average is abstracted to what it has been fed: how many        *)
(* samples, and their sum.                                                 *)
(***************************************************************************)
EXTENDS Integers, Sequences, FiniteSets

CONSTANTS MinDuration,  \* SESSION_MIN_DURATION_MS (2000)
          MinSessions,  \* SESSION_MIN_SESSIONS (5)
          Register,     \* bits of session_start_window (64)
          ActiveBits,   \* how many of them are meant to count (60)
          LogBase,      \* esp_log_timestamp() less the tick clock
          ClockMod,     \* the range of both clocks (2^32)
          MaxTime       \* bound: true time

ASSUME SessionAssumption ==
  /\ MinDuration \in Nat
  /\ MinSessions \in Nat \ {0}
  /\ Register \in Nat \ {0}
  /\ ActiveBits \in 1..Register
  /\ ClockMod \in Nat \ {0}
  /\ LogBase \in 0..ClockMod - 1
  /\ MaxTime \in Nat

VARIABLES
  time,                  \* true time since the scheduler started
  \* s_state of session_tracker.c
  stream_was_active, in_session, has_prior_end,
  session_start_tick, session_end_tick,
  duration, interval,    \* the two averages
  session_start_window,  \* the register: the positions of its set bits
  session_count, sessions_completed, ready,
  snapshot,              \* what the last get_snapshot returned
  received,              \* ghost: the last Register + 1 flags, newest first
  startAt,               \* ghost: true time of the last session start
  span                   \* ghost: true times of the start of the first and of
                         \* the end of the last session that was kept

tracker == <<stream_was_active, in_session, has_prior_end, session_start_tick,
             session_end_tick, duration, interval, session_start_window,
             session_count, sessions_completed, ready>>
vars == <<time, tracker, snapshot, received, startAt, span>>

\* esp_log_timestamp() and the tick clock, in milliseconds.
log_timestamp == (time + LogBase) % ClockMod
tick_count == time % ClockMod

Minus(a, b) == (a - b) % ClockMod    \* uint32_t subtraction

Fresh == [n |-> 0, total |-> 0]
Feed(average, x) == [n |-> average.n + 1, total |-> average.total + x]

Init ==
  /\ time = 0
  /\ stream_was_active = FALSE /\ in_session = FALSE /\ has_prior_end = FALSE
  /\ session_start_tick = 0 /\ session_end_tick = 0
  /\ duration = Fresh /\ interval = Fresh
  /\ session_start_window = {}
  /\ session_count = 0 /\ sessions_completed = 0 /\ ready = FALSE
  /\ snapshot = [in_session |-> FALSE, elapsed |-> 0, true_elapsed |-> 0]
  /\ received = <<FALSE>>
  /\ startAt = 0
  /\ span = [from |-> 0, to |-> 0]

-----------------------------------------------------------------------------
Shift(window) == {b + 1 : b \in window} \cap 0..Register - 1

\* A session has begun with this heartbeat.
StartSession(last_rx_tick_ms) ==
  /\ in_session' = TRUE
  /\ session_start_tick' = last_rx_tick_ms
  /\ session_start_window' = Shift(session_start_window) \cup {0}
  /\ startAt' = time
  /\ UNCHANGED <<has_prior_end, session_end_tick, duration, interval,
                 sessions_completed, ready, span>>

\* Mutant: the pause is counted from the end of a discarded session, too.
DiscardSessionEnds ==
  /\ in_session' = FALSE
  /\ session_start_window' = Shift(session_start_window)
  /\ session_end_tick' = log_timestamp
  /\ UNCHANGED <<has_prior_end, session_start_tick, duration, interval,
                 sessions_completed, ready, startAt, span>>

\* The session has ended; it was too short and counts for nothing.
DiscardSession ==
  /\ in_session' = FALSE
  /\ session_start_window' = Shift(session_start_window)
  /\ UNCHANGED <<has_prior_end, session_start_tick, session_end_tick, duration,
                 interval, sessions_completed, ready, startAt, span>>

\* The session has ended and feeds the averages.
EndSession(last_rx_tick_ms, duration_ms) ==
  /\ in_session' = FALSE
  /\ session_start_window' = Shift(session_start_window)
  /\ duration' = Feed(duration, duration_ms)
  /\ interval' = IF has_prior_end
                 THEN Feed(interval, Minus(session_start_tick, session_end_tick))
                 ELSE interval
  /\ session_end_tick' = last_rx_tick_ms
  /\ has_prior_end' = TRUE
  /\ sessions_completed' = sessions_completed + 1
  /\ ready' = (ready \/ sessions_completed' >= MinSessions)
  /\ span' = [from |-> IF has_prior_end THEN span.from ELSE startAt,
              to   |-> time]
  /\ UNCHANGED <<session_start_tick, startAt>>

\* Mutant: the register moves only when a session starts or ends.
NoEdgeNoShift ==
  UNCHANGED <<session_start_window, in_session, has_prior_end,
              session_start_tick, session_end_tick, duration, interval,
              sessions_completed, ready, startAt, span>>

NoEdge ==
  /\ session_start_window' = Shift(session_start_window)
  /\ UNCHANGED <<in_session, has_prior_end, session_start_tick,
                 session_end_tick, duration, interval, sessions_completed,
                 ready, startAt, span>>

\* session_tracker_update
Update(stream_active, last_rx_tick_ms) ==
  LET duration_ms == Minus(last_rx_tick_ms, session_start_tick)
  IN  /\ CASE ~stream_was_active /\ stream_active -> StartSession(last_rx_tick_ms)
           [] stream_was_active /\ ~stream_active ->
                IF duration_ms >= MinDuration
                THEN EndSession(last_rx_tick_ms, duration_ms)
                ELSE DiscardSession
           [] OTHER -> NoEdge
      /\ session_count' = Cardinality(session_start_window')
      /\ stream_was_active' = stream_active

\* A heartbeat arrives, is stamped and processed.
Heartbeat(stream_active) ==
  /\ Update(stream_active, log_timestamp)
  /\ received' = LET r == <<stream_active>> \o received
                 IN  SubSeq(r, 1, IF Len(r) <= Register + 1 THEN Len(r)
                                  ELSE Register + 1)
  /\ UNCHANGED <<time, snapshot>>

\* session_tracker_get_snapshot
GetSnapshot ==
  /\ snapshot' = [in_session   |-> in_session,
                  elapsed      |-> IF in_session
                                   THEN Minus(tick_count, session_start_tick)
                                   ELSE 0,
                  true_elapsed |-> IF in_session THEN time - startAt ELSE 0]
  /\ UNCHANGED <<time, tracker, received, startAt, span>>

Tick ==
  /\ time < MaxTime
  /\ time' = time + 1
  /\ UNCHANGED <<tracker, snapshot, received, startAt, span>>

Next ==
  \/ \E stream_active \in BOOLEAN : Heartbeat(stream_active)
  \/ GetSnapshot
  \/ Tick

Spec == Init /\ [][Next]_vars

-----------------------------------------------------------------------------
Clock == 0..ClockMod - 1
Average == [n : Nat, total : Nat]

\* Every variable has its type.
TypeOK ==
  /\ time \in 0..MaxTime
  /\ stream_was_active \in BOOLEAN /\ in_session \in BOOLEAN
  /\ has_prior_end \in BOOLEAN /\ ready \in BOOLEAN
  /\ session_start_tick \in Clock /\ session_end_tick \in Clock
  /\ duration \in Average /\ interval \in Average
  /\ session_start_window \subseteq 0..Register - 1
  /\ session_count \in 0..Register
  /\ sessions_completed \in Nat
  /\ snapshot \in [in_session : BOOLEAN, elapsed : Clock,
                   true_elapsed : 0..MaxTime]
  /\ received \in Seq(BOOLEAN)
  /\ startAt \in 0..MaxTime
  /\ span \in [from : 0..MaxTime, to : 0..MaxTime]

\* The sessions kept and the pauses between them tile the time from the start
\* of the first to the end of the last, with one pause between any two
\* neighbours: no stretch of time enters two averages or none, also where
\* sessions in between were discarded and the clock wrapped
\* (session_tracker.c:131-140, 155-208).
TimeIsTiled ==
  /\ duration.total + interval.total = span.to - span.from
  /\ duration.n = sessions_completed
  /\ interval.n = IF sessions_completed = 0 THEN 0 ELSE sessions_completed - 1

\* The rising edges among the last Register heartbeats, newest first: those of the
\* window that session_tracker.h promises, and those of the heartbeats before it.
Starts ==
  {i \in 1..Register : i < Len(received) /\ received[i] /\ ~received[i + 1]}
Promised == {i \in Starts : i <= ActiveBits}
Late == {i \in Starts : i > ActiveBits}

\* How far session_count is from the number of sessions that began in the last
\* ActiveBits heartbeats, which is what session_tracker.h:18, 50-51 and 155 say it
\* is: it has every one of them, discarded ones included, and beside them those
\* of the Register - ActiveBits heartbeats before, whose bits have not left the
\* register yet (session_tracker.c:146-153, 213).  A session takes a heartbeat to
\* end, so with 64 bits for 60 heartbeats the count is at most 2 too high.
CountIsStarts ==
  /\ session_count = Cardinality(Promised) + Cardinality(Late)
  /\ Cardinality(Late) <= (Register - ActiveBits + 1) \div 2

\* The register and all that is kept with it: typed, and counted as far off as that.
RegisterInv == TypeOK /\ CountIsStarts

=============================================================================
