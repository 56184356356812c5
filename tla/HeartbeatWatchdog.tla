------------------------- MODULE HeartbeatWatchdog --------------------------
(***************************************************************************)
(* anomaly_engine.c, the heartbeat watchdog: a low-priority task that      *)
(* wakes every second, copies the time of the last heartbeat under a       *)
(* mutex, and after it has let go of the mutex reads the clock and decides *)
(* whether the camera has been silent for too long.  The receiver task     *)
(* records a heartbeat at any moment, also between the two reads.          *)
(*                                                                         *)
(* Time is explicit.  The clock is esp_log_timestamp(), a 32-bit count of  *)
(* milliseconds that wraps, here ClockMod ticks long; silence is the true  *)
(* time.  A task that is due runs at most Jitter ticks late.               *)
(***************************************************************************)
EXTENDS Integers

CONSTANTS Timeout,     \* HEARTBEAT_TIMEOUT_MS (30000)
          Poll,        \* the task's vTaskDelay (1000 ms)
          Jitter,      \* how late the scheduler may run a task that is due
          ClockMod,    \* the clock's range (2^32)
          MaxSilence   \* bound: the longest silence explored

ASSUME WatchdogAssumption ==
  /\ Timeout \in Nat \ {0}
  /\ Poll \in Nat \ {0}
  /\ Jitter \in Nat
  /\ ClockMod \in Nat \ {0}
  /\ MaxSilence \in Nat
  /\ Poll + 2 * Jitter < Timeout

VARIABLES
  clock,                \* esp_log_timestamp()
  s_last_hb_ms,         \* the clock at the last heartbeat, 0 before any
  s_hb_timeout_active,  \* the camera is reported missing
  task,                 \* where watchdog_task is
  wake,                 \* ticks until it is due, negative when it is late
  last,                 \* its copy of s_last_hb_ms
  silence,              \* ghost: true time since a heartbeat was recorded
  calm,                 \* ghost: how long the camera has been reported missing
                        \* though silence was below Timeout
  report                \* ghost: its last alert, and silence at that moment

watchdogVars == <<clock, s_last_hb_ms, s_hb_timeout_active, task, wake, last, silence,
          calm, report>>

CalmCap == 2 * (Poll + Jitter + Timeout)

WatchdogInit ==
  /\ clock = 0
  /\ s_last_hb_ms = 0
  /\ s_hb_timeout_active = FALSE
  /\ task = "waiting"
  /\ wake = 0
  /\ last = 0
  /\ silence = 0
  /\ calm = 0
  /\ report = [alert |-> "none", silence |-> 0]

\* vTaskDelay between two polls.
SleepTwice == 2 * Poll   \* mutant: two delays between two polls
SleepTime == Poll

\* uint32_t subtraction.
ElapsedSigned(now, then) == IF now >= then THEN now - then ELSE 0   \* mutant
Elapsed(now, then) == (now - then) % ClockMod

\* The loop before the first heartbeat: 0 stands for "none yet".
AwaitFirst ==
  /\ task = "waiting"
  /\ wake <= 0
  /\ task' = IF s_last_hb_ms # 0 THEN "sleeping" ELSE "waiting"
  /\ wake' = SleepTime
  /\ UNCHANGED <<clock, s_last_hb_ms, s_hb_timeout_active, last, silence, calm,
                 report>>

\* Awake: copy the time of the last heartbeat, under the mutex.
ReadLast ==
  /\ task = "sleeping"
  /\ wake <= 0
  /\ last' = s_last_hb_ms
  /\ task' = "judging"
  /\ UNCHANGED <<clock, s_last_hb_ms, s_hb_timeout_active, wake, silence, calm,
                 report>>

Report(alert) == report' = [alert |-> alert, silence |-> silence]

\* Mutant: a camera that is reported missing has to be heard within a poll.
JudgeStrictly ==
  LET limit == IF s_hb_timeout_active THEN Poll ELSE Timeout
      missing == Elapsed(clock, last) >= limit
  IN  /\ task = "judging"
      /\ s_hb_timeout_active' = missing
      /\ IF missing /\ ~s_hb_timeout_active THEN Report("HEARTBEAT_MISSING")
         ELSE IF ~missing /\ s_hb_timeout_active THEN Report("DEVICE_CONNECTED")
         ELSE UNCHANGED report
      /\ calm' = IF missing THEN calm ELSE 0
      /\ task' = "sleeping"
      /\ wake' = SleepTime
      /\ UNCHANGED <<clock, s_last_hb_ms, last, silence>>

\* Read the clock, decide, raise what there is to raise, and sleep.
Judge ==
  LET missing == Elapsed(clock, last) >= Timeout
  IN  /\ task = "judging"
      /\ s_hb_timeout_active' = missing
      /\ IF missing /\ ~s_hb_timeout_active THEN Report("HEARTBEAT_MISSING")
         ELSE IF ~missing /\ s_hb_timeout_active THEN Report("DEVICE_CONNECTED")
         ELSE UNCHANGED report
      /\ calm' = IF missing THEN calm ELSE 0
      /\ task' = "sleeping"
      /\ wake' = SleepTime
      /\ UNCHANGED <<clock, s_last_hb_ms, last, silence>>

\* anomaly_engine_heartbeat_received, called by the receiver task.
HeartbeatReceived ==
  /\ s_last_hb_ms' = clock
  /\ silence' = 0
  /\ UNCHANGED <<clock, s_hb_timeout_active, task, wake, last, calm, report>>

Tick ==
  /\ wake > -Jitter
  /\ silence < MaxSilence
  /\ clock' = (clock + 1) % ClockMod
  /\ wake' = wake - 1
  /\ silence' = silence + 1
  /\ calm' = IF s_hb_timeout_active /\ silence' < Timeout
             THEN IF calm < CalmCap THEN calm + 1 ELSE calm
             ELSE 0
  /\ UNCHANGED <<s_last_hb_ms, s_hb_timeout_active, task, last, report>>

WatchdogNext == AwaitFirst \/ ReadLast \/ Judge \/ HeartbeatReceived \/ Tick

WatchdogSpec == WatchdogInit /\ [][WatchdogNext]_watchdogVars

-----------------------------------------------------------------------------
\* Every variable has its type.
WatchdogTypeOK ==
  /\ clock \in 0..ClockMod - 1
  /\ s_last_hb_ms \in 0..ClockMod - 1
  /\ s_hb_timeout_active \in BOOLEAN
  /\ task \in {"waiting", "sleeping", "judging"}
  /\ wake \in -Jitter..Poll
  /\ last \in 0..ClockMod - 1
  /\ silence \in 0..MaxSilence
  /\ calm \in 0..CalmCap
  /\ report \in [alert : {"none", "HEARTBEAT_MISSING", "DEVICE_CONNECTED"},
                 silence : 0..MaxSilence]

\* The watchdog has been told of a heartbeat it takes for one: a heartbeat
\* stamped 0 looks like none while the task is still in its first loop.
Watched == task # "waiting" \/ s_last_hb_ms # 0

\* A camera that falls silent is reported within one polling period and one
\* scheduling delay of the timeout (anomaly_engine.c:127-144).
DetectedInTime ==
  Watched /\ ~s_hb_timeout_active => silence < Timeout + Poll + Jitter

\* A camera that is back is no longer reported missing after one polling
\* period and the delays of two wake-ups: a heartbeat that slips in between the
\* two reads of one is only noticed by the next (anomaly_engine.c:127-151).
RecoveredInTime ==
  calm <= Poll + 2 * Jitter

\* "Heartbeat resumed - device back online" (anomaly_engine.c:146-149): when
\* the watchdog says so a heartbeat did arrive within the timeout.
ResumedMeansHeartbeat ==
  report.alert = "DEVICE_CONNECTED" => report.silence < Timeout

=============================================================================
