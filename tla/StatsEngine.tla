---------------------------- MODULE StatsEngine -----------------------------
(***************************************************************************)
(* stats_engine.c: what the monitor learns from each heartbeat, together   *)
(* with the camera and the network that bring it.                          *)
(*                                                                         *)
(* The receiver task is the only writer and the whole update runs under    *)
(* the module's mutex, so an update is one action.  Of the four metrics    *)
(* the module keeps the two whose samples depend on more than the          *)
(* heartbeat at hand: the interval between heartbeats and the reconnects   *)
(* since the last sample.  RSSI and viewers are added as they come.        *)
(*                                                                         *)
(* time is true time since the monitor booted; the code sees it through    *)
(* esp_log_timestamp(), which wraps.  Heartbeats are UDP datagrams: lost   *)
(* or duplicated, but on the single hop between the boards not reordered.  *)
(***************************************************************************)
EXTENDS Integers, Sequences

CONSTANTS Learning,     \* STATS_LEARNING_DURATION_S (300 s)
          IntervalClamp,\* intervals from here on are ignored (120 s)
          RateMin,      \* a rate is computed over at least this (1 s)
          ClockMod,     \* the range of esp_log_timestamp() (2^32 ms)
          MaxTime,      \* bound: true time
          MaxReconnects,\* bound: reconnects of the camera
          MaxInFlight,  \* bound: heartbeats in the network
          SampleCap     \* bound: where samples_total stops counting

ASSUME StatsAssumption ==
  /\ Learning \in Nat \ {0}
  /\ IntervalClamp \in Nat \ {0}
  /\ RateMin \in Nat
  /\ ClockMod \in Nat \ {0}
  /\ Learning < ClockMod
  /\ MaxTime \in Nat
  /\ MaxReconnects \in Nat
  /\ MaxInFlight \in Nat
  /\ SampleCap \in Nat /\ SampleCap >= 3

VARIABLES
  time,         \* true time
  camera,       \* the camera: its reconnect counter and the true total
  network,      \* heartbeats in flight, in order: what camera was
  \* s_state of stats_engine.c
  learning_end_ms, learning_done, samples_total,
  last_rx_ms, first_sample, hb_interval,
  last_reconnect_count, reconnect_window_start_ms,
  accounted,    \* ghost: reconnects that have gone into a rate sample
  heard         \* ghost: true times and reconnects at the first, the last but
                \* one and the last heartbeat processed

stats == <<learning_end_ms, learning_done, samples_total, last_rx_ms,
           first_sample, hb_interval, last_reconnect_count,
           reconnect_window_start_ms>>
ghosts == <<accounted, heard>>
vars == <<time, camera, network, stats, ghosts>>

now_ms == time % ClockMod

\* uint32_t subtraction
Since(then) == (now_ms - then) % ClockMod

NotSeen == -1

Init ==
  /\ time = 0
  /\ camera = [count |-> 0, total |-> 0, rebooted |-> FALSE]
  /\ network = <<>>
  /\ learning_end_ms = 0
  /\ learning_done = FALSE
  /\ samples_total = 0
  /\ last_rx_ms = 0
  /\ first_sample = TRUE
  /\ hb_interval = [count |-> 0, latest |-> 0]
  /\ last_reconnect_count = NotSeen
  /\ reconnect_window_start_ms = 0
  /\ accounted = 0
  /\ heard = [firstAt |-> 0, prevAt |-> 0, lastAt |-> 0, first |-> camera,
              last |-> camera]

-----------------------------------------------------------------------------
(* The camera and the network *)

\* The camera loses its access point and gets it back.
Reconnect ==
  /\ camera.total < MaxReconnects
  /\ camera' = [camera EXCEPT !.count = @ + 1, !.total = @ + 1]
  /\ UNCHANGED <<time, network, stats, ghosts>>

\* The counter is kept in RAM.
CameraReboot ==
  /\ ~camera.rebooted
  /\ camera' = [camera EXCEPT !.count = 0, !.rebooted = TRUE]
  /\ UNCHANGED <<time, network, stats, ghosts>>

Send ==
  /\ Len(network) < MaxInFlight
  /\ network' = Append(network, camera)
  /\ UNCHANGED <<time, camera, stats, ghosts>>

Lose ==
  /\ network # <<>>
  /\ network' = Tail(network)
  /\ UNCHANGED <<time, camera, stats, ghosts>>

Tick ==
  /\ time < MaxTime
  /\ time' = time + 1
  /\ UNCHANGED <<camera, network, stats, ghosts>>

-----------------------------------------------------------------------------
(* stats_engine_update *)

UpTo(cap, n) == IF n < cap THEN n ELSE cap

\* Mutant: the heartbeat on which the time is up still learns.
UpdateLearningLate ==
  LET end == IF samples_total = 0 THEN (now_ms + Learning) % ClockMod
                                  ELSE learning_end_ms
      ends == ~learning_done /\ now_ms > end /\ samples_total > 0
  IN  /\ learning_end_ms' = end
      /\ learning_done' = (learning_done \/ ends)

\* The learning timer.  The alert LEARNING_COMPLETE, which the code raises on
\* every heartbeat and once more on the one that ends the learning phase, is in
\* Monitor.
UpdateLearning ==
  LET end == IF samples_total = 0 THEN (now_ms + Learning) % ClockMod
                                  ELSE learning_end_ms
      ends == ~learning_done /\ now_ms >= end /\ samples_total > 0
  IN  /\ learning_end_ms' = end
      /\ learning_done' = (learning_done \/ ends)

\* Mutant: an interval that is ignored does not end.
UpdateIntervalOnlyValid ==
  LET interval == Since(last_rx_ms)
      valid == ~first_sample /\ interval > 0 /\ interval < IntervalClamp
  IN  /\ hb_interval' = IF valid
                        THEN [count  |-> UpTo(SampleCap, hb_interval.count + 1),
                              latest |-> interval]
                        ELSE hb_interval
      /\ first_sample' = FALSE
      /\ last_rx_ms' = IF first_sample \/ valid THEN now_ms ELSE last_rx_ms

UpdateInterval ==
  LET interval == Since(last_rx_ms)
      valid == ~first_sample /\ interval > 0 /\ interval < IntervalClamp
  IN  /\ hb_interval' = IF valid
                        THEN [count  |-> UpTo(SampleCap, hb_interval.count + 1),
                              latest |-> interval]
                        ELSE hb_interval
      /\ first_sample' = FALSE
      /\ last_rx_ms' = now_ms

\* Mutant: the baseline is never slid.
UpdateReconnectsFromFirst(count) ==
  LET seen  == last_reconnect_count # NotSeen
      delta == IF count > last_reconnect_count
               THEN count - last_reconnect_count ELSE 0
  IN  /\ last_reconnect_count' = IF seen THEN last_reconnect_count ELSE count
      /\ reconnect_window_start_ms' = now_ms
      /\ accounted' = IF seen THEN accounted + delta ELSE accounted

\* compute_reconnect_rate: the delta that a new rate sample stands for.
UpdateReconnects(count) ==
  LET seen  == last_reconnect_count # NotSeen
      delta == IF count > last_reconnect_count
               THEN count - last_reconnect_count ELSE 0
      tooSoon == Since(reconnect_window_start_ms) < RateMin
  IN  IF seen /\ tooSoon
      THEN UNCHANGED <<last_reconnect_count, reconnect_window_start_ms,
                       accounted>>
      ELSE /\ last_reconnect_count' = count
           /\ reconnect_window_start_ms' = now_ms
           /\ accounted' = IF seen THEN accounted + delta ELSE accounted

Update(hb) ==
  /\ UpdateLearning
  /\ UpdateInterval
  /\ UpdateReconnects(hb.count)
  /\ samples_total' = UpTo(SampleCap, samples_total + 1)
  /\ heard' = [firstAt |-> IF first_sample THEN time ELSE heard.firstAt,
               prevAt  |-> IF first_sample THEN time ELSE heard.lastAt,
               lastAt  |-> time,
               first   |-> IF first_sample THEN hb ELSE heard.first,
               last    |-> hb]

Deliver ==
  /\ network # <<>>
  /\ Update(Head(network))
  /\ network' = Tail(network)
  /\ UNCHANGED <<time, camera>>

\* The datagram arrives, and arrives again later.
DeliverCopy ==
  /\ network # <<>>
  /\ Update(Head(network))
  /\ UNCHANGED <<time, camera, network>>

Next == Reconnect \/ CameraReboot \/ Send \/ Lose \/ Tick \/ Deliver \/ DeliverCopy

Spec == Init /\ [][Next]_vars

-----------------------------------------------------------------------------
Camera == [count : 0..MaxReconnects, total : 0..MaxReconnects,
           rebooted : BOOLEAN]
Clock == 0..ClockMod - 1

\* Every variable has its type.
TypeOK ==
  /\ time \in 0..MaxTime
  /\ camera \in Camera
  /\ network \in Seq(Camera) /\ Len(network) <= MaxInFlight
  /\ learning_end_ms \in Clock
  /\ learning_done \in BOOLEAN
  /\ samples_total \in 0..SampleCap
  /\ last_rx_ms \in Clock
  /\ first_sample \in BOOLEAN
  /\ hb_interval \in [count : 0..SampleCap, latest : 0..IntervalClamp - 1]
  /\ last_reconnect_count \in 0..MaxReconnects \cup {NotSeen}
  /\ reconnect_window_start_ms \in Clock
  /\ accounted \in 0..MaxReconnects
  /\ heard \in [firstAt : 0..MaxTime, prevAt : 0..MaxTime, lastAt : 0..MaxTime,
                first : Camera, last : Camera]

\* Detection is enabled by the first heartbeat that arrives once the learning
\* time has passed since the first one, and by none before it
\* (stats_engine.c:203-234), however heartbeats are lost or bunched.
LearningExact ==
  learning_done <=> samples_total > 1 /\ heard.lastAt - heard.firstAt >= Learning

\* No reconnect is counted twice: the rate samples never stand for more of them
\* than happened between the first and the last heartbeat processed, though
\* heartbeats are lost and repeated, come in bursts faster than a rate can be
\* computed, and the camera's counter restarts (stats_engine.c:151-174).
NoneCountedTwice == accounted <= heard.last.total - heard.first.total

\* And none is lost: until the camera reboots, those not in a sample yet are
\* still to be found between the counter and the baseline it is compared with.
NoneLost ==
  ~heard.last.rebooted =>
    accounted + (heard.last.count
                  - IF first_sample THEN 0 ELSE last_reconnect_count)
      = heard.last.total - heard.first.total

\* Each reconnect the camera counts goes into one rate sample, neither none nor
\* two, in variables that keep their types (stats_engine.c:151-174).
ReconnectsCountedOnce == TypeOK /\ NoneCountedTwice /\ NoneLost

\* The latest interval is the true time between the last two heartbeats,
\* whenever that is one the code accepts (stats_engine.c:240-249).
IntervalIsGap ==
  heard.lastAt - heard.prevAt \in 1..IntervalClamp - 1 =>
    hb_interval.latest = heard.lastAt - heard.prevAt

=============================================================================
