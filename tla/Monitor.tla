------------------------------ MODULE Monitor -------------------------------
(***************************************************************************)
(* The monitor's tasks around the modules they share: app_main (main.c)    *)
(* initialises the modules in turn and starts the other tasks on the way;  *)
(* udp_rx (udp_receiver.c) takes one heartbeat at a time through all of    *)
(* them; the HTTP task's /status handler (dashboard_server.c) copies one   *)
(* module's state after the other into its answer.  Of the watchdog task,  *)
(* which has a module of its own, HeartbeatWatchdog, and of app_main when  *)
(* it has booted, only the alerts they raise are here.                     *)
(*                                                                         *)
(* A step is what a task does under one mutex.  Two modules raise alerts,  *)
(* and so take the alert manager's mutex, while they hold their own: those *)
(* are the steps between which a mutex stays held.  What the modules       *)
(* compute is abstracted: whether learning ends, and whether a detector    *)
(* sets or clears its alert, is any outcome its gates allow.  The alert    *)
(* manager is the log that AlertManager is shown to implement, AlertLog.   *)
(***************************************************************************)
EXTENDS Integers, Sequences

CONSTANTS MinSamples,   \* BEHAVIOR_PROFILE_MIN_SAMPLES (120)
          HistorySize,  \* ALERT_HISTORY_SIZE (32)
          PageAlerts,   \* the alerts /status asks for (8)
          Metrics,      \* the z-score detectors of anomaly_engine (4)
          MaxPackets,   \* bound: heartbeats received
          MaxOthers     \* bound: alerts of app_main and the watchdog

ASSUME MonitorAssumption ==
  /\ MinSamples \in Nat \ {0}
  /\ HistorySize \in Nat \ {0} /\ PageAlerts \in 1..HistorySize
  /\ Metrics \in Nat
  /\ MaxPackets \in Nat /\ MaxOthers \in Nat

VARIABLES
  boot,          \* app_main: how many of InitOrder are done
  rx,            \* udp_rx: the next step
  http,          \* the HTTP task: the next of StatusReads, past them when it
                 \* answers, 0 when idle
  held,          \* the mutexes udp_rx holds between steps
  packets,       \* heartbeats received
  hb,            \* udp_rx: the heartbeat being processed
  snap,          \* udp_rx: its copy of the statistics
  was_learning,  \* s_phase1_was_learning
  device, stats, profile, correlation, session,   \* the modules' states
  pds,           \* alert_elevated_active, alert_critical_active
  fingerprint,   \* s_state.last_snapshot of the fingerprint engine
  logged,        \* alert_manager: how many alerts were stored, and the last
  others,        \* alerts raised by app_main and hb_watchdog
  page           \* of what /status has copied so far, the alarms and the alerts

local == <<packets, hb, snap, was_learning>>
detectors == <<correlation, pds, fingerprint>>
vars == <<boot, rx, http, held, local, device, stats, profile, session,
          detectors, logged, others, page>>

\* The types of the alerts of the alarms that /status shows; any other type.
AlertType == {"CORRELATION_ANOMALY", "PDS_ELEVATED", "PDS_CRITICAL", "OTHER"}

\* An alarm that is shown as long as it lasts; number is a ghost, that of the alert
\* raised for it: the alerts are numbered as they are stored.
Off == [alert |-> FALSE, number |-> 0]

Latest(n, alerts) == IF Len(alerts) <= n THEN alerts
                     ELSE SubSeq(alerts, Len(alerts) - n + 1, Len(alerts))

\* alert_manager_raise
Raise(type) ==
  logged' = [count  |-> logged.count + 1,
             recent |-> Latest(HistorySize, Append(logged.recent, type))]

\* The flag after an evaluation: its alert is the one now raised, if it is set.
Flagged(flag, alert) ==
  [alert  |-> alert,
   number |-> CASE ~alert                -> 0
                [] alert /\ flag.alert   -> flag.number
                [] alert /\ ~flag.alert  -> logged.count + 1]

\* Mutant: the dashboard is started before all it shows is initialised.
InitOrderEarly == <<"wifi_manager", "device_state", "stats_engine",
                    "alert_manager", "anomaly_engine", "behavior_profile",
                    "correlation_tracker", "session_tracker",
                    "dashboard_server", "fingerprint_engine", "udp_receiver">>

\* The order of app_main.  dashboard_server and udp_receiver start a task.
InitOrder == <<"wifi_manager", "device_state", "stats_engine", "alert_manager",
               "anomaly_engine", "behavior_profile", "correlation_tracker",
               "session_tracker", "fingerprint_engine", "dashboard_server",
               "udp_receiver">>

Initialised == {InitOrder[i] : i \in 1..boot}

\* Mutant: /status reads the alert log first.
StatusReadsAlertsFirst ==
  <<"device_state", "stats_engine", "alert_manager", "correlation_tracker",
    "session_tracker", "fingerprint_engine">>

\* The reads of handle_status.
StatusReads == <<"device_state", "stats_engine", "correlation_tracker",
                 "session_tracker", "fingerprint_engine", "alert_manager">>

\* What of the alarms and the alerts they return: of the alerts, the last
\* PageAlerts.  The number of alerts there were is a ghost, read with them.
View == [correlation_tracker |-> correlation,
         fingerprint_engine  |-> fingerprint,
         alert_manager       |-> [count  |-> logged.count,
                                  recent |-> Latest(PageAlerts, logged.recent)]]

\* What each of the modules returns before the first heartbeat.
Zeroed ==
  [device_state        |-> [valid |-> FALSE, stream_active |-> FALSE,
                            packet_count |-> 0],
   stats_engine        |-> [samples |-> 0, learning |-> TRUE],
   correlation_tracker |-> Off,
   session_tracker     |-> [in_session |-> FALSE],
   fingerprint_engine  |-> [ready |-> FALSE, elevated |-> Off, critical |-> Off],
   alert_manager       |-> [count |-> 0, recent |-> <<>>]]

NoPage == [m \in DOMAIN View |-> Zeroed[m]]

Init ==
  /\ boot = 0 /\ rx = "recv" /\ http = 0 /\ held = {}
  /\ packets = 0
  /\ hb = [stream_active |-> FALSE, packet_count |-> 0, unjudged |-> 0]
  /\ snap = Zeroed.stats_engine
  /\ was_learning = TRUE
  /\ profile = [seeded |-> FALSE, n |-> 0]
  /\ pds = [elevated |-> Off, critical |-> Off]
  /\ device = Zeroed.device_state
  /\ stats = Zeroed.stats_engine
  /\ correlation = Zeroed.correlation_tracker
  /\ session = Zeroed.session_tracker
  /\ fingerprint = Zeroed.fingerprint_engine
  /\ logged = Zeroed.alert_manager
  /\ others = 0
  /\ page = NoPage

-----------------------------------------------------------------------------
(* app_main and watchdog_task *)

InitModule ==
  /\ boot < Len(InitOrder)
  /\ boot' = boot + 1
  /\ UNCHANGED <<rx, http, held, local, device, stats, profile, session,
                 detectors, logged, others, page>>

\* app_main, booted, says so; watchdog_task tells of a silence and of its end.
OtherAlert ==
  /\ boot = Len(InitOrder)
  /\ others < MaxOthers
  /\ others > 0 => snap.samples > 0
  /\ others' = others + 1
  /\ Raise("OTHER")
  /\ UNCHANGED <<boot, rx, http, held, local, device, stats, profile, session,
                 detectors, page>>

-----------------------------------------------------------------------------
(* udp_rx_task *)

\* The step s, on to t; the other tasks stay where they are.
Step(s, t) ==
  /\ rx = s
  /\ "udp_receiver" \in Initialised
  /\ rx' = t
  /\ UNCHANGED <<boot, http, others, page>>

\* xSemaphoreTake
Free(mutex) == mutex \notin held

Recv(stream_active) ==
  /\ Step("recv", "device_get")
  /\ packets < MaxPackets
  /\ packets' = packets + 1
  /\ hb' = [stream_active |-> stream_active, packet_count |-> 0, unjudged |-> 0]
  /\ UNCHANGED <<held, snap, was_learning, device, stats, profile, session,
                 detectors, logged>>

\* The packet count is read under the mutex, and written under it again.
DeviceGet ==
  /\ Step("device_get", "device_update")
  /\ hb' = [hb EXCEPT !.packet_count = device.packet_count + 1]
  /\ UNCHANGED <<held, packets, snap, was_learning, device, stats, profile,
                 session, detectors, logged>>

DeviceUpdate ==
  /\ Step("device_update", "stats_update")
  /\ device' = [valid |-> TRUE, stream_active |-> hb.stream_active,
                packet_count |-> hb.packet_count]
  /\ UNCHANGED <<held, local, stats, profile, session, detectors, logged>>

\* stats_engine_update keeps its mutex while it raises LEARNING_COMPLETE, which it
\* does on every heartbeat, and a second time on the one that ends the learning.
StatsUpdate(ends) ==
  /\ Step("stats_update", IF ends THEN "learning_ends" ELSE "learning_alert")
  /\ Free("stats_engine")
  /\ held' = held \cup {"stats_engine"}
  /\ ends => stats.learning /\ stats.samples > 0
  /\ stats' = [samples  |-> stats.samples + 1,
               learning |-> stats.learning /\ ~ends]
  /\ UNCHANGED <<local, device, profile, session, detectors, logged>>

LearningEnds ==
  /\ Step("learning_ends", "learning_alert")
  /\ Raise("OTHER")
  /\ UNCHANGED <<held, local, device, stats, profile, session, detectors>>

\* Mutant: the mutex is not given back.
LearningAlertKeeps ==
  /\ Step("learning_alert", "snapshot")
  /\ Raise("OTHER")
  /\ UNCHANGED <<held, local, device, stats, profile, session, detectors>>

LearningAlert ==
  /\ Step("learning_alert", "snapshot")
  /\ Raise("OTHER")
  /\ held' = held \ {"stats_engine"}
  /\ UNCHANGED <<local, device, stats, profile, session, detectors>>

\* stats_engine_get_snapshot; then the watchdog is told, and the z-score
\* detectors are run if there is enough to go by.
TakeSnapshot ==
  LET judged == ~stats.learning /\ stats.samples >= 3 /\ Metrics > 0
  IN  /\ Step("snapshot", IF judged THEN "anomaly" ELSE "profile")
      /\ Free("stats_engine")
      /\ snap' = stats
      /\ hb' = [hb EXCEPT !.unjudged = IF judged THEN Metrics ELSE 0]
      /\ UNCHANGED <<held, packets, was_learning, device, stats, profile,
                     session, detectors, logged>>

\* One detector after the other.  They keep no state that others see, and raise.
AnomalyCheck(alert) ==
  /\ Step("anomaly", IF hb.unjudged > 1 THEN "anomaly" ELSE "profile")
  /\ hb' = [hb EXCEPT !.unjudged = @ - 1]
  /\ IF alert THEN Raise("OTHER") ELSE UNCHANGED logged
  /\ UNCHANGED <<held, packets, snap, was_learning, device, stats, profile,
                 session, detectors>>

\* Mutant: the edge is looked for the wrong way round.
ProfileUpdateUnseeded(timed) ==
  LET edge == ~was_learning /\ ~snap.learning
      seeded == profile.seeded \/ edge
  IN  /\ Step("profile", "correlation")
      /\ was_learning' = (was_learning /\ ~edge)
      /\ timed => snap.samples >= 3
      /\ profile.n > 0 => timed
      /\ profile' = [seeded |-> seeded,
                     n |-> IF seeded /\ ~snap.learning /\ timed
                           THEN profile.n + 1 ELSE profile.n]
      /\ UNCHANGED <<held, packets, hb, snap, device, stats, session, detectors,
                     logged>>

\* Seeded on the heartbeat that ends the learning phase, and updated with that
\* one already.  n counts the updates of the slowest of the four profiles, the
\* interval's: it waits for two interval samples, which take three heartbeats.
ProfileUpdate(timed) ==
  LET edge == was_learning /\ ~snap.learning
      seeded == profile.seeded \/ edge
  IN  /\ Step("profile", "correlation")
      /\ was_learning' = (was_learning /\ ~edge)
      /\ timed => snap.samples >= 3
      /\ profile.n > 0 => timed
      /\ profile' = [seeded |-> seeded,
                     n |-> IF seeded /\ ~snap.learning /\ timed
                           THEN profile.n + 1 ELSE profile.n]
      /\ UNCHANGED <<held, packets, hb, snap, device, stats, session, detectors,
                     logged>>

\* correlation_tracker_update keeps its mutex from setting the flag to storing
\* the alert, so that no one sees the number of an alert that is not stored.
CorrelationUpdate(alert) ==
  LET raises == alert /\ ~correlation.alert
  IN  /\ Step("correlation", IF raises THEN "correlation_alert" ELSE "session")
      /\ Free("correlation_tracker")
      /\ snap.learning => alert = correlation.alert
      /\ held' = IF raises THEN held \cup {"correlation_tracker"} ELSE held
      /\ correlation' = IF alert THEN [correlation EXCEPT !.alert = TRUE] ELSE Off
      /\ UNCHANGED <<local, device, stats, profile, session, pds, fingerprint,
                     logged>>

\* Mutant: the mutex is not given back.
CorrelationAlertKeeps ==
  /\ Step("correlation_alert", "session")
  /\ Raise("CORRELATION_ANOMALY")
  /\ correlation' = [correlation EXCEPT !.number = logged.count + 1]
  /\ UNCHANGED <<held, local, device, stats, profile, session, pds, fingerprint>>

CorrelationAlert ==
  /\ Step("correlation_alert", "session")
  /\ Raise("CORRELATION_ANOMALY")
  /\ correlation' = [correlation EXCEPT !.number = logged.count + 1]
  /\ held' = held \ {"correlation_tracker"}
  /\ UNCHANGED <<local, device, stats, profile, session, pds, fingerprint>>

SessionUpdate ==
  /\ Step("session", "fingerprint")
  /\ session' = [in_session |-> hb.stream_active]
  /\ UNCHANGED <<held, local, device, stats, profile, detectors, logged>>

ProfileReady == profile.n >= MinSamples

FingerprintWaits ==
  /\ Step("fingerprint", "recv")
  /\ ~ProfileReady
  /\ UNCHANGED <<held, local, device, stats, profile, session, detectors, logged>>

\* check_alerts: the score against one threshold and then the other.  The flag is
\* set and its alert stored without a mutex, and published after both.
FingerprintElevated(alert) ==
  /\ Step("fingerprint", "critical")
  /\ ProfileReady
  /\ pds' = [pds EXCEPT !.elevated = Flagged(@, alert)]
  /\ IF alert /\ ~pds.elevated.alert THEN Raise("PDS_ELEVATED")
                                     ELSE UNCHANGED logged
  /\ UNCHANGED <<held, local, device, stats, profile, session, correlation,
                 fingerprint>>

FingerprintCritical(alert) ==
  /\ Step("critical", "publish")
  /\ pds' = [pds EXCEPT !.critical = Flagged(@, alert)]
  /\ IF alert /\ ~pds.critical.alert THEN Raise("PDS_CRITICAL")
                                     ELSE UNCHANGED logged
  /\ UNCHANGED <<held, local, device, stats, profile, session, correlation,
                 fingerprint>>

FingerprintPublish ==
  /\ Step("publish", "recv")
  /\ fingerprint' = [ready |-> TRUE, elevated |-> pds.elevated,
                     critical |-> pds.critical]
  /\ UNCHANGED <<held, local, device, stats, profile, session, correlation, pds,
                 logged>>

ReceiverStep ==
  \/ DeviceGet
  \/ DeviceUpdate
  \/ \E ends \in BOOLEAN : StatsUpdate(ends)
  \/ LearningEnds
  \/ LearningAlert
  \/ TakeSnapshot
  \/ \E alert \in BOOLEAN : AnomalyCheck(alert)
  \/ \E timed \in BOOLEAN : ProfileUpdate(timed)
  \/ \E alert \in BOOLEAN : CorrelationUpdate(alert)
  \/ CorrelationAlert
  \/ SessionUpdate
  \/ FingerprintWaits
  \/ \E alert \in BOOLEAN : FingerprintElevated(alert)
  \/ \E alert \in BOOLEAN : FingerprintCritical(alert)
  \/ FingerprintPublish

-----------------------------------------------------------------------------
(* handle_status *)

Request ==
  /\ http = 0
  /\ "dashboard_server" \in Initialised
  /\ http' = 1
  /\ UNCHANGED <<boot, rx, held, local, device, stats, profile, session,
                 detectors, logged, others, page>>

StatusRead ==
  /\ http \in DOMAIN StatusReads
  /\ Free(StatusReads[http])
  /\ page' = [m \in DOMAIN page |->
                IF m = StatusReads[http] THEN View[m] ELSE page[m]]
  /\ http' = http + 1
  /\ UNCHANGED <<boot, rx, held, local, device, stats, profile, session,
                 detectors, logged, others>>

Respond ==
  /\ http > Len(StatusReads)
  /\ http' = 0
  /\ page' = NoPage
  /\ UNCHANGED <<boot, rx, held, local, device, stats, profile, session,
                 detectors, logged, others>>

Next ==
  \/ InitModule
  \/ OtherAlert
  \/ \E stream_active \in BOOLEAN : Recv(stream_active)
  \/ ReceiverStep
  \/ Request
  \/ StatusRead
  \/ Respond

\* A task that can run does run; heartbeats, requests and the alerts of
\* the other tasks need not come.
Fairness == 
  WF_vars(InitModule) /\ WF_vars(ReceiverStep) /\ WF_vars(StatusRead \/ Respond)

Spec == Init /\ [][Next]_vars /\ Fairness

-----------------------------------------------------------------------------
RxModules ==
  [recv              |-> {},
   device_get        |-> {"device_state"},
   device_update     |-> {"device_state"},
   stats_update      |-> {"stats_engine"},
   learning_ends     |-> {"alert_manager"},
   learning_alert    |-> {"alert_manager"},
   snapshot          |-> {"stats_engine", "anomaly_engine"},
   anomaly           |-> {"anomaly_engine", "alert_manager"},
   profile           |-> {"behavior_profile"},
   correlation       |-> {"behavior_profile", "correlation_tracker"},
   correlation_alert |-> {"alert_manager"},
   session           |-> {"session_tracker"},
   fingerprint       |-> {"behavior_profile", "stats_engine",
                          "correlation_tracker", "session_tracker",
                          "alert_manager"},
   critical          |-> {"alert_manager"},
   publish           |-> {"fingerprint_engine"}]

Flag == [alert : BOOLEAN, number : Nat]

\* Every variable has its type.
TypeOK ==
  /\ boot \in 0..Len(InitOrder)
  /\ rx \in DOMAIN RxModules
  /\ http \in 0..Len(StatusReads) + 1
  /\ held \subseteq {"stats_engine", "correlation_tracker"}
  /\ packets \in 0..MaxPackets
  /\ hb \in [stream_active : BOOLEAN, packet_count : 0..MaxPackets,
             unjudged : 0..Metrics]
  /\ snap \in [samples : 0..MaxPackets, learning : BOOLEAN]
  /\ was_learning \in BOOLEAN
  /\ device \in [valid : BOOLEAN, stream_active : BOOLEAN,
                 packet_count : 0..MaxPackets]
  /\ stats \in [samples : 0..MaxPackets, learning : BOOLEAN]
  /\ profile \in [seeded : BOOLEAN, n : 0..MaxPackets]
  /\ session \in [in_session : BOOLEAN]
  /\ correlation \in Flag
  /\ pds \in [elevated : Flag, critical : Flag]
  /\ fingerprint \in [ready : BOOLEAN, elevated : Flag, critical : Flag]
  /\ logged \in [count : Nat, recent : Seq(AlertType)]
  /\ others \in 0..MaxOthers
  /\ page \in [correlation_tracker : Flag,
               fingerprint_engine : [ready : BOOLEAN, elevated : Flag,
                                     critical : Flag],
               alert_manager : [count : Nat, recent : Seq(AlertType)]]

\* "Any module called before _init() will assert on a NULL mutex"
\* (main.c:38-42): no task comes to a step that takes the mutex of a module
\* which app_main, still booting, has not initialised.
InitialisedBeforeUse ==
  /\ RxModules[rx] \subseteq Initialised
  /\ http \in DOMAIN StatusReads => StatusReads[http] \in Initialised

\* The tasks are at steps they have, on modules that are there to be called.
BootInv == TypeOK /\ InitialisedBeforeUse

\* The alert of a flag is among those a page lists or, if as many as it can list
\* came after it, has made room for them.
Accounted(flag, type, list) ==
  LET older == list.count - Len(list.recent)
  IN  \/ flag.number \in older + 1..list.count
         /\ list.recent[flag.number - older] = type
      \/ flag.number \in 1..older /\ Len(list.recent) = PageAlerts

\* An alarm that the page shows has been logged when the page's alerts are read,
\* and is gone from them only when PageAlerts later ones are listed: a flag is set
\* after, or under the same mutex as, its alert is stored, and /status reads the
\* log last (correlation_tracker.c:304-366, fingerprint_engine.c:246-297, 355-366,
\* dashboard_server.c:555-562).  An alarm that lasts does lose its alert: each
\* heartbeat stores a LEARNING_COMPLETE (stats_engine.c:210-214).
FlagsAreLogged ==
  http > Len(StatusReads) =>
    LET Holds(flag, type) ==
          flag.alert => Accounted(flag, type, page["alert_manager"])
    IN  /\ Holds(page["correlation_tracker"], "CORRELATION_ANOMALY")
        /\ Holds(page["fingerprint_engine"].elevated, "PDS_ELEVATED")
        /\ Holds(page["fingerprint_engine"].critical, "PDS_CRITICAL")

\* Between two heartbeats the modules agree: each has taken in every heartbeat
\* once, the profile was seeded when learning ended, and a score needs
\* MinSamples heartbeats after that (udp_receiver.c:166-229).
InStep ==
  rx = "recv" =>
    /\ device.packet_count = packets
    /\ stats.samples = packets
    /\ profile.seeded <=> ~stats.learning
    /\ session.in_session = device.stream_active
    /\ fingerprint.ready <=> profile.n >= MinSamples

\* Every heartbeat gets through all the modules, and every request is answered:
\* no mutex stays held, though two are kept across a raise
\* (stats_engine.c:197-263, correlation_tracker.c:304-366).
HeartbeatProcessed == rx # "recv" ~> rx = "recv"
RequestAnswered == http > 0 ~> http = 0

=============================================================================
