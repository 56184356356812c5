--------------------------- MODULE MonitorProofs ----------------------------
(***************************************************************************)
(* Proofs about Monitor's safety properties, for every number of           *)
(* heartbeats, of samples that a profile takes and of alerts that the log  *)
(* and a page hold.                                                        *)
(***************************************************************************)
EXTENDS Monitor, SequenceTheorems, TLAPS

\* Where the receiver is before it has ... with the heartbeat at hand.
Unseen    == {"device_get", "device_update"}
Unlearned == Unseen \cup {"stats_update"}
Uncopied  == {"learning_ends", "learning_alert", "snapshot"}
Unfed     == Unlearned \cup Uncopied \cup {"anomaly", "profile"}

One(b) == IF b THEN 1 ELSE 0

\* A task runs only after the modules before it have been initialised.
Booted ==
  /\ rx # "recv" => boot = 11
  /\ http > 0 => boot >= 10

\* What each module has taken in, by where the receiver is.
Counted ==
  /\ device.packet_count = packets - One(rx \in Unseen)
  /\ rx = "device_update" => hb.packet_count = packets
  /\ rx \notin Unseen \cup {"recv"} => hb.stream_active = device.stream_active
  /\ rx \in {"recv", "fingerprint", "critical", "publish"} =>
       session.in_session = device.stream_active
  /\ rx # "recv" => packets > 0
  /\ stats.samples = packets - One(rx \in Unlearned)
  /\ profile.n <= packets - One(rx \in Unfed)

\* The learning phase ends once, and the profile is seeded when it does.
Seeding ==
  /\ was_learning <=> ~profile.seeded
  /\ profile.seeded => ~stats.learning
  /\ rx \notin Uncopied => snap.learning = stats.learning
  /\ rx \notin Uncopied \cup {"anomaly", "profile"} =>
       (profile.seeded <=> ~stats.learning)

\* The receiver is at the z-score detectors while there is one to be asked.
Judging == rx = "anomaly" => hb.unjudged > 0

\* A score has been published exactly when the profile was ready by then.
Scoring ==
  /\ fingerprint.ready => profile.n >= MinSamples
  /\ rx \in Unfed \cup {"recv"} =>
       (fingerprint.ready <=> profile.n >= MinSamples)
  /\ rx \in {"critical", "publish"} => profile.n >= MinSamples

\* The alert with that number is in the log, or was and has been overwritten.
Stored(log, number, type) ==
  LET older == log.count - Len(log.recent)
  IN  /\ number \in 1..log.count
      /\ number > older => log.recent[number - older] = type

\* The alert of a flag that is set has been stored.
Shown(log, flag, type) == flag.alert => Stored(log, flag.number, type)

\* The log holds the last HistorySize alerts.
Shape(log) ==
  Len(log.recent) = IF log.count <= HistorySize THEN log.count ELSE HistorySize

\* The flags against the alerts stored.
Logging ==
  /\ Shape(logged)
  /\ rx # "correlation_alert" =>
       Shown(logged, correlation, "CORRELATION_ANOMALY")
  /\ rx = "correlation_alert" => "correlation_tracker" \in held
  /\ Shown(logged, pds.elevated, "PDS_ELEVATED")
  /\ Shown(logged, pds.critical, "PDS_CRITICAL")
  /\ Shown(logged, fingerprint.elevated, "PDS_ELEVATED")
  /\ Shown(logged, fingerprint.critical, "PDS_CRITICAL")

\* What a page says against the alerts stored, and against those it lists.
PageInv ==
  /\ Shown(logged, page.correlation_tracker, "CORRELATION_ANOMALY")
  /\ Shown(logged, page.fingerprint_engine.elevated, "PDS_ELEVATED")
  /\ Shown(logged, page.fingerprint_engine.critical, "PDS_CRITICAL")
  /\ FlagsAreLogged

IInv == TypeOK /\ Booted /\ Counted /\ Seeding /\ Judging /\ Scoring
          /\ Logging /\ PageInv

Log == [count : Nat, recent : Seq(AlertType)]
Scored == [ready : BOOLEAN, elevated : Flag, critical : Flag]

-----------------------------------------------------------------------------
(***************************************************************************)
(* Which modules app_main has initialised when the tasks run.              *)
(***************************************************************************)
LEMMA InitialisedAt ==
  ASSUME boot \in 0..11
  PROVE  /\ "udp_receiver" \in Initialised => boot = 11
         /\ "dashboard_server" \in Initialised => boot >= 10
         /\ boot = 11 => "udp_receiver" \in Initialised
         /\ boot >= 10 =>
              {"wifi_manager", "device_state", "stats_engine", "alert_manager",
               "anomaly_engine", "behavior_profile", "correlation_tracker",
               "session_tracker", "fingerprint_engine"} \subseteq Initialised
<1>1. \A i \in 1..11 : /\ InitOrder[i] = "udp_receiver" => i = 11
                       /\ InitOrder[i] = "dashboard_server" => i = 10
  BY DEF InitOrder
<1>2. /\ InitOrder[1] = "wifi_manager" /\ InitOrder[2] = "device_state"
      /\ InitOrder[3] = "stats_engine" /\ InitOrder[4] = "alert_manager"
      /\ InitOrder[5] = "anomaly_engine" /\ InitOrder[6] = "behavior_profile"
      /\ InitOrder[7] = "correlation_tracker"
      /\ InitOrder[8] = "session_tracker"
      /\ InitOrder[9] = "fingerprint_engine"
      /\ InitOrder[11] = "udp_receiver"
  BY DEF InitOrder
<1>3. "udp_receiver" \in Initialised => boot = 11
  BY <1>1 DEF Initialised
<1>4. "dashboard_server" \in Initialised => boot >= 10
  BY <1>1 DEF Initialised
<1>5. boot = 11 => "udp_receiver" \in Initialised
  BY <1>2 DEF Initialised
<1>6. boot >= 10 => \A i \in 1..9 : InitOrder[i] \in Initialised
  BY DEF Initialised
<1>7. QED
  BY <1>2, <1>3, <1>4, <1>5, <1>6

LEMMA ElevenModules == Len(InitOrder) = 11 /\ Len(StatusReads) = 6
BY DEF InitOrder, StatusReads

LEMMA OffIsAFlag == Off \in Flag /\ Off.alert = FALSE
BY DEF Off, Flag

LEMMA NoPageType ==
  /\ NoPage.correlation_tracker = Off
  /\ NoPage.fingerprint_engine = [ready |-> FALSE, elevated |-> Off,
                                  critical |-> Off]
  /\ NoPage.alert_manager = [count |-> 0, recent |-> <<>>]
  /\ NoPage \in [correlation_tracker : Flag, fingerprint_engine : Scored,
                 alert_manager : Log]
<1>1. DOMAIN View = {"correlation_tracker", "fingerprint_engine",
                     "alert_manager"}
  BY DEF View
<1>2. NoPage = [correlation_tracker |-> Off,
                fingerprint_engine  |-> [ready |-> FALSE, elevated |-> Off,
                                         critical |-> Off],
                alert_manager       |-> [count |-> 0, recent |-> <<>>]]
  <2>1. /\ NoPage = [m \in {"correlation_tracker", "fingerprint_engine",
                          "alert_manager"} |-> NoPage[m]]
        /\ NoPage["correlation_tracker"] = Off
        /\ NoPage["fingerprint_engine"] = [ready |-> FALSE, elevated |-> Off,
                                           critical |-> Off]
        /\ NoPage["alert_manager"] = [count |-> 0, recent |-> <<>>]
    BY <1>1 DEF NoPage, Zeroed
  <2>2. QED
    BY <2>1
<1>3. [count |-> 0, recent |-> <<>>] \in Log
  BY DEF Log
<1>4. [ready |-> FALSE, elevated |-> Off, critical |-> Off] \in Scored
  BY OffIsAFlag DEF Scored
<1>5. QED
  BY <1>2, <1>3, <1>4, OffIsAFlag

-----------------------------------------------------------------------------
(***************************************************************************)
(* The end of a sequence.                                                  *)
(***************************************************************************)
LEMMA LatestProperties ==
  ASSUME NEW S, NEW n \in Nat \ {0}, NEW s \in Seq(S)
  PROVE  /\ Latest(n, s) \in Seq(S)
         /\ Len(Latest(n, s)) = IF Len(s) <= n THEN Len(s) ELSE n
         /\ \A i \in 1..Len(Latest(n, s)) :
              Latest(n, s)[i] = s[i + Len(s) - Len(Latest(n, s))]
<1>1. Len(s) \in Nat
  OBVIOUS
<1>2. CASE Len(s) <= n
  BY <1>1, <1>2 DEF Latest
<1>3. CASE ~(Len(s) <= n)
  <2> DEFINE m == Len(s) - n + 1
  <2>1. m \in 1..Len(s) /\ Len(s) \in 1..Len(s) /\ m <= Len(s) + 1
    BY <1>1, <1>3
  <2>2. Latest(n, s) = SubSeq(s, m, Len(s))
    BY <1>3 DEF Latest
  <2>3. /\ SubSeq(s, m, Len(s)) \in Seq(S)
        /\ Len(SubSeq(s, m, Len(s))) = Len(s) - m + 1
        /\ \A i \in 1..(Len(s) - m + 1) :
             SubSeq(s, m, Len(s))[i] = s[m + i - 1]
    BY <2>1, SubSeqProperties
  <2>4. Len(s) - m + 1 = n
    BY <1>1
  <2>5. \A i \in 1..n : m + i - 1 = i + Len(s) - n
    BY <1>1
  <2>6. QED
    BY <1>1, <1>3, <2>2, <2>3, <2>4, <2>5
<1>4. QED
  BY <1>2, <1>3

(***************************************************************************)
(* An alert that is stored stays stored, or is overwritten.                *)
(***************************************************************************)
LEMMA RaiseKeeps ==
  ASSUME TypeOK, Shape(logged), NEW type \in AlertType, Raise(type)
  PROVE  /\ logged' \in Log /\ Shape(logged')
         /\ logged'.count = logged.count + 1
         /\ Stored(logged', logged.count + 1, type)
         /\ \A number, t : Stored(logged, number, t) => Stored(logged', number, t)
<1> DEFINE s == Append(logged.recent, type)
           n == Len(logged.recent)
           k == Len(logged'.recent)
<1>1. /\ logged.count \in Nat /\ logged.recent \in Seq(AlertType) /\ n \in Nat
      /\ HistorySize \in Nat \ {0}
  BY MonitorAssumption DEF TypeOK
<1>2. /\ logged'.count = logged.count + 1
      /\ logged'.recent = Latest(HistorySize, s)
      /\ logged' = [count |-> logged.count + 1, recent |-> Latest(HistorySize, s)]
  BY DEF Raise
<1>3. /\ s \in Seq(AlertType) /\ Len(s) = n + 1
      /\ s[n + 1] = type
      /\ \A i \in 1..n : s[i] = logged.recent[i]
  BY <1>1
<1> HIDE DEF s
<1>4. /\ logged'.recent \in Seq(AlertType)
      /\ k = IF n + 1 <= HistorySize THEN n + 1 ELSE HistorySize
      /\ \A i \in 1..k : logged'.recent[i] = s[i + (n + 1) - k]
  <2> HIDE DEF n
  <2> DEFINE z == Latest(HistorySize, s)
  <2>1. /\ z \in Seq(AlertType)
        /\ Len(z) = IF Len(s) <= HistorySize THEN Len(s) ELSE HistorySize
        /\ \A i \in 1..Len(z) : z[i] = s[i + Len(s) - Len(z)]
    BY <1>1, <1>3, LatestProperties
  <2> HIDE DEF z
  <2>2. logged'.recent = z
    BY <1>2 DEF z
  <2>3. QED
    BY <1>3, <2>1, <2>2
<1>5. n = IF logged.count <= HistorySize THEN logged.count ELSE HistorySize
  BY DEF Shape
<1> HIDE DEF n, k
<1>6. /\ k \in Nat /\ k >= 1 /\ k <= n + 1 /\ n <= logged.count
      /\ k = IF logged.count + 1 <= HistorySize THEN logged.count + 1
                                                ELSE HistorySize
  <2>1. k = IF n + 1 <= HistorySize THEN n + 1 ELSE HistorySize
    BY <1>4
  <2>2. /\ n \in Nat /\ logged.count \in Nat /\ HistorySize \in Nat
        /\ HistorySize >= 1
    BY <1>1
  <2> HIDE DEF n, k
  <2>3. QED
    BY <1>5, <2>1, <2>2
<1>7. Shape(logged')
  BY <1>2, <1>6 DEF Shape, k
<1>8. Stored(logged', logged.count + 1, type)
  <2>1. (logged.count + 1) - (logged.count + 1 - k) = k
    BY <1>1, <1>6
  <2>2. logged'.recent[k] = type
    <3>1. k \in 1..k /\ k + (n + 1) - k = n + 1
      BY <1>1, <1>6
    <3>2. QED
      BY <1>3, <1>4, <3>1
  <2>3. logged.count + 1 \in 1..(logged.count + 1)
    BY <1>1
  <2>4. QED
    BY <1>2, <2>1, <2>2, <2>3 DEF Stored, k
<1>9. ASSUME NEW number, NEW t, Stored(logged, number, t)
      PROVE  Stored(logged', number, t)
  <2>1. /\ number \in 1..logged.count
        /\ number > logged.count - n =>
             logged.recent[number - (logged.count - n)] = t
    BY <1>9 DEF Stored, n
  <2>2. number \in 1..(logged.count + 1)
    BY <1>1, <2>1
  <2>3. ASSUME number > logged.count + 1 - k
        PROVE  logged'.recent[number - (logged.count + 1 - k)] = t
    <3>1. number > logged.count - n
      BY <1>1, <1>6, <2>1, <2>3
    <3>2. /\ number - (logged.count - n) \in 1..n
          /\ number - (logged.count + 1 - k) \in 1..k
          /\ number - (logged.count + 1 - k) + (n + 1) - k
               = number - (logged.count - n)
      <4>1. /\ n \in Nat /\ k \in Nat /\ logged.count \in Nat
            /\ number \in 1..logged.count
            /\ number > logged.count - n
            /\ number > logged.count + 1 - k
        BY <1>1, <1>6, <2>1, <2>3, <3>1
      <4>2. QED
        BY <4>1
    <3> DEFINE i == number - (logged.count + 1 - k)
               j == number - (logged.count - n)
    <3>3. i \in 1..k /\ j \in 1..n /\ i + (n + 1) - k = j
      BY <3>2
    <3>4. logged.recent[j] = t
      BY <2>1, <3>1
    <3> HIDE DEF i, j
    <3>5. logged'.recent[i] = s[j] /\ s[j] = logged.recent[j]
      BY <1>3, <1>4, <3>3
    <3>6. QED
      BY <3>4, <3>5 DEF i
  <2>4. logged'.count - Len(logged'.recent) = logged.count + 1 - k
    <3>1. logged'.count = logged.count + 1
      BY <1>2
    <3>2. Len(logged'.recent) = k
      BY DEF k
    <3>3. logged.count \in Nat /\ k \in Nat
      BY <1>1, <1>6
    <3>4. QED
      BY <3>1, <3>2, <3>3
  <2>5. QED
    BY <1>2, <2>2, <2>3, <2>4 DEF Stored
<1>10. logged' \in Log
  BY <1>1, <1>2, <1>4 DEF Log
<1>11. QED
  BY <1>2, <1>7, <1>8, <1>9, <1>10

\* The log is left alone, or an alert is raised.
LogStep == logged' = logged \/ \E type \in AlertType : Raise(type)

LEMMA LogStepKeeps ==
  ASSUME TypeOK, Shape(logged), LogStep
  PROVE  /\ logged' \in Log /\ Shape(logged')
         /\ \A flag, t : Shown(logged, flag, t) => Shown(logged', flag, t)
<1>1. CASE logged' = logged
  <2>1. logged' \in Log
    BY <1>1 DEF TypeOK, Log
  <2>2. QED
    BY <1>1, <2>1
<1>2. CASE \E type \in AlertType : Raise(type)
  <2>1. PICK type \in AlertType : Raise(type)
    BY <1>2
  <2>2. QED
    BY <2>1, RaiseKeeps DEF Shown
<1>3. QED
  BY <1>1, <1>2 DEF LogStep

(***************************************************************************)
(* The last alerts of the log, as a page lists them, account for a flag    *)
(* whose alert is stored.                                                  *)
(***************************************************************************)
LEMMA ListAccounts ==
  ASSUME TypeOK, Shape(logged), NEW flag, NEW type, Stored(logged, flag.number, type)
  PROVE  Accounted(flag, type, View["alert_manager"])
<1> DEFINE list == View["alert_manager"]
           n == Len(logged.recent)
           k == Len(list.recent)
<1>1. /\ logged.count \in Nat /\ logged.recent \in Seq(AlertType) /\ n \in Nat
      /\ HistorySize \in Nat \ {0} /\ PageAlerts \in Nat \ {0}
      /\ PageAlerts <= HistorySize
  BY MonitorAssumption DEF TypeOK
<1>2. /\ list.count = logged.count
      /\ list.recent = Latest(PageAlerts, logged.recent)
  BY DEF View
<1> HIDE DEF list
<1>3. /\ k = IF n <= PageAlerts THEN n ELSE PageAlerts
      /\ \A i \in 1..k : list.recent[i] = logged.recent[i + n - k]
  BY <1>1, <1>2, LatestProperties
<1>4. n = IF logged.count <= HistorySize THEN logged.count ELSE HistorySize
  BY DEF Shape
<1>5. /\ flag.number \in 1..logged.count
      /\ flag.number > logged.count - n =>
           logged.recent[flag.number - (logged.count - n)] = type
  BY DEF Stored
<1> HIDE DEF n, k
<1>6. k \in Nat /\ k <= n /\ n <= logged.count
  BY <1>1, <1>3, <1>4
<1>7. CASE flag.number > logged.count - k
  <2>1. flag.number \in (logged.count - k) + 1..logged.count
    BY <1>1, <1>5, <1>6, <1>7
  <2>2. /\ flag.number > logged.count - n
        /\ flag.number - (logged.count - k) \in 1..k
        /\ flag.number - (logged.count - k) + n - k
             = flag.number - (logged.count - n)
    BY <1>1, <1>5, <1>6, <1>7
  <2>3. list.recent[flag.number - (logged.count - k)] = type
    BY <1>3, <1>5, <2>2
  <2>4. QED
    BY <1>2, <2>1, <2>3 DEF Accounted, list, k
<1>8. CASE ~(flag.number > logged.count - k)
  <2>1. flag.number \in 1..(logged.count - k)
    BY <1>1, <1>5, <1>6, <1>8
  <2>2. k = PageAlerts
    BY <1>1, <1>3, <1>4, <1>5, <1>6, <1>8
  <2>3. QED
    BY <1>2, <2>1, <2>2 DEF Accounted, list, k
<1>9. QED
  BY <1>7, <1>8

-----------------------------------------------------------------------------
LEMMA IInvInit == Init => IInv
<1> SUFFICES ASSUME Init PROVE IInv
  OBVIOUS
<1>1. /\ 0 \in 0..MaxPackets /\ 0 \in 0..11 /\ 0 \in 0..7
      /\ 0 \in 0..Metrics /\ 0 \in 0..MaxOthers /\ ~(0 > 0) /\ ~(0 >= MinSamples)
  BY MonitorAssumption
<1>2. TypeOK
  <2>1. /\ snap \in [samples : 0..MaxPackets, learning : BOOLEAN]
        /\ stats \in [samples : 0..MaxPackets, learning : BOOLEAN]
        /\ hb \in [stream_active : BOOLEAN, packet_count : 0..MaxPackets,
                   unjudged : 0..Metrics]
        /\ device \in [valid : BOOLEAN, stream_active : BOOLEAN,
                       packet_count : 0..MaxPackets]
        /\ profile \in [seeded : BOOLEAN, n : 0..MaxPackets]
    BY <1>1 DEF Init, Zeroed
  <2>2. /\ session \in [in_session : BOOLEAN]
        /\ correlation \in Flag
        /\ pds \in [elevated : Flag, critical : Flag]
        /\ fingerprint \in [ready : BOOLEAN, elevated : Flag, critical : Flag]
        /\ logged \in [count : Nat, recent : Seq(AlertType)]
    BY <1>1, OffIsAFlag DEF Init, Zeroed
  <2>3. page \in [correlation_tracker : Flag,
                  fingerprint_engine : [ready : BOOLEAN, elevated : Flag,
                                        critical : Flag],
                  alert_manager : [count : Nat, recent : Seq(AlertType)]]
    BY NoPageType DEF Init, Scored, Log
  <2>4. rx \in DOMAIN RxModules
    BY DEF Init, RxModules
  <2>5. boot \in 0..Len(InitOrder) /\ http \in 0..Len(StatusReads) + 1
    BY <1>1, ElevenModules DEF Init
  <2>6. QED
    BY <1>1, <2>1, <2>2, <2>3, <2>4, <2>5 DEF Init, TypeOK
<1>3. rx = "recv" /\ http = 0 /\ packets = 0
  BY DEF Init
<1>4. Booted
  BY <1>3 DEF Booted
<1>5. Counted
  <2>1. rx \notin Unseen /\ rx \notin Unlearned /\ rx \notin Unfed
    BY <1>3 DEF Unseen, Unlearned, Uncopied, Unfed
  <2>2. /\ device.packet_count = 0 /\ stats.samples = 0 /\ profile.n = 0
        /\ session.in_session = device.stream_active
    BY DEF Init, Zeroed
  <2>3. One(rx \in Unseen) = 0 /\ One(rx \in Unlearned) = 0
        /\ One(rx \in Unfed) = 0
    BY <2>1 DEF One
  <2>4. QED
    BY <1>3, <2>2, <2>3 DEF Counted
<1>6. Seeding
  BY <1>3 DEF Init, Seeding, Zeroed, Uncopied
<1>7. Scoring
  BY <1>1 DEF Init, Scoring, Zeroed
<1>8. Logging
  <2>1. Shape(logged)
    BY MonitorAssumption DEF Init, Zeroed, Shape
  <2>2. ~correlation.alert /\ ~pds.elevated.alert /\ ~pds.critical.alert
        /\ ~fingerprint.elevated.alert /\ ~fingerprint.critical.alert
    BY OffIsAFlag DEF Init, Zeroed
  <2>3. QED
    BY <1>3, <2>1, <2>2 DEF Logging, Shown
<1>9. PageInv
  BY <1>3, NoPageType, OffIsAFlag, ElevenModules
     DEF Init, PageInv, Shown, FlagsAreLogged
<1>10. QED
  BY <1>2, <1>3, <1>4, <1>5, <1>6, <1>7, <1>8, <1>9 DEF IInv, Judging

-----------------------------------------------------------------------------
(***************************************************************************)
(* A step of the receiver leaves the boot and the page as they are, and    *)
(* the log only grows.                                                     *)
(***************************************************************************)
LEMMA ReceiverKeeps ==
  ASSUME IInv, NEW s, NEW t, Step(s, t), LogStep
  PROVE  boot' = 11 /\ Booted' /\ PageInv'
<1>1. /\ boot \in 0..11
      /\ "udp_receiver" \in Initialised
      /\ UNCHANGED <<boot, http, page>>
  BY ElevenModules DEF IInv, TypeOK, Step
<1>2. boot = 11
  BY <1>1, InitialisedAt
<1>3. Booted'
  BY <1>1, <1>2 DEF IInv, Booted
<1>4. \A flag, type : Shown(logged, flag, type) => Shown(logged', flag, type)
  BY LogStepKeeps DEF IInv, Logging
<1>5. FlagsAreLogged'
  BY <1>1 DEF IInv, PageInv, FlagsAreLogged, Accounted
<1>6. PageInv'
  BY <1>1, <1>4, <1>5 DEF IInv, PageInv
<1>7. QED
  BY <1>1, <1>2, <1>3, <1>6

(***************************************************************************)
(* So are the flags, but by the detectors.                                 *)
(***************************************************************************)
LEMMA FlagsStay ==
  ASSUME IInv, LogStep, UNCHANGED <<correlation, pds, fingerprint>>,
         rx # "correlation_alert", rx' # "correlation_alert"
  PROVE  Logging'
<1>1. /\ Shape(logged')
      /\ \A flag, type : Shown(logged, flag, type) => Shown(logged', flag, type)
  BY LogStepKeeps DEF IInv, Logging
<1>2. QED
  BY <1>1 DEF IInv, Logging

(***************************************************************************)
(* The numbers and the flags of the state, one by one.                     *)
(***************************************************************************)
LEMMA Flat ==
  ASSUME TypeOK
  PROVE  /\ MinSamples \in Nat \ {0} /\ MaxPackets \in Nat
         /\ packets \in Nat /\ packets <= MaxPackets
         /\ hb.stream_active \in BOOLEAN /\ hb.packet_count \in Nat
         /\ snap.samples \in Nat /\ snap.learning \in BOOLEAN
         /\ device.packet_count \in Nat /\ device.stream_active \in BOOLEAN
         /\ stats.samples \in Nat /\ stats.learning \in BOOLEAN
         /\ profile.n \in Nat /\ profile.seeded \in BOOLEAN
         /\ correlation.alert \in BOOLEAN /\ fingerprint.ready \in BOOLEAN
         /\ logged.count \in Nat
BY MonitorAssumption DEF TypeOK, Flag

(***************************************************************************)
(* A step of the receiver.  What the other tasks have is left alone.       *)
(***************************************************************************)
LEMMA StepTyped ==
  ASSUME TypeOK, NEW s, NEW t, Step(s, t), t \in DOMAIN RxModules,
         held' \subseteq {"stats_engine", "correlation_tracker"},
         packets' \in 0..MaxPackets,
         hb' \in [stream_active : BOOLEAN, packet_count : 0..MaxPackets,
                 unjudged : 0..Metrics],
         snap' \in [samples : 0..MaxPackets, learning : BOOLEAN],
         was_learning' \in BOOLEAN,
         device' \in [valid : BOOLEAN, stream_active : BOOLEAN,
                      packet_count : 0..MaxPackets],
         stats' \in [samples : 0..MaxPackets, learning : BOOLEAN],
         profile' \in [seeded : BOOLEAN, n : 0..MaxPackets],
         session' \in [in_session : BOOLEAN],
         correlation' \in Flag,
         pds' \in [elevated : Flag, critical : Flag],
         fingerprint' \in [ready : BOOLEAN, elevated : Flag, critical : Flag],
         logged' \in [count : Nat, recent : Seq(AlertType)]
  PROVE  TypeOK'
<1>1. /\ boot' \in 0..Len(InitOrder) /\ http' \in 0..Len(StatusReads) + 1
      /\ others' \in 0..MaxOthers
  BY DEF TypeOK, Step
<1>2. page' = page
  BY DEF Step
<1>3. rx' \in DOMAIN RxModules
  BY DEF Step
<1>4. QED
  BY <1>1, <1>2, <1>3 DEF TypeOK

-----------------------------------------------------------------------------
(***************************************************************************)
(* The steps of udp_rx, one after the other.                               *)
(***************************************************************************)
LEMMA KeptRecv ==
  ASSUME IInv, NEW stream_active \in BOOLEAN, Recv(stream_active) PROVE IInv'
<1>1. /\ rx = "recv" /\ rx' = "device_get" /\ packets < MaxPackets
      /\ packets' = packets + 1
      /\ hb' = [stream_active |-> stream_active, packet_count |-> 0,
              unjudged |-> 0]
      /\ UNCHANGED <<held, snap, was_learning, device, stats, profile, session,
                     correlation, pds, fingerprint, logged>>
      /\ Step("recv", "device_get")
  BY DEF Recv, Step, detectors
<1>2. TypeOK
  BY DEF IInv
<1>3. TypeOK'
  <2>1. packets' \in 0..MaxPackets /\ 0 \in 0..MaxPackets
    BY <1>1, <1>2, Flat
  <2>2. hb' \in [stream_active : BOOLEAN, packet_count : 0..MaxPackets,
                 unjudged : 0..Metrics]
    BY <1>1, <2>1, MonitorAssumption
  <2>3. "device_get" \in DOMAIN RxModules
    BY DEF RxModules
  <2>4. QED
    BY <1>1, <1>2, <2>1, <2>2, <2>3, StepTyped DEF TypeOK
<1>4. boot' = 11 /\ Booted' /\ PageInv'
  BY <1>1, ReceiverKeeps DEF LogStep
<1>5. Counted'
  BY <1>1, <1>2, Flat DEF IInv, Counted, One, Unseen, Unlearned, Uncopied, Unfed
<1>6. Seeding'
  BY <1>1 DEF IInv, Seeding, Uncopied
<1>7. Scoring'
  BY <1>1 DEF IInv, Scoring, Unfed, Unlearned, Unseen
<1>8. Logging'
  BY <1>1, FlagsStay DEF LogStep
<1>9. QED
  BY <1>1, <1>3, <1>4, <1>5, <1>6, <1>7, <1>8 DEF IInv, Judging

LEMMA KeptDeviceGet ==
  ASSUME IInv, DeviceGet PROVE IInv'
<1>1. /\ rx = "device_get" /\ rx' = "device_update"
      /\ hb' = [hb EXCEPT !.packet_count = device.packet_count + 1]
      /\ UNCHANGED <<held, packets, snap, was_learning, device, stats, profile,
                     session, correlation, pds, fingerprint, logged>>
      /\ Step("device_get", "device_update")
  BY DEF DeviceGet, Step, local, detectors
<1>2. TypeOK
  BY DEF IInv
<1>3. TypeOK'
  <2>1. device.packet_count + 1 \in 0..MaxPackets
    BY <1>1, <1>2, Flat DEF IInv, Counted, One, Unseen
  <2>2. hb' \in [stream_active : BOOLEAN, packet_count : 0..MaxPackets,
                 unjudged : 0..Metrics]
    BY <1>1, <1>2, <2>1 DEF TypeOK
  <2>3. "device_update" \in DOMAIN RxModules
    BY DEF RxModules
  <2>4. QED
    BY <1>1, <1>2, <2>1, <2>2, <2>3, StepTyped DEF TypeOK
<1>4. boot' = 11 /\ Booted' /\ PageInv'
  BY <1>1, ReceiverKeeps DEF LogStep
<1>5. Counted'
  BY <1>1, <1>2, Flat DEF IInv, Counted, One, Unseen, Unlearned, Uncopied, Unfed
<1>6. Seeding'
  BY <1>1, <1>2, Flat DEF IInv, Seeding, Uncopied
<1>7. Scoring'
  BY <1>1, <1>2, Flat DEF IInv, Scoring, Unfed, Uncopied, Unlearned, Unseen
<1>8. Logging'
  BY <1>1, FlagsStay DEF LogStep
<1>9. QED
  BY <1>1, <1>3, <1>4, <1>5, <1>6, <1>7, <1>8 DEF IInv, Judging

LEMMA KeptDeviceUpdate ==
  ASSUME IInv, DeviceUpdate PROVE IInv'
<1>1. /\ rx = "device_update" /\ rx' = "stats_update"
      /\ device' = [valid |-> TRUE, stream_active |-> hb.stream_active,
                    packet_count |-> hb.packet_count]
      /\ UNCHANGED <<held, packets, hb, snap, was_learning, stats, profile, session,
                     correlation, pds, fingerprint, logged>>
      /\ Step("device_update", "stats_update")
  BY DEF DeviceUpdate, Step, local, detectors
<1>2. TypeOK
  BY DEF IInv
<1>3. TypeOK'
  <2>1. device' \in [valid : BOOLEAN, stream_active : BOOLEAN,
                   packet_count : 0..MaxPackets]
    BY <1>1, <1>2 DEF TypeOK
  <2>2. "stats_update" \in DOMAIN RxModules
    BY DEF RxModules
  <2>3. QED
    BY <1>1, <1>2, <2>1, <2>2, StepTyped DEF TypeOK
<1>4. boot' = 11 /\ Booted' /\ PageInv'
  BY <1>1, ReceiverKeeps DEF LogStep
<1>5. Counted'
  BY <1>1, <1>2, Flat DEF IInv, Counted, One, Unseen, Unlearned, Uncopied, Unfed
<1>6. Seeding'
  BY <1>1, <1>2, Flat DEF IInv, Seeding, Uncopied
<1>7. Scoring'
  BY <1>1, <1>2, Flat DEF IInv, Scoring, Unfed, Uncopied, Unlearned, Unseen
<1>8. Logging'
  BY <1>1, FlagsStay DEF LogStep
<1>9. QED
  BY <1>1, <1>3, <1>4, <1>5, <1>6, <1>7, <1>8 DEF IInv, Judging

LEMMA KeptStatsUpdate ==
  ASSUME IInv, NEW ends \in BOOLEAN, StatsUpdate(ends) PROVE IInv'
<1> DEFINE next == IF ends THEN "learning_ends" ELSE "learning_alert"
<1>1. /\ rx = "stats_update" /\ rx' = next /\ rx' \in {"learning_ends", "learning_alert"}
      /\ held' = held \cup {"stats_engine"}
      /\ stats' = [samples  |-> stats.samples + 1,
                   learning |-> stats.learning /\ ~ends]
      /\ UNCHANGED <<packets, hb, snap, was_learning, device, profile, session,
                     correlation, pds, fingerprint, logged>>
      /\ Step("stats_update", next)
  BY DEF StatsUpdate, Step, local, detectors
<1>2. TypeOK
  BY DEF IInv
<1>3. TypeOK'
  <2>1. stats.samples + 1 \in 0..MaxPackets
    BY <1>1, <1>2, Flat
       DEF IInv, Counted, One, Unseen, Unlearned
  <2>2. stats' \in [samples : 0..MaxPackets, learning : BOOLEAN]
    BY <1>1, <1>2, <2>1, Flat
  <2>3. held' \subseteq {"stats_engine", "correlation_tracker"}
    BY <1>1, <1>2 DEF TypeOK
  <2>4. next \in DOMAIN RxModules
    BY DEF RxModules
  <2>5. QED
    BY <1>1, <1>2, <2>1, <2>2, <2>3, <2>4, StepTyped DEF TypeOK
<1> HIDE DEF next
<1>4. boot' = 11 /\ Booted' /\ PageInv'
  BY <1>1, ReceiverKeeps DEF LogStep
<1>5. Counted'
  BY <1>1, <1>2, Flat DEF IInv, Counted, One, Unseen, Unlearned, Uncopied, Unfed
<1>6. Seeding'
  BY <1>1, <1>2, Flat DEF IInv, Seeding, Uncopied
<1>7. Scoring'
  BY <1>1, <1>2, Flat DEF IInv, Scoring, Unfed, Uncopied, Unlearned, Unseen
<1>8. Logging'
  BY <1>1, FlagsStay DEF LogStep
<1>9. QED
  BY <1>1, <1>3, <1>4, <1>5, <1>6, <1>7, <1>8 DEF IInv, Judging

LEMMA KeptLearningEnds ==
  ASSUME IInv, LearningEnds PROVE IInv'
<1>1. /\ rx = "learning_ends" /\ rx' = "learning_alert"
      /\ Raise("OTHER")
      /\ held' = held
      /\ UNCHANGED <<packets, hb, snap, was_learning, device, stats, profile,
                     session, correlation, pds, fingerprint>>
      /\ Step("learning_ends", "learning_alert")
  BY DEF LearningEnds, Step, local, detectors
<1>2. TypeOK /\ Shape(logged)
  BY DEF IInv, Logging
<1>0. LogStep /\ logged' \in [count : Nat, recent : Seq(AlertType)]
  <2>1. "OTHER" \in AlertType
    BY DEF AlertType
  <2>2. LogStep
    BY <1>1, <2>1 DEF LogStep
  <2>3. QED
    BY <1>2, <2>2, LogStepKeeps DEF Log
<1>3. TypeOK'
  <2>1. held' \subseteq {"stats_engine", "correlation_tracker"}
    BY <1>1, <1>2 DEF TypeOK
  <2>2. "learning_alert" \in DOMAIN RxModules
    BY DEF RxModules
  <2>3. QED
    BY <1>0, <1>1, <1>2, <2>1, <2>2, StepTyped DEF TypeOK
<1>4. boot' = 11 /\ Booted' /\ PageInv'
  BY <1>0, <1>1, ReceiverKeeps
<1>5. Counted'
  BY <1>1, <1>2, Flat DEF IInv, Counted, One, Unseen, Unlearned, Uncopied, Unfed
<1>6. Seeding'
  BY <1>1, <1>2, Flat DEF IInv, Seeding, Uncopied
<1>7. Scoring'
  BY <1>1, <1>2, Flat DEF IInv, Scoring, Unfed, Uncopied, Unlearned, Unseen
<1>8. Logging'
  BY <1>0, <1>1, FlagsStay
<1>9. QED
  BY <1>1, <1>3, <1>4, <1>5, <1>6, <1>7, <1>8 DEF IInv, Judging

LEMMA KeptLearningAlert ==
  ASSUME IInv, LearningAlert PROVE IInv'
<1>1. /\ rx = "learning_alert" /\ rx' = "snapshot"
      /\ Raise("OTHER")
      /\ held' = held \ {"stats_engine"}
      /\ UNCHANGED <<packets, hb, snap, was_learning, device, stats, profile,
                     session, correlation, pds, fingerprint>>
      /\ Step("learning_alert", "snapshot")
  BY DEF LearningAlert, Step, local, detectors
<1>2. TypeOK /\ Shape(logged)
  BY DEF IInv, Logging
<1>0. LogStep /\ logged' \in [count : Nat, recent : Seq(AlertType)]
  <2>1. "OTHER" \in AlertType
    BY DEF AlertType
  <2>2. LogStep
    BY <1>1, <2>1 DEF LogStep
  <2>3. QED
    BY <1>2, <2>2, LogStepKeeps DEF Log
<1>3. TypeOK'
  <2>1. held' \subseteq {"stats_engine", "correlation_tracker"}
    BY <1>1, <1>2 DEF TypeOK
  <2>2. "snapshot" \in DOMAIN RxModules
    BY DEF RxModules
  <2>3. QED
    BY <1>0, <1>1, <1>2, <2>1, <2>2, StepTyped DEF TypeOK
<1>4. boot' = 11 /\ Booted' /\ PageInv'
  BY <1>0, <1>1, ReceiverKeeps
<1>5. Counted'
  BY <1>1, <1>2, Flat DEF IInv, Counted, One, Unseen, Unlearned, Uncopied, Unfed
<1>6. Seeding'
  BY <1>1, <1>2, Flat DEF IInv, Seeding, Uncopied
<1>7. Scoring'
  BY <1>1, <1>2, Flat DEF IInv, Scoring, Unfed, Uncopied, Unlearned, Unseen
<1>8. Logging'
  BY <1>0, <1>1, FlagsStay
<1>9. QED
  BY <1>1, <1>3, <1>4, <1>5, <1>6, <1>7, <1>8 DEF IInv, Judging

LEMMA KeptTakeSnapshot ==
  ASSUME IInv, TakeSnapshot PROVE IInv'
<1> DEFINE judged == ~stats.learning /\ stats.samples >= 3 /\ Metrics > 0
           next   == IF judged THEN "anomaly" ELSE "profile"
<1>1. /\ rx = "snapshot" /\ rx' = next /\ rx' \in {"anomaly", "profile"}
      /\ snap' = stats
      /\ hb' = [hb EXCEPT !.unjudged = IF judged THEN Metrics ELSE 0]
      /\ UNCHANGED <<held, packets, was_learning, device, stats, profile,
                     session, correlation, pds, fingerprint, logged>>
      /\ Step("snapshot", next)
  BY DEF TakeSnapshot, Step, local, detectors
<1>2. TypeOK
  BY DEF IInv
<1>3. TypeOK'
  <2>1. next \in DOMAIN RxModules
    BY DEF RxModules
  <2>2. hb' \in [stream_active : BOOLEAN, packet_count : 0..MaxPackets,
                 unjudged : 0..Metrics]
    <3>1. (IF judged THEN Metrics ELSE 0) \in 0..Metrics
      BY MonitorAssumption
    <3>2. QED
      BY <1>1, <1>2, <3>1 DEF TypeOK
  <2>3. QED
    BY <1>1, <1>2, <2>1, <2>2, StepTyped DEF TypeOK
<1> HIDE DEF next, judged
<1>4. boot' = 11 /\ Booted' /\ PageInv'
  BY <1>1, ReceiverKeeps DEF LogStep
<1>a. hb'.stream_active = hb.stream_active
  BY <1>1, <1>2 DEF TypeOK
<1>5. Counted'
  BY <1>1, <1>2, <1>a, Flat DEF IInv, Counted, One, Unseen, Unlearned, Uncopied, Unfed
<1>6. Seeding'
  BY <1>1, <1>2, <1>a, Flat DEF IInv, Seeding, Uncopied
<1>7. Scoring'
  BY <1>1, <1>2, <1>a, Flat DEF IInv, Scoring, Unfed, Uncopied, Unlearned, Unseen
<1>b. Judging'
  BY <1>1, <1>2, MonitorAssumption DEF Judging, TypeOK, next, judged
<1>8. Logging'
  BY <1>1, FlagsStay DEF LogStep
<1>9. QED
  BY <1>3, <1>4, <1>5, <1>6, <1>7, <1>8, <1>b DEF IInv

LEMMA KeptAnomalyCheck ==
  ASSUME IInv, NEW alert \in BOOLEAN, AnomalyCheck(alert) PROVE IInv'
<1> DEFINE next == IF hb.unjudged > 1 THEN "anomaly" ELSE "profile"
<1>1. /\ rx = "anomaly" /\ rx' = next /\ rx' \in {"anomaly", "profile"}
      /\ hb' = [hb EXCEPT !.unjudged = @ - 1]
      /\ IF alert THEN Raise("OTHER") ELSE UNCHANGED logged
      /\ UNCHANGED <<held, packets, snap, was_learning, device, stats, profile,
                     session, correlation, pds, fingerprint>>
      /\ Step("anomaly", next)
  BY DEF AnomalyCheck, Step, local, detectors
<1>2. TypeOK /\ Shape(logged)
  BY DEF IInv, Logging
<1>0. LogStep /\ logged' \in [count : Nat, recent : Seq(AlertType)]
  <2>1. "OTHER" \in AlertType
    BY DEF AlertType
  <2>2. LogStep
    BY <1>1, <2>1 DEF LogStep
  <2>3. QED
    BY <1>2, <2>2, LogStepKeeps DEF Log
<1>3. TypeOK'
  <2>1. next \in DOMAIN RxModules
    BY DEF RxModules
  <2>2. hb' \in [stream_active : BOOLEAN, packet_count : 0..MaxPackets,
                 unjudged : 0..Metrics]
    <3>1. hb.unjudged - 1 \in 0..Metrics
      <4>1. hb.unjudged \in 0..Metrics
        BY <1>2 DEF TypeOK
      <4>2. hb.unjudged > 0
        BY <1>1 DEF IInv, Judging
      <4>3. QED
        BY <4>1, <4>2, MonitorAssumption
    <3>2. QED
      BY <1>1, <1>2, <3>1 DEF TypeOK
  <2>3. /\ UNCHANGED <<held, packets, snap, was_learning, device, stats, profile,
                       session, correlation, pds, fingerprint>>
        /\ Step("anomaly", next)
    BY <1>1
  <2> HIDE DEF next
  <2>4. QED
    BY <1>0, <1>2, <2>1, <2>2, <2>3, StepTyped DEF TypeOK
<1> HIDE DEF next
<1>4. boot' = 11 /\ Booted' /\ PageInv'
  BY <1>0, <1>1, ReceiverKeeps
<1>a. hb'.stream_active = hb.stream_active
  BY <1>1, <1>2 DEF TypeOK
<1>b. Judging'
  <2>1. hb.unjudged \in 0..Metrics /\ hb'.unjudged = hb.unjudged - 1
    BY <1>1, <1>2 DEF TypeOK
  <2>2. rx' = "anomaly" => hb.unjudged > 1
    BY <1>1 DEF next
  <2>3. QED
    BY <2>1, <2>2, MonitorAssumption DEF Judging
<1>5. Counted'
  BY <1>1, <1>2, <1>a, Flat DEF IInv, Counted, One, Unseen, Unlearned, Uncopied, Unfed
<1>6. Seeding'
  BY <1>1, <1>2, <1>a, Flat DEF IInv, Seeding, Uncopied
<1>7. Scoring'
  BY <1>1, <1>2, <1>a, Flat DEF IInv, Scoring, Unfed, Uncopied, Unlearned, Unseen
<1>8. Logging'
  BY <1>0, <1>1, FlagsStay
<1>9. QED
  BY <1>3, <1>4, <1>5, <1>6, <1>7, <1>8, <1>b DEF IInv

LEMMA KeptSessionUpdate ==
  ASSUME IInv, SessionUpdate PROVE IInv'
<1>1. /\ rx = "session" /\ rx' = "fingerprint"
      /\ session' = [in_session |-> hb.stream_active]
      /\ UNCHANGED <<held, packets, hb, snap, was_learning, device, stats, profile,
                     correlation, pds, fingerprint, logged>>
      /\ Step("session", "fingerprint")
  BY DEF SessionUpdate, Step, local, detectors
<1>2. TypeOK
  BY DEF IInv
<1>3. TypeOK'
  <2>1. session' \in [in_session : BOOLEAN]
    BY <1>1, <1>2, Flat
  <2>2. "fingerprint" \in DOMAIN RxModules
    BY DEF RxModules
  <2>3. QED
    BY <1>1, <1>2, <2>1, <2>2, StepTyped DEF TypeOK
<1>4. boot' = 11 /\ Booted' /\ PageInv'
  BY <1>1, ReceiverKeeps DEF LogStep
<1>5. Counted'
  BY <1>1, <1>2, Flat DEF IInv, Counted, One, Unseen, Unlearned, Uncopied, Unfed
<1>6. Seeding'
  BY <1>1, <1>2, Flat DEF IInv, Seeding, Uncopied
<1>7. Scoring'
  BY <1>1, <1>2, Flat DEF IInv, Scoring, Unfed, Uncopied, Unlearned, Unseen
<1>8. Logging'
  BY <1>1, FlagsStay DEF LogStep
<1>9. QED
  BY <1>1, <1>3, <1>4, <1>5, <1>6, <1>7, <1>8 DEF IInv, Judging

LEMMA KeptFingerprintWaits ==
  ASSUME IInv, FingerprintWaits PROVE IInv'
<1>1. /\ rx = "fingerprint" /\ rx' = "recv"
      /\ ~(profile.n >= MinSamples)
      /\ UNCHANGED <<held, packets, hb, snap, was_learning, device, stats, profile,
                     session, correlation, pds, fingerprint, logged>>
      /\ Step("fingerprint", "recv")
  BY DEF FingerprintWaits, Step, local, detectors, ProfileReady
<1>2. TypeOK
  BY DEF IInv
<1>3. TypeOK'
  <2>1. "recv" \in DOMAIN RxModules
    BY DEF RxModules
  <2>2. QED
    BY <1>1, <1>2, <2>1, StepTyped DEF TypeOK
<1>4. boot' = 11 /\ Booted' /\ PageInv'
  BY <1>1, ReceiverKeeps DEF LogStep
<1>5. Counted'
  BY <1>1, <1>2, Flat DEF IInv, Counted, One, Unseen, Unlearned, Uncopied, Unfed
<1>6. Seeding'
  BY <1>1, <1>2, Flat DEF IInv, Seeding, Uncopied
<1>7. Scoring'
  BY <1>1, <1>2, Flat DEF IInv, Scoring, Unfed, Uncopied, Unlearned, Unseen
<1>8. Logging'
  BY <1>1, FlagsStay DEF LogStep
<1>9. QED
  BY <1>1, <1>3, <1>4, <1>5, <1>6, <1>7, <1>8 DEF IInv, Judging

LEMMA KeptProfileUpdate ==
  ASSUME IInv, NEW timed \in BOOLEAN, ProfileUpdate(timed) PROVE IInv'
<1>1. /\ rx = "profile" /\ rx' = "correlation"
      /\ was_learning' = (was_learning /\ ~(was_learning /\ ~snap.learning))
      /\ profile' = [seeded |-> profile.seeded \/ (was_learning /\ ~snap.learning),
                     n |-> IF (profile.seeded \/ (was_learning /\ ~snap.learning))
                                /\ ~snap.learning /\ timed
                           THEN profile.n + 1 ELSE profile.n]
      /\ UNCHANGED <<held, packets, hb, snap, device, stats, session,
                     correlation, pds, fingerprint, logged>>
      /\ Step("profile", "correlation")
  BY DEF ProfileUpdate, Step, local, detectors
<1>2. TypeOK
  BY DEF IInv
<1>3. TypeOK'
  <2>1. was_learning \in BOOLEAN /\ was_learning' \in BOOLEAN
    BY <1>1, <1>2 DEF TypeOK
  <2>2. /\ profile.n \in 0..MaxPackets /\ profile.n + 1 \in 0..MaxPackets
        /\ profile'.n \in {profile.n, profile.n + 1}
    BY <1>1, <1>2, Flat
       DEF IInv, Counted, One, Unseen, Unlearned, Uncopied, Unfed
  <2>3. profile' \in [seeded : BOOLEAN, n : 0..MaxPackets]
    BY <1>1, <1>2, <2>1, <2>2, Flat
  <2>4. "correlation" \in DOMAIN RxModules
    BY DEF RxModules
  <2>5. QED
    BY <1>1, <1>2, <2>1, <2>2, <2>3, <2>4, StepTyped DEF TypeOK
<1>4. boot' = 11 /\ Booted' /\ PageInv'
  BY <1>1, ReceiverKeeps DEF LogStep
<1>5. Counted'
  BY <1>1, <1>2, Flat DEF IInv, Counted, One, Unseen, Unlearned, Uncopied, Unfed
<1>6. Seeding'
  BY <1>1, <1>2, Flat DEF IInv, Seeding, Uncopied
<1>7. Scoring'
  BY <1>1, <1>2, Flat DEF IInv, Scoring, Unfed, Uncopied, Unlearned, Unseen
<1>8. Logging'
  BY <1>1, FlagsStay DEF LogStep
<1>9. QED
  BY <1>1, <1>3, <1>4, <1>5, <1>6, <1>7, <1>8 DEF IInv, Judging

LEMMA KeptCorrelationAlert ==
  ASSUME IInv, CorrelationAlert PROVE IInv'
<1>1. /\ rx = "correlation_alert" /\ rx' = "session"
      /\ Raise("CORRELATION_ANOMALY")
      /\ correlation' = [correlation EXCEPT !.number = logged.count + 1]
      /\ held' = held \ {"correlation_tracker"}
      /\ UNCHANGED <<packets, hb, snap, was_learning, device, stats, profile, session,
                     pds, fingerprint>>
      /\ Step("correlation_alert", "session")
  BY DEF CorrelationAlert, Step, local
<1>2. TypeOK /\ Shape(logged)
  BY DEF IInv, Logging
<1>0. /\ LogStep /\ Raise("CORRELATION_ANOMALY")
      /\ "CORRELATION_ANOMALY" \in AlertType
      /\ logged' \in [count : Nat, recent : Seq(AlertType)]
  <2>1. "CORRELATION_ANOMALY" \in AlertType
    BY DEF AlertType
  <2>2. LogStep
    BY <1>1, <2>1 DEF LogStep
  <2>3. QED
    BY <1>1, <1>2, <2>1, <2>2, LogStepKeeps DEF Log
<1>3. TypeOK'
  <2>1. held' \subseteq {"stats_engine", "correlation_tracker"}
    BY <1>1, <1>2 DEF TypeOK
  <2>2. correlation' \in Flag
    <3>1. /\ correlation \in [alert : BOOLEAN, number : Nat]
          /\ logged.count + 1 \in Nat
      <4>1. correlation \in Flag /\ logged.count \in Nat
        BY <1>2, Flat DEF TypeOK
      <4>2. QED
        BY <4>1 DEF Flag
    <3>2. correlation' = [correlation EXCEPT !.number = logged.count + 1]
      BY <1>1
    <3>3. QED
      BY <3>1, <3>2 DEF Flag
  <2>3. "session" \in DOMAIN RxModules
    BY DEF RxModules
  <2>4. /\ UNCHANGED <<packets, hb, snap, was_learning, device, stats, profile,
                       session, pds, fingerprint>>
        /\ Step("correlation_alert", "session")
    BY <1>1
  <2>5. QED
    BY <1>0, <1>2, <2>1, <2>2, <2>3, <2>4, StepTyped DEF TypeOK
<1>4. boot' = 11 /\ Booted' /\ PageInv'
  BY <1>0, <1>1, ReceiverKeeps
<1>5. Counted'
  BY <1>1, <1>2, Flat DEF IInv, Counted, One, Unseen, Unlearned, Uncopied, Unfed
<1>6. Seeding'
  BY <1>1, <1>2, Flat DEF IInv, Seeding, Uncopied
<1>7. Scoring'
  BY <1>1, <1>2, Flat DEF IInv, Scoring, Unfed, Uncopied, Unlearned, Unseen
<1>8. Logging'
  <2>1. /\ Shape(logged')
        /\ \A flag, t : Shown(logged, flag, t) => Shown(logged', flag, t)
    BY <1>0, <1>2, LogStepKeeps
  <2>2. Stored(logged', logged.count + 1, "CORRELATION_ANOMALY")
    BY <1>0, <1>2, RaiseKeeps
  <2>3. correlation'.number = logged.count + 1
    BY <1>1, <1>2 DEF TypeOK, Flag
  <2>4. Shown(logged', correlation', "CORRELATION_ANOMALY")
    BY <2>2, <2>3 DEF Shown
  <2>5. QED
    BY <1>1, <2>1, <2>4 DEF IInv, Logging
<1>9. QED
  BY <1>1, <1>3, <1>4, <1>5, <1>6, <1>7, <1>8 DEF IInv, Judging

LEMMA KeptFingerprintElevated ==
  ASSUME IInv, NEW alert \in BOOLEAN, FingerprintElevated(alert) PROVE IInv'
<1>1. /\ rx = "fingerprint" /\ rx' = "critical"
      /\ profile.n >= MinSamples
      /\ pds' = [pds EXCEPT !.elevated = Flagged(@, alert)]
      /\ IF alert /\ ~pds.elevated.alert THEN Raise("PDS_ELEVATED")
                                          ELSE UNCHANGED logged
      /\ UNCHANGED <<held, packets, hb, snap, was_learning, device, stats, profile,
                     session, correlation, fingerprint>>
      /\ Step("fingerprint", "critical")
  BY DEF FingerprintElevated, Step, local, ProfileReady, IInv, Scoring
<1>2. TypeOK /\ Shape(logged)
  BY DEF IInv, Logging
<1>0. /\ LogStep /\ "PDS_ELEVATED" \in AlertType
      /\ logged' \in [count : Nat, recent : Seq(AlertType)]
  <2>1. "PDS_ELEVATED" \in AlertType
    BY DEF AlertType
  <2>2. LogStep
    BY <1>1, <2>1 DEF LogStep
  <2>3. QED
    BY <1>2, <2>1, <2>2, LogStepKeeps DEF Log
<1>f. /\ pds.elevated \in Flag /\ pds.elevated.alert \in BOOLEAN
      /\ pds'.elevated = Flagged(pds.elevated, alert)
      /\ pds'.critical = pds.critical
  BY <1>1, <1>2 DEF TypeOK, Flag
<1>3. TypeOK'
  <2>1. Flagged(pds.elevated, alert) \in Flag
    BY <1>2, <1>f, Flat DEF Flagged, Flag
  <2>2. pds' \in [elevated : Flag, critical : Flag]
    BY <1>1, <1>2, <2>1 DEF TypeOK
  <2>3. "critical" \in DOMAIN RxModules
    BY DEF RxModules
  <2>4. /\ UNCHANGED <<held, packets, hb, snap, was_learning, device, stats,
                       profile, session, correlation, fingerprint>>
        /\ Step("fingerprint", "critical")
    BY <1>1
  <2>5. QED
    BY <1>0, <1>2, <2>2, <2>3, <2>4, StepTyped DEF TypeOK
<1>4. boot' = 11 /\ Booted' /\ PageInv'
  BY <1>0, <1>1, ReceiverKeeps
<1>5. Counted'
  BY <1>1, <1>2, Flat DEF IInv, Counted, One, Unseen, Unlearned, Uncopied, Unfed
<1>6. Seeding'
  BY <1>1, <1>2, Flat DEF IInv, Seeding, Uncopied
<1>7. Scoring'
  BY <1>1, <1>2, Flat DEF IInv, Scoring, Unfed, Uncopied, Unlearned, Unseen
<1>8. Logging'
  <2>1. /\ Shape(logged')
        /\ \A flag, t : Shown(logged, flag, t) => Shown(logged', flag, t)
    BY <1>0, <1>2, LogStepKeeps
  <2>2. Shown(logged', Flagged(pds.elevated, alert), "PDS_ELEVATED")
    <3>1. CASE ~alert
      BY <3>1 DEF Shown, Flagged
    <3>2. CASE alert /\ pds.elevated.alert
      <4>1. /\ Flagged(pds.elevated, alert).number = pds.elevated.number
            /\ Shown(logged', pds.elevated, "PDS_ELEVATED")
        BY <2>1, <3>2 DEF Flagged, IInv, Logging
      <4>2. QED
        BY <3>2, <4>1 DEF Shown
    <3>3. CASE alert /\ ~pds.elevated.alert
      <4>1. /\ Flagged(pds.elevated, alert).number = logged.count + 1
            /\ Raise("PDS_ELEVATED")
        BY <1>1, <3>3 DEF Flagged
      <4>2. Stored(logged', logged.count + 1, "PDS_ELEVATED")
        BY <1>0, <1>2, <4>1, RaiseKeeps
      <4>3. QED
        BY <4>1, <4>2 DEF Shown
    <3>4. QED
      BY <1>f, <3>1, <3>2, <3>3
  <2>3. /\ rx' # "correlation_alert" /\ rx # "correlation_alert"
        /\ correlation' = correlation /\ fingerprint' = fingerprint
    BY <1>1
  <2>4. QED
    BY <1>f, <2>1, <2>2, <2>3 DEF IInv, Logging
<1>9. QED
  BY <1>1, <1>3, <1>4, <1>5, <1>6, <1>7, <1>8 DEF IInv, Judging

LEMMA KeptFingerprintCritical ==
  ASSUME IInv, NEW alert \in BOOLEAN, FingerprintCritical(alert) PROVE IInv'
<1>1. /\ rx = "critical" /\ rx' = "publish"
      /\ profile.n >= MinSamples
      /\ pds' = [pds EXCEPT !.critical = Flagged(@, alert)]
      /\ IF alert /\ ~pds.critical.alert THEN Raise("PDS_CRITICAL")
                                          ELSE UNCHANGED logged
      /\ UNCHANGED <<held, packets, hb, snap, was_learning, device, stats, profile,
                     session, correlation, fingerprint>>
      /\ Step("critical", "publish")
  BY DEF FingerprintCritical, Step, local, ProfileReady, IInv, Scoring
<1>2. TypeOK /\ Shape(logged)
  BY DEF IInv, Logging
<1>0. /\ LogStep /\ "PDS_CRITICAL" \in AlertType
      /\ logged' \in [count : Nat, recent : Seq(AlertType)]
  <2>1. "PDS_CRITICAL" \in AlertType
    BY DEF AlertType
  <2>2. LogStep
    BY <1>1, <2>1 DEF LogStep
  <2>3. QED
    BY <1>2, <2>1, <2>2, LogStepKeeps DEF Log
<1>f. /\ pds.critical \in Flag /\ pds.critical.alert \in BOOLEAN
      /\ pds'.critical = Flagged(pds.critical, alert)
      /\ pds'.elevated = pds.elevated
  BY <1>1, <1>2 DEF TypeOK, Flag
<1>3. TypeOK'
  <2>1. Flagged(pds.critical, alert) \in Flag
    BY <1>2, <1>f, Flat DEF Flagged, Flag
  <2>2. pds' \in [elevated : Flag, critical : Flag]
    BY <1>1, <1>2, <2>1 DEF TypeOK
  <2>3. "publish" \in DOMAIN RxModules
    BY DEF RxModules
  <2>4. /\ UNCHANGED <<held, packets, hb, snap, was_learning, device, stats,
                       profile, session, correlation, fingerprint>>
        /\ Step("critical", "publish")
    BY <1>1
  <2>5. QED
    BY <1>0, <1>2, <2>2, <2>3, <2>4, StepTyped DEF TypeOK
<1>4. boot' = 11 /\ Booted' /\ PageInv'
  BY <1>0, <1>1, ReceiverKeeps
<1>5. Counted'
  BY <1>1, <1>2, Flat DEF IInv, Counted, One, Unseen, Unlearned, Uncopied, Unfed
<1>6. Seeding'
  BY <1>1, <1>2, Flat DEF IInv, Seeding, Uncopied
<1>7. Scoring'
  BY <1>1, <1>2, Flat DEF IInv, Scoring, Unfed, Uncopied, Unlearned, Unseen
<1>8. Logging'
  <2>1. /\ Shape(logged')
        /\ \A flag, t : Shown(logged, flag, t) => Shown(logged', flag, t)
    BY <1>0, <1>2, LogStepKeeps
  <2>2. Shown(logged', Flagged(pds.critical, alert), "PDS_CRITICAL")
    <3>1. CASE ~alert
      BY <3>1 DEF Shown, Flagged
    <3>2. CASE alert /\ pds.critical.alert
      <4>1. /\ Flagged(pds.critical, alert).number = pds.critical.number
            /\ Shown(logged', pds.critical, "PDS_CRITICAL")
        BY <2>1, <3>2 DEF Flagged, IInv, Logging
      <4>2. QED
        BY <3>2, <4>1 DEF Shown
    <3>3. CASE alert /\ ~pds.critical.alert
      <4>1. /\ Flagged(pds.critical, alert).number = logged.count + 1
            /\ Raise("PDS_CRITICAL")
        BY <1>1, <3>3 DEF Flagged
      <4>2. Stored(logged', logged.count + 1, "PDS_CRITICAL")
        BY <1>0, <1>2, <4>1, RaiseKeeps
      <4>3. QED
        BY <4>1, <4>2 DEF Shown
    <3>4. QED
      BY <1>f, <3>1, <3>2, <3>3
  <2>3. /\ rx' # "correlation_alert" /\ rx # "correlation_alert"
        /\ correlation' = correlation /\ fingerprint' = fingerprint
    BY <1>1
  <2>4. QED
    BY <1>f, <2>1, <2>2, <2>3 DEF IInv, Logging
<1>9. QED
  BY <1>1, <1>3, <1>4, <1>5, <1>6, <1>7, <1>8 DEF IInv, Judging

LEMMA KeptFingerprintPublish ==
  ASSUME IInv, FingerprintPublish PROVE IInv'
<1>1. /\ rx = "publish" /\ rx' = "recv"
      /\ fingerprint' = [ready |-> TRUE, elevated |-> pds.elevated,
                         critical |-> pds.critical]
      /\ UNCHANGED <<held, packets, hb, snap, was_learning, device, stats, profile,
                     session, correlation, pds, logged>>
      /\ Step("publish", "recv")
  BY DEF FingerprintPublish, Step, local
<1>2. TypeOK
  BY DEF IInv
<1>3. TypeOK'
  <2>1. fingerprint' \in [ready : BOOLEAN, elevated : Flag, critical : Flag]
    BY <1>1, <1>2 DEF TypeOK
  <2>2. "recv" \in DOMAIN RxModules
    BY DEF RxModules
  <2>3. /\ UNCHANGED <<held, packets, hb, snap, was_learning, device, stats, profile,
                       session, correlation, pds, logged>>
        /\ Step("publish", "recv")
    BY <1>1
  <2>4. QED
    BY <1>2, <2>1, <2>2, <2>3, StepTyped DEF TypeOK
<1>4. boot' = 11 /\ Booted' /\ PageInv'
  BY <1>1, ReceiverKeeps DEF LogStep
<1>5. Counted'
  BY <1>1, <1>2, Flat DEF IInv, Counted, One, Unseen, Unlearned, Uncopied, Unfed
<1>6. Seeding'
  BY <1>1, <1>2, Flat DEF IInv, Seeding, Uncopied
<1>7. Scoring'
  BY <1>1, <1>2, Flat DEF IInv, Scoring, Unfed, Uncopied, Unlearned, Unseen
<1>8. Logging'
  <2>1. /\ fingerprint'.elevated = pds.elevated
        /\ fingerprint'.critical = pds.critical
    BY <1>1
  <2>2. /\ rx' # "correlation_alert" /\ rx # "correlation_alert"
        /\ correlation' = correlation /\ pds' = pds /\ logged' = logged
    BY <1>1
  <2>3. QED
    BY <2>1, <2>2 DEF IInv, Logging
<1>9. QED
  BY <1>1, <1>3, <1>4, <1>5, <1>6, <1>7, <1>8 DEF IInv, Judging

LEMMA KeptCorrelationUpdate ==
  ASSUME IInv, NEW alert \in BOOLEAN, CorrelationUpdate(alert) PROVE IInv'
<1> DEFINE raises == alert /\ ~correlation.alert
           next   == IF raises THEN "correlation_alert" ELSE "session"
<1>1. /\ rx = "correlation" /\ rx' = next
      /\ held' = IF raises THEN held \cup {"correlation_tracker"} ELSE held
      /\ correlation' = IF alert THEN [correlation EXCEPT !.alert = TRUE] ELSE Off
      /\ UNCHANGED <<packets, hb, snap, was_learning, device, stats, profile,
                     session, pds, fingerprint, logged>>
      /\ Step("correlation", next)
  BY DEF CorrelationUpdate, Step, local
<1>2. TypeOK
  BY DEF IInv
<1>3. /\ raises \in BOOLEAN
      /\ raises => rx' = "correlation_alert"
      /\ ~raises => rx' = "session"
      /\ raises => "correlation_tracker" \in held'
      /\ ~raises => correlation' = correlation \/ correlation' = Off
  BY <1>1, <1>2, Flat DEF TypeOK, Flag
<1> HIDE DEF raises
<1>4. TypeOK'
  <2>1. held' \subseteq {"stats_engine", "correlation_tracker"}
    BY <1>1, <1>2 DEF TypeOK
  <2>3. correlation' \in Flag
    BY <1>1, <1>2, OffIsAFlag DEF TypeOK, Flag
  <2>4. next \in DOMAIN RxModules
    BY DEF RxModules
  <2>5. /\ UNCHANGED <<packets, hb, snap, was_learning, device, stats, profile,
                       session, pds, fingerprint, logged>>
        /\ Step("correlation", next)
    BY <1>1
  <2> HIDE DEF next
  <2>6. QED
    BY <1>2, <2>1, <2>3, <2>4, <2>5, StepTyped DEF TypeOK
<1> HIDE DEF next
<1>5. boot' = 11 /\ Booted' /\ PageInv'
  BY <1>1, ReceiverKeeps DEF LogStep
<1>6. Counted'
  BY <1>1, <1>2, <1>3, Flat
     DEF IInv, Counted, One, Unseen, Unlearned, Uncopied, Unfed
<1>7. Seeding'
  BY <1>1, <1>2, <1>3, Flat DEF IInv, Seeding, Uncopied
<1>8. Scoring'
  BY <1>1, <1>2, <1>3, Flat DEF IInv, Scoring, Unfed, Uncopied, Unlearned, Unseen
<1>9. Logging'
  <2>1. /\ pds' = pds /\ fingerprint' = fingerprint /\ logged' = logged
        /\ Shown(logged, correlation, "CORRELATION_ANOMALY")
        /\ Shown(logged, Off, "CORRELATION_ANOMALY")
    BY <1>1, OffIsAFlag DEF IInv, Logging, Shown
  <2>2. rx' # "correlation_alert" =>
          Shown(logged', correlation', "CORRELATION_ANOMALY")
    BY <1>3, <2>1
  <2>3. QED
    BY <1>3, <2>1, <2>2 DEF IInv, Logging
<1>10. QED
  BY <1>3, <1>4, <1>5, <1>6, <1>7, <1>8, <1>9 DEF IInv, Judging

-----------------------------------------------------------------------------
(***************************************************************************)
(* The steps of app_main and of the HTTP task.                             *)
(***************************************************************************)
LEMMA OthersLeaveReceiver ==
  ASSUME Counted, Seeding, Judging, Scoring, Logging,
         UNCHANGED <<rx, held, packets, hb, snap, was_learning, device, stats,
                     profile, session, correlation, pds, fingerprint,
                     logged>>
  PROVE  Counted' /\ Seeding' /\ Judging' /\ Scoring' /\ Logging'
<1>1. Counted'
  BY DEF Counted
<1>2. Seeding' /\ Judging'
  BY DEF Seeding, Judging
<1>3. Scoring'
  BY DEF Scoring
<1>4. Logging'
  BY DEF Logging
<1>5. QED
  BY <1>1, <1>2, <1>3, <1>4

LEMMA KeptInitModule == ASSUME IInv, InitModule PROVE IInv'
<1>1. /\ boot \in 0..11 /\ boot < 11 /\ boot' = boot + 1
      /\ UNCHANGED <<http, page, others>>
      /\ UNCHANGED <<rx, held, packets, hb, snap, was_learning, device, stats,
                     profile, session, correlation, pds, fingerprint, logged>>
  BY ElevenModules DEF IInv, TypeOK, InitModule, local, detectors
<1>2. TypeOK'
  <2>1. boot' \in 0..Len(InitOrder)
    BY <1>1, ElevenModules
  <2>2. QED
    BY <1>1, <2>1 DEF IInv, TypeOK
<1>3. Booted'
  BY <1>1 DEF IInv, Booted
<1>4. PageInv'
  BY <1>1 DEF IInv, PageInv, FlagsAreLogged, Accounted
<1>5. QED
  BY <1>1, <1>2, <1>3, <1>4, OthersLeaveReceiver DEF IInv

LEMMA KeptOtherAlert == ASSUME IInv, OtherAlert PROVE IInv'
<1>1. /\ others < MaxOthers /\ others' = others + 1
      /\ Raise("OTHER")
      /\ UNCHANGED <<boot, http, page>>
      /\ UNCHANGED <<rx, held, packets, hb, snap, was_learning, device, stats,
                     profile, session, correlation, pds, fingerprint>>
  BY DEF OtherAlert, local, detectors
<1>2. TypeOK /\ Shape(logged)
  BY DEF IInv, Logging
<1>3. /\ logged' \in [count : Nat, recent : Seq(AlertType)]
      /\ Shape(logged')
      /\ \A flag, type : Shown(logged, flag, type) => Shown(logged', flag, type)
  <2>1. "OTHER" \in AlertType
    BY DEF AlertType
  <2>2. LogStep
    BY <1>1, <2>1 DEF LogStep
  <2>3. QED
    BY <1>2, <2>2, LogStepKeeps DEF Log
<1>4. TypeOK'
  <2>1. others' \in 0..MaxOthers
    BY <1>1, <1>2, MonitorAssumption DEF TypeOK
  <2>2. /\ UNCHANGED <<boot, http, page>>
        /\ UNCHANGED <<rx, held, packets, hb, snap, was_learning, device, stats,
                       profile, session, correlation, pds, fingerprint>>
    BY <1>1
  <2>3. QED
    BY <1>2, <1>3, <2>1, <2>2 DEF TypeOK
<1>5. Booted' /\ Counted' /\ Seeding' /\ Scoring'
  BY <1>1 DEF IInv, Booted, Counted, Seeding, Scoring
<1>6. Logging'
  BY <1>1, <1>3 DEF IInv, Logging
<1>7. PageInv'
  <2>1. FlagsAreLogged'
    BY <1>1 DEF IInv, PageInv, FlagsAreLogged, Accounted
  <2>2. QED
    BY <1>1, <1>3, <2>1 DEF IInv, PageInv
<1>8. Judging'
  BY <1>1 DEF IInv, Judging
<1>9. QED
  BY <1>4, <1>5, <1>6, <1>7, <1>8 DEF IInv

LEMMA KeptRequest == ASSUME IInv, Request PROVE IInv'
<1>1. /\ boot \in 0..11 /\ http' = 1
      /\ UNCHANGED <<boot, page, others>>
      /\ UNCHANGED <<rx, held, packets, hb, snap, was_learning, device, stats,
                     profile, session, correlation, pds, fingerprint, logged>>
  BY ElevenModules DEF IInv, TypeOK, Request, local, detectors
<1>2. "dashboard_server" \in Initialised
  BY DEF Request
<1>3. boot >= 10
  BY <1>1, <1>2, InitialisedAt
<1>4. TypeOK'
  <2>1. http' \in 0..Len(StatusReads) + 1
    BY <1>1, ElevenModules
  <2>2. QED
    BY <1>1, <2>1 DEF IInv, TypeOK
<1>5. Booted'
  BY <1>1, <1>3 DEF IInv, Booted
<1>6. PageInv'
  BY <1>1, ElevenModules DEF IInv, PageInv, FlagsAreLogged
<1>7. QED
  BY <1>1, <1>4, <1>5, <1>6, OthersLeaveReceiver DEF IInv

LEMMA KeptStatusRead == ASSUME IInv, StatusRead PROVE IInv'
<1> DEFINE r == StatusReads[http]
<1>1. /\ http \in 1..6
      /\ r \notin held
      /\ page' = [m \in DOMAIN page |-> IF m = r THEN View[m] ELSE page[m]]
      /\ http' = http + 1
      /\ UNCHANGED <<boot, others>>
      /\ UNCHANGED <<rx, held, packets, hb, snap, was_learning, device, stats,
                     profile, session, correlation, pds, fingerprint, logged>>
  BY ElevenModules DEF IInv, TypeOK, StatusRead, StatusReads, Free, local, detectors
<1>2. /\ http = 1 => r = "device_state"
      /\ http = 2 => r = "stats_engine"
      /\ http = 3 => r = "correlation_tracker"
      /\ http = 4 => r = "session_tracker"
      /\ http = 5 => r = "fingerprint_engine"
      /\ http = 6 => r = "alert_manager"
  BY DEF StatusReads
<1> HIDE DEF r
<1>3. /\ View["correlation_tracker"] = correlation
      /\ View["fingerprint_engine"] = fingerprint
      /\ View["alert_manager"] \in Log
  <2>1. /\ View["correlation_tracker"] = correlation
        /\ View["fingerprint_engine"] = fingerprint
        /\ View["alert_manager"] = [count  |-> logged.count,
                                    recent |-> Latest(PageAlerts, logged.recent)]
    BY DEF View
  <2>2. /\ logged.count \in Nat /\ logged.recent \in Seq(AlertType)
        /\ PageAlerts \in Nat \ {0}
    BY MonitorAssumption DEF IInv, TypeOK
  <2>3. Latest(PageAlerts, logged.recent) \in Seq(AlertType)
    BY <2>2, LatestProperties
  <2>4. QED
    BY <2>1, <2>2, <2>3 DEF Log
<1>4. /\ page \in [correlation_tracker : Flag, fingerprint_engine : Scored,
                   alert_manager : Log]
      /\ correlation \in Flag /\ fingerprint \in Scored
  BY DEF IInv, TypeOK, Scored, Log
<1>5. /\ DOMAIN page = {"correlation_tracker", "fingerprint_engine",
                        "alert_manager"}
      /\ page' = [correlation_tracker |->
                     IF http = 3 THEN correlation ELSE page.correlation_tracker,
                  fingerprint_engine |->
                     IF http = 5 THEN fingerprint ELSE page.fingerprint_engine,
                  alert_manager |->
                     IF http = 6 THEN View["alert_manager"] ELSE page.alert_manager]
  <2>1. DOMAIN page = {"correlation_tracker", "fingerprint_engine",
                       "alert_manager"}
    BY <1>4
  <2>2. /\ r = "correlation_tracker" <=> http = 3
        /\ r = "fingerprint_engine" <=> http = 5
        /\ r = "alert_manager" <=> http = 6
    BY <1>1, <1>2
  <2>3. QED
    BY <1>1, <1>3, <2>1, <2>2
<1>6. page' \in [correlation_tracker : Flag, fingerprint_engine : Scored,
                 alert_manager : Log]
  BY <1>3, <1>4, <1>5
<1>7. TypeOK'
  <2>1. http' \in 0..Len(StatusReads) + 1
    BY <1>1, ElevenModules
  <2>2. QED
    BY <1>1, <1>6, <2>1 DEF IInv, TypeOK, Scored, Log
<1>8. Booted'
  BY <1>1 DEF IInv, Booted
<1>9. /\ page'.correlation_tracker = IF http = 3 THEN correlation
                                                ELSE page.correlation_tracker
      /\ page'.fingerprint_engine = IF http = 5 THEN fingerprint
                                               ELSE page.fingerprint_engine
      /\ page'.alert_manager = IF http = 6 THEN View["alert_manager"]
                                          ELSE page.alert_manager
  BY <1>5
<1>10. http = 3 => rx # "correlation_alert"
  BY <1>1, <1>2 DEF IInv, Logging
<1>11. /\ Shown(logged, page'.correlation_tracker, "CORRELATION_ANOMALY")
       /\ Shown(logged, page'.fingerprint_engine.elevated, "PDS_ELEVATED")
       /\ Shown(logged, page'.fingerprint_engine.critical, "PDS_CRITICAL")
  BY <1>9, <1>10 DEF IInv, Logging, PageInv
<1>12. FlagsAreLogged'
  <2>1. CASE http = 6
    <3>1. /\ page'.correlation_tracker = page.correlation_tracker
          /\ page'.fingerprint_engine = page.fingerprint_engine
          /\ page'.alert_manager = View["alert_manager"]
      BY <1>9, <2>1
    <3>2. \A flag, type : Shown(logged, flag, type) =>
            (flag.alert => Accounted(flag, type, View["alert_manager"]))
      BY ListAccounts DEF IInv, Logging, Shown
    <3>3. /\ page'.correlation_tracker.alert =>
               Accounted(page'.correlation_tracker, "CORRELATION_ANOMALY",
                         page'.alert_manager)
          /\ page'.fingerprint_engine.elevated.alert =>
               Accounted(page'.fingerprint_engine.elevated, "PDS_ELEVATED",
                         page'.alert_manager)
          /\ page'.fingerprint_engine.critical.alert =>
               Accounted(page'.fingerprint_engine.critical, "PDS_CRITICAL",
                         page'.alert_manager)
      BY <1>11, <3>1, <3>2
    <3>4. QED
      BY <3>3 DEF FlagsAreLogged, Accounted
  <2>2. CASE http # 6
    BY <1>1, <2>2, ElevenModules DEF FlagsAreLogged
  <2>3. QED
    BY <2>1, <2>2
<1>13. PageInv'
  BY <1>1, <1>11, <1>12 DEF PageInv
<1>14. QED
  BY <1>1, <1>7, <1>8, <1>13, OthersLeaveReceiver DEF IInv

LEMMA KeptRespond == ASSUME IInv, Respond PROVE IInv'
<1>1. /\ http' = 0 /\ page' = NoPage
      /\ UNCHANGED <<boot, others>>
      /\ UNCHANGED <<rx, held, packets, hb, snap, was_learning, device, stats,
                     profile, session, correlation, pds, fingerprint, logged>>
  BY DEF Respond, local, detectors
<1>2. TypeOK'
  <2>1. page' \in [correlation_tracker : Flag, fingerprint_engine : Scored,
                   alert_manager : Log]
    BY <1>1, NoPageType
  <2>2. http' \in 0..Len(StatusReads) + 1
    BY <1>1, ElevenModules
  <2>3. QED
    BY <1>1, <2>1, <2>2 DEF IInv, TypeOK, Scored, Log
<1>3. Booted'
  BY <1>1 DEF IInv, Booted
<1>4. PageInv'
  <2>1. /\ page'.correlation_tracker = Off
        /\ page'.fingerprint_engine.elevated = Off
        /\ page'.fingerprint_engine.critical = Off
    BY <1>1, NoPageType
  <2>2. FlagsAreLogged'
    BY <1>1, ElevenModules DEF FlagsAreLogged
  <2>3. QED
    BY <2>1, <2>2, OffIsAFlag DEF PageInv, Shown
<1>5. QED
  BY <1>1, <1>2, <1>3, <1>4, OthersLeaveReceiver DEF IInv

-----------------------------------------------------------------------------
LEMMA IInvNext == IInv /\ [Next]_vars => IInv'
<1> SUFFICES ASSUME IInv, [Next]_vars PROVE IInv'
  OBVIOUS
<1>1. CASE InitModule
  BY <1>1, KeptInitModule
<1>2. ASSUME NEW stream_active \in BOOLEAN, Recv(stream_active) PROVE IInv'
  BY <1>2, KeptRecv
<1>3. CASE ReceiverStep
  <2>1. CASE DeviceGet
    BY <2>1, KeptDeviceGet
  <2>2. CASE DeviceUpdate
    BY <2>2, KeptDeviceUpdate
  <2>3. ASSUME NEW ends \in BOOLEAN, StatsUpdate(ends) PROVE IInv'
    BY <2>3, KeptStatsUpdate
  <2>4. CASE LearningEnds
    BY <2>4, KeptLearningEnds
  <2>4a. CASE LearningAlert
    BY <2>4a, KeptLearningAlert
  <2>5. CASE TakeSnapshot
    BY <2>5, KeptTakeSnapshot
  <2>5a. ASSUME NEW alert \in BOOLEAN, AnomalyCheck(alert) PROVE IInv'
    BY <2>5a, KeptAnomalyCheck
  <2>6. ASSUME NEW timed \in BOOLEAN, ProfileUpdate(timed) PROVE IInv'
    BY <2>6, KeptProfileUpdate
  <2>7. ASSUME NEW alert \in BOOLEAN, CorrelationUpdate(alert) PROVE IInv'
    BY <2>7, KeptCorrelationUpdate
  <2>8. CASE CorrelationAlert
    BY <2>8, KeptCorrelationAlert
  <2>9. CASE SessionUpdate
    BY <2>9, KeptSessionUpdate
  <2>10. CASE FingerprintWaits
    BY <2>10, KeptFingerprintWaits
  <2>11. ASSUME NEW alert \in BOOLEAN, FingerprintElevated(alert) PROVE IInv'
    BY <2>11, KeptFingerprintElevated
  <2>11a. ASSUME NEW alert \in BOOLEAN, FingerprintCritical(alert) PROVE IInv'
    BY <2>11a, KeptFingerprintCritical
  <2>12. CASE FingerprintPublish
    BY <2>12, KeptFingerprintPublish
  <2>13. QED
    BY <1>3, <2>1, <2>2, <2>3, <2>4, <2>4a, <2>5, <2>5a, <2>6, <2>7, <2>8,
       <2>9, <2>10, <2>11, <2>11a, <2>12 DEF ReceiverStep
<1>4. CASE Request
  BY <1>4, KeptRequest
<1>5. CASE StatusRead
  BY <1>5, KeptStatusRead
<1>6. CASE Respond
  BY <1>6, KeptRespond
<1>7. CASE OtherAlert
  BY <1>7, KeptOtherAlert
<1>8. CASE UNCHANGED vars
  <2>1. /\ UNCHANGED <<boot, http, page, others>>
        /\ UNCHANGED <<rx, held, packets, hb, snap, was_learning, device, stats,
                       profile, session, correlation, pds, fingerprint, logged>>
    BY <1>8 DEF vars, local, detectors
  <2>2. TypeOK'
    BY <2>1 DEF IInv, TypeOK
  <2>3. Booted' /\ PageInv'
    BY <2>1 DEF IInv, Booted, PageInv, FlagsAreLogged, Accounted
  <2>4. QED
    BY <2>1, <2>2, <2>3, OthersLeaveReceiver DEF IInv
<1>9. QED
  BY <1>1, <1>2, <1>3, <1>4, <1>5, <1>6, <1>7, <1>8 DEF Next

LEMMA IInvAlways == Spec => []IInv
BY IInvInit, IInvNext, PTL DEF Spec

-----------------------------------------------------------------------------
(***************************************************************************)
(* A module that a task comes to is there to be called, at every point of  *)
(* app_main: the order in which it initialises them and starts the tasks   *)
(* (main.c:38-79) suffices.                                                *)
(***************************************************************************)
THEOREM BootInvHolds == Spec => []BootInv
<1>1. IInv => BootInv
  <2> SUFFICES ASSUME IInv PROVE BootInv
    OBVIOUS
  <2>1. boot \in 0..11 /\ http \in 0..7 /\ rx \in DOMAIN RxModules
    BY ElevenModules DEF IInv, TypeOK
  <2>2. http \in DOMAIN StatusReads => StatusReads[http] \in Initialised
    <3>1. http \in 1..6 => StatusReads[http] \in
            {"device_state", "stats_engine", "correlation_tracker",
             "session_tracker", "fingerprint_engine", "alert_manager"}
      BY <2>1 DEF StatusReads
    <3>2. DOMAIN StatusReads = 1..6
      BY DEF StatusReads
    <3>3. QED
      BY <2>1, <3>1, <3>2, InitialisedAt DEF IInv, Booted
  <2>3. RxModules["recv"] = {}
    BY DEF RxModules
  <2>4. \A s \in DOMAIN RxModules : RxModules[s] \subseteq
          {"device_state", "stats_engine", "alert_manager", "anomaly_engine",
           "behavior_profile", "correlation_tracker", "session_tracker",
           "fingerprint_engine"}
    BY DEF RxModules
  <2>5. rx # "recv" => RxModules[rx] \subseteq Initialised
    BY <2>1, <2>4, InitialisedAt DEF IInv, Booted
  <2>6. QED
    BY <2>2, <2>3, <2>5 DEF IInv, BootInv, InitialisedBeforeUse
<1>2. QED
  BY <1>1, IInvAlways, PTL

(***************************************************************************)
(* The alert of an alarm that a page of /status shows is among the alerts  *)
(* that page lists, or as many as it can list were stored later            *)
(* (dashboard_server.c:555-562), however the tasks interleave.             *)
(***************************************************************************)
THEOREM FlagsAreLoggedHolds == Spec => []FlagsAreLogged
<1>1. IInv => FlagsAreLogged
  BY DEF IInv, PageInv
<1>2. QED
  BY <1>1, IInvAlways, PTL

(***************************************************************************)
(* Between two heartbeats every module has taken in each heartbeat once,   *)
(* the profile was seeded when learning ended, and there is a score when   *)
(* the profile has its samples (udp_receiver.c:166-229).                   *)
(***************************************************************************)
THEOREM InStepHolds == Spec => []InStep
<1>1. IInv => InStep
  <2> SUFFICES ASSUME IInv, rx = "recv" PROVE InStep
    BY DEF InStep
  <2>1. /\ device.packet_count \in Nat /\ stats.samples \in Nat
        /\ packets \in Nat
    BY Flat DEF IInv
  <2>2. One(rx \in Unseen) = 0 /\ One(rx \in Unlearned) = 0
    BY DEF One, Unseen, Unlearned
  <2>3. /\ device.packet_count = packets /\ stats.samples = packets
        /\ session.in_session = device.stream_active
    BY <2>1, <2>2 DEF IInv, Counted
  <2>4. profile.seeded <=> ~stats.learning
    BY DEF IInv, Seeding, Uncopied
  <2>5. fingerprint.ready <=> profile.n >= MinSamples
    BY DEF IInv, Scoring
  <2>6. QED
    BY <2>3, <2>4, <2>5 DEF InStep
<1>2. QED
  BY <1>1, IInvAlways, PTL

=============================================================================
