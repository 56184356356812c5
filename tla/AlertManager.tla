---------------------------- MODULE AlertManager ----------------------------
(***************************************************************************)
(* alert_manager.c: the ring of the last ALERT_HISTORY_SIZE alerts, shared *)
(* by the tasks that raise alerts (udp_rx, hb_watchdog, app_main) and the  *)
(* HTTP task that reads it.                                                *)
(*                                                                         *)
(* A raise has two steps.  Before it takes the mutex the caller stamps the *)
(* alert with esp_log_timestamp() and prints a serial line that indexes    *)
(* the name table type_str with the alert's type; then it stores the alert *)
(* under the mutex.  Other tasks run in between.  The table has 8 names    *)
(* for 11 types: a read past its end is undefined, so the line prints some *)
(* other word (Stamp) or the monitor panics and reboots (Panic).           *)
(***************************************************************************)
EXTENDS Integers, Sequences

CONSTANTS Task,          \* the tasks that raise alerts
          Type,          \* the alert_type_t values they raise
          HistorySize,   \* ALERT_HISTORY_SIZE (32)
          MaxCount,      \* bound: alerts stored since boot
          MaxClock,      \* bound: esp_log_timestamp(), in ticks
          NoAlert        \* a zeroed ring slot, or no raise in progress

ASSUME AlertManagerAssumption ==
  /\ HistorySize \in Nat \ {0}
  /\ MaxCount \in Nat
  /\ MaxClock \in Nat
  /\ Type \subseteq 0..10
  /\ NoAlert \notin [task : Task, type : Type, ts : 0..MaxClock]

Alert == [task : Task, type : Type, ts : 0..MaxClock]

\* The entries of type_str, one for each alert_type_t up to the eighth.
type_str_length == 8

OutOfBounds(type) == type >= type_str_length

VARIABLES clock,     \* esp_log_timestamp()
          pending,   \* per task: the alert stamped but not yet stored
          s_buf, s_head, s_count,
          answer     \* what the last alert_manager_get_recent returned

vars == <<clock, pending, s_buf, s_head, s_count, answer>>

-----------------------------------------------------------------------------
Init ==
  /\ clock = 0
  /\ pending = [t \in Task |-> NoAlert]
  /\ s_buf = [i \in 0..HistorySize - 1 |-> NoAlert]
  /\ s_head = 0
  /\ s_count = 0
  /\ answer = <<>>

\* alert_manager_raise up to the mutex: stamp the alert and print its line.
Stamp(t, type) ==
  /\ pending[t] = NoAlert
  /\ pending' = [pending EXCEPT ![t] = [task |-> t, type |-> type, ts |-> clock]]
  /\ UNCHANGED <<clock, s_buf, s_head, s_count, answer>>

\* The line's %s is handed a wild pointer: the panic handler reboots.
Panic(t, type) ==
  /\ pending[t] = NoAlert
  /\ OutOfBounds(type)
  /\ clock' = 0
  /\ pending' = [u \in Task |-> NoAlert]
  /\ s_buf' = [i \in 0..HistorySize - 1 |-> NoAlert]
  /\ s_head' = 0
  /\ s_count' = 0
  /\ answer' = <<>>

\* The next slot of the ring.
AdvanceUnwrapped(i) == i + 1                \* mutant: the wrap is missing
Advance(i) == (i + 1) % HistorySize

\* alert_manager_raise under the mutex.
Store(t) ==
  /\ pending[t] # NoAlert
  /\ s_count < MaxCount
  /\ s_buf' = [s_buf EXCEPT ![s_head] = pending[t]]
  /\ s_head' = Advance(s_head)
  /\ s_count' = s_count + 1
  /\ pending' = [pending EXCEPT ![t] = NoAlert]
  /\ UNCHANGED <<clock, answer>>

\* alert_manager_get_recent: out[n-1-i] = s_buf[s_head-1-i], wrapped.
Filled == IF s_count < HistorySize THEN s_count ELSE HistorySize

\* Mutants: newest first; one slot too far.
SlotReversed(head, n, k) == (head - k + HistorySize) % HistorySize
SlotNext(head, n, k) == (head - (n - k) + HistorySize) % HistorySize
Slot(head, n, k) == (head - 1 - (n - k) + HistorySize) % HistorySize

Recent(max_count) ==
  LET n == IF max_count < Filled THEN max_count ELSE Filled
  IN  [k \in 1..n |-> s_buf[Slot(s_head, n, k)]]

GetRecent(max_count) ==
  /\ answer' = Recent(max_count)
  /\ UNCHANGED <<clock, pending, s_buf, s_head, s_count>>

Tick ==
  /\ clock < MaxClock
  /\ clock' = clock + 1
  /\ UNCHANGED <<pending, s_buf, s_head, s_count, answer>>

Next ==
  \/ \E t \in Task, type \in Type : Stamp(t, type)
  \/ \E t \in Task, type \in Type : Panic(t, type)
  \/ \E t \in Task : Store(t)
  \/ \E n \in 1..HistorySize : GetRecent(n)
  \/ Tick

Spec == Init /\ [][Next]_vars

-----------------------------------------------------------------------------
\* Every variable has its type.
TypeOK ==
  /\ clock \in 0..MaxClock
  /\ pending \in [Task -> Alert \cup {NoAlert}]
  /\ s_buf \in [0..HistorySize - 1 -> Alert \cup {NoAlert}]
  /\ s_head \in 0..HistorySize - 1
  /\ s_count \in 0..MaxCount
  /\ answer \in Seq(Alert)

\* Which slots of the ring hold alerts: the first s_head before it has filled
\* up once, all of them afterwards.
RingInv ==
  /\ s_count < HistorySize => s_head = s_count
  /\ \A i \in 0..HistorySize - 1 :
       s_buf[i] = NoAlert => s_count < HistorySize /\ i >= s_head

\* The ring read by get_recent's walk behaves as the log of AlertLog, and
\* every query is answered from it, whatever tasks raise in between and
\* however often the cursor has wrapped (alert_manager.c:79-84, 106-126).
Log == INSTANCE AlertLog
         WITH recent <- Recent(HistorySize), total <- s_count

ImplementsLog == Log!Spec

\* Two alerts of one task are never listed against the order in which that
\* task raised them, though raises of several tasks interleave between the
\* stamp and the store (alert_manager.c:50-84, 119-122).
TaskOrder ==
  LET r == Recent(HistorySize)
  IN  \A i, j \in DOMAIN r :
        i < j /\ r[i].task = r[j].task => r[i].ts <= r[j].ts

\* What makes TaskOrder inductive: a stored alert is no newer than the clock,
\* nor than the alert its task is about to store.
OrderInv ==
  /\ TaskOrder
  /\ \A t \in Task : pending[t] # NoAlert =>
       pending[t].task = t /\ pending[t].ts <= clock
  /\ LET r == Recent(HistorySize)
     IN  \A i \in DOMAIN r :
           /\ r[i].ts <= clock
           /\ \A t \in Task : pending[t] # NoAlert /\ r[i].task = t =>
                r[i].ts <= pending[t].ts

=============================================================================
