------------------------- MODULE AlertManagerProofs -------------------------
(***************************************************************************)
(* Proofs about AlertManager for every set of tasks, every set of types    *)
(* and every ring size: its invariants, and that it implements AlertLog.   *)
(***************************************************************************)
EXTENDS AlertManager, TLAPS

(***************************************************************************)
(* Wrapping an index that is less than twice the ring size.                *)
(***************************************************************************)
LEMMA WrapLemma ==
  ASSUME NEW n \in Nat \ {0}, NEW x \in 0..(2 * n) - 1
  PROVE  x % n = IF x < n THEN x ELSE x - n
OBVIOUS

(***************************************************************************)
(* Advancing the cursor by one slot.                                       *)
(***************************************************************************)
LEMMA AdvanceLemma ==
  ASSUME NEW n \in Nat \ {0}, NEW h \in 0..n - 1
  PROVE  (h + 1) % n = IF h + 1 < n THEN h + 1 ELSE 0
OBVIOUS

IInv == TypeOK /\ RingInv

(***************************************************************************)
(* The slot get_recent reads for the k-th of the n alerts it returns.      *)
(***************************************************************************)
LEMMA SlotValue ==
  ASSUME NEW h \in 0..HistorySize - 1, NEW n \in 0..HistorySize, NEW k \in 1..n
  PROVE  /\ Slot(h, n, k) \in 0..HistorySize - 1
         /\ Slot(h, n, k) = IF h - 1 - (n - k) >= 0
                            THEN h - 1 - (n - k)
                            ELSE h - 1 - (n - k) + HistorySize
<1> DEFINE x == h - 1 - (n - k) + HistorySize
<1>1. HistorySize \in Nat \ {0}
  BY AlertManagerAssumption
<1>2. x \in 0..(2 * HistorySize) - 1
  BY <1>1
<1>3. Slot(h, n, k) = IF x < HistorySize THEN x ELSE x - HistorySize
  BY <1>1, <1>2, WrapLemma DEF Slot
<1>4. QED
  BY <1>1, <1>2, <1>3

(***************************************************************************)
(* get_recent only reads slots of the ring that hold an alert.             *)
(***************************************************************************)
LEMMA SlotLemma ==
  ASSUME IInv, NEW n \in 0..Filled, NEW k \in 1..n
  PROVE  s_buf[Slot(s_head, n, k)] \in Alert
<1>1. /\ HistorySize \in Nat \ {0}
      /\ s_head \in 0..HistorySize - 1
      /\ s_count \in Nat
      /\ n \in 0..HistorySize
      /\ n <= s_count
  BY AlertManagerAssumption DEF IInv, TypeOK, Filled
<1>2. /\ Slot(s_head, n, k) \in 0..HistorySize - 1
      /\ Slot(s_head, n, k) = IF s_head - 1 - (n - k) >= 0
                              THEN s_head - 1 - (n - k)
                              ELSE s_head - 1 - (n - k) + HistorySize
  BY <1>1, SlotValue
<1>3. ~(s_count < HistorySize /\ Slot(s_head, n, k) >= s_head)
  BY <1>1, <1>2 DEF IInv, RingInv
<1>4. QED
  BY <1>2, <1>3 DEF IInv, RingInv, TypeOK

(***************************************************************************)
(* What a query returns: a sequence of alerts, its k-th entry read from    *)
(* the slot of SlotLemma.                                                  *)
(***************************************************************************)
LEMMA RecentLemma ==
  ASSUME IInv, NEW max \in 1..HistorySize
  PROVE  LET n == IF max < Filled THEN max ELSE Filled
         IN  /\ n \in 0..Filled
             /\ Recent(max) = [k \in 1..n |-> s_buf[Slot(s_head, n, k)]]
             /\ Recent(max) \in Seq(Alert)
             /\ Len(Recent(max)) = n
<1> DEFINE n == IF max < Filled THEN max ELSE Filled
<1>1. Filled \in Nat
  BY AlertManagerAssumption DEF IInv, TypeOK, Filled
<1>2. n \in 0..Filled /\ n \in Nat
  BY <1>1, AlertManagerAssumption
<1>3. Recent(max) = [k \in 1..n |-> s_buf[Slot(s_head, n, k)]]
  BY DEF Recent, Slot
<1>4. \A k \in 1..n : s_buf[Slot(s_head, n, k)] \in Alert
  BY <1>2, SlotLemma
<1> HIDE DEF n
<1>5. Recent(max) \in Seq(Alert) /\ Len(Recent(max)) = n
  BY <1>2, <1>3, <1>4
<1>6. QED
  BY <1>2, <1>3, <1>5 DEF n

(***************************************************************************)
(* The invariant is inductive.                                             *)
(***************************************************************************)
LEMMA IInvInit == Init => IInv
BY AlertManagerAssumption DEF Init, IInv, TypeOK, RingInv, Alert

LEMMA IInvStep == IInv /\ [Next]_vars => IInv'
<1> SUFFICES ASSUME IInv, [Next]_vars PROVE IInv'
  OBVIOUS
<1> USE AlertManagerAssumption DEF IInv, TypeOK, RingInv
<1>1. ASSUME NEW t \in Task, NEW type \in Type, Stamp(t, type) PROVE IInv'
  <2>3. [task |-> t, type |-> type, ts |-> clock] \in Alert
    BY DEF Alert
  <2>4. QED
    BY <1>1, <2>3 DEF Stamp
<1>2. ASSUME NEW t \in Task, NEW type \in Type, Panic(t, type) PROVE IInv'
  BY <1>2 DEF Panic
<1>3. ASSUME NEW t \in Task, Store(t) PROVE IInv'
  <2>1. pending[t] \in Alert /\ NoAlert \notin Alert
    BY <1>3 DEF Advance, Store, Alert
  <2>2. s_head' = IF s_head + 1 < HistorySize THEN s_head + 1 ELSE 0
    <3>1. s_head' = (s_head + 1) % HistorySize
      BY <1>3 DEF Advance, Store
    <3>2. QED
      BY <3>1, AdvanceLemma
  <2>3. TypeOK'
    BY <1>3, <2>1, <2>2 DEF Advance, Store
  <2>4. s_buf' = [s_buf EXCEPT ![s_head] = pending[t]] /\ s_count' = s_count + 1
    BY <1>3 DEF Advance, Store
  <2>5. s_count' < HistorySize => s_head' = s_count'
    BY <2>2, <2>4
  <2>6. \A i \in 0..HistorySize - 1 :
          s_buf'[i] = NoAlert => s_count' < HistorySize /\ i >= s_head'
    <3> SUFFICES ASSUME NEW i \in 0..HistorySize - 1, s_buf'[i] = NoAlert
                 PROVE  s_count' < HistorySize /\ i >= s_head'
      OBVIOUS
    <3>1. i # s_head
      BY <2>1, <2>4
    <3>2. s_buf[i] = NoAlert
      BY <2>4, <3>1
    <3>3. s_count < HistorySize /\ i >= s_head /\ s_head = s_count
      BY <3>2
    <3>4. QED
      BY <2>2, <2>4, <3>1, <3>3
  <2>7. QED
    BY <2>3, <2>5, <2>6
<1>4. ASSUME NEW n \in 1..HistorySize, GetRecent(n) PROVE IInv'
  <2>1. Recent(n) \in Seq(Alert)
    BY RecentLemma
  <2>2. QED
    BY <1>4, <2>1 DEF GetRecent
<1>5. ASSUME Tick PROVE IInv'
  BY <1>5 DEF Tick
<1>6. ASSUME UNCHANGED vars PROVE IInv'
  BY <1>6 DEF vars
<1>7. QED
  BY <1>1, <1>2, <1>3, <1>4, <1>5, <1>6 DEF Next

(***************************************************************************)
(* Type correctness and the shape of the ring, in every behaviour of the   *)
(* raising and reading tasks (alert_manager.c:31-34, 79-83).               *)
(***************************************************************************)
THEOREM TypeCorrect == Spec => []TypeOK
<1>1. IInv => TypeOK
  BY DEF IInv
<1>2. QED
  BY IInvInit, IInvStep, <1>1, PTL DEF Spec

THEOREM RingShape == Spec => []RingInv
<1>1. IInv => RingInv
  BY DEF IInv
<1>2. QED
  BY IInvInit, IInvStep, <1>1, PTL DEF Spec

-----------------------------------------------------------------------------
(***************************************************************************)
(* Storing an alert appends it to what get_recent walks, and drops the     *)
(* oldest one when the ring is full.                                       *)
(***************************************************************************)
LEMMA StoreAppends ==
  ASSUME IInv, IInv', NEW t \in Task, Store(t)
  PROVE  Recent(HistorySize)'
           = Log!LastOf(Append(Recent(HistorySize), pending[t]), HistorySize)
<1> DEFINE H == HistorySize
           n == Filled
           m == Filled'
           r == Recent(H)
           q == Recent(H)'
           s == Append(r, pending[t])
<1>1. /\ H \in Nat \ {0}
      /\ s_head \in 0..H - 1
      /\ s_count \in Nat
      /\ n = (IF s_count < H THEN s_count ELSE H)
      /\ s_count < H => s_head = s_count
  BY AlertManagerAssumption DEF IInv, TypeOK, RingInv, Filled
<1>2. /\ s_buf' = [s_buf EXCEPT ![s_head] = pending[t]]
      /\ s_count' = s_count + 1
      /\ s_buf \in [0..H - 1 -> Alert \cup {NoAlert}]
  BY DEF Advance, Store, IInv, TypeOK
<1>3. s_head' = IF s_head + 1 < H THEN s_head + 1 ELSE 0
  <2>1. s_head' = (s_head + 1) % H
    BY DEF Advance, Store
  <2>2. QED
    BY <1>1, <2>1, AdvanceLemma
<1>4. m = IF n < H THEN n + 1 ELSE H
  BY <1>1, <1>2 DEF Filled
<1>5. /\ r = [k \in 1..n |-> s_buf[Slot(s_head, n, k)]]
      /\ r \in Seq(Alert)
      /\ Len(r) = n
  BY <1>1, RecentLemma DEF Filled
<1>6. q = [k \in 1..m |-> s_buf'[Slot(s_head', m, k)]]
  BY <1>1, <1>4 DEF Recent
<1>7. /\ Len(s) = n + 1
      /\ \A k \in 1..n : s[k] = r[k]
      /\ s[n + 1] = pending[t]
  BY <1>1, <1>5
<1>8. Log!LastOf(s, H) = [k \in 1..m |-> s[n + 1 - m + k]]
  BY <1>1, <1>4, <1>7 DEF Log!LastOf
<1> HIDE DEF H, n, m, r, q, s
<1>9. ASSUME NEW k \in 1..m
      PROVE  s_buf'[Slot(s_head', m, k)] = s[n + 1 - m + k]
  <2>1. s_head' \in 0..H - 1 /\ m \in 0..H
    BY <1>1, <1>3, <1>4
  <2>2. /\ Slot(s_head', m, k) \in 0..H - 1
        /\ Slot(s_head', m, k) = IF s_head' - 1 - (m - k) >= 0
                                 THEN s_head' - 1 - (m - k)
                                 ELSE s_head' - 1 - (m - k) + H
    BY <2>1, SlotValue DEF H
  <2>3. CASE k = m
    <3>1. Slot(s_head', m, k) = s_head
      BY <1>1, <1>3, <2>1, <2>2, <2>3
    <3>2. n + 1 - m + k = n + 1
      BY <1>1, <1>4, <2>3
    <3>3. QED
      BY <1>1, <1>2, <1>7, <3>1, <3>2
  <2>4. CASE k < m
    <3> DEFINE j == n + 1 - m + k
    <3>1. j \in 1..n /\ n \in 0..H /\ n - j = m - 1 - k
      BY <1>1, <1>4, <2>4
    <3>2. /\ Slot(s_head, n, j) \in 0..H - 1
          /\ Slot(s_head, n, j) = IF s_head - 1 - (n - j) >= 0
                                  THEN s_head - 1 - (n - j)
                                  ELSE s_head - 1 - (n - j) + H
      BY <1>1, <3>1, SlotValue DEF H
    <3> HIDE DEF j
    <3>3. Slot(s_head', m, k) = Slot(s_head, n, j)
      BY <1>1, <1>3, <1>4, <2>1, <2>2, <2>4, <3>1, <3>2
    <3>4. Slot(s_head', m, k) # s_head
      BY <1>1, <1>3, <1>4, <2>1, <2>2, <2>4
    <3>5. s[j] = s_buf[Slot(s_head, n, j)]
      BY <1>5, <1>7, <3>1
    <3>6. s_buf'[Slot(s_head', m, k)] = s_buf[Slot(s_head', m, k)]
      BY <1>2, <2>2, <3>4
    <3>7. QED
      BY <3>3, <3>5, <3>6 DEF j
  <2>5. QED
    BY <2>1, <2>3, <2>4
<1>10. QED
  BY <1>6, <1>8, <1>9 DEF q, s, r, H

(***************************************************************************)
(* A query for fewer alerts than the ring holds returns the last ones.     *)
(***************************************************************************)
LEMMA AnswerIsSuffix ==
  ASSUME IInv, NEW max \in 1..HistorySize
  PROVE  Recent(max) = Log!LastOf(Recent(HistorySize), max)
<1> DEFINE H == HistorySize
           N == Filled
           n == IF max < N THEN max ELSE N
           r == Recent(H)
<1>1. /\ H \in Nat \ {0}
      /\ s_head \in 0..H - 1
      /\ N \in 0..H
      /\ n \in 0..N
  BY AlertManagerAssumption DEF IInv, TypeOK, Filled
<1>2. r = [k \in 1..N |-> s_buf[Slot(s_head, N, k)]] /\ Len(r) = N
  BY <1>1, RecentLemma
<1>3. Recent(max) = [k \in 1..n |-> s_buf[Slot(s_head, n, k)]]
  BY <1>1, RecentLemma
<1>4. Log!LastOf(r, max) = [k \in 1..n |-> r[N - n + k]]
  BY <1>2 DEF Log!LastOf
<1> HIDE DEF H, N, n, r
<1>5. ASSUME NEW k \in 1..n
      PROVE  s_buf[Slot(s_head, n, k)] = r[N - n + k]
  <2>1. N - n + k \in 1..N /\ N - (N - n + k) = n - k
    BY <1>1
  <2>2. Slot(s_head, N, N - n + k) = Slot(s_head, n, k)
    BY <2>1 DEF Slot
  <2>3. QED
    BY <1>2, <2>1, <2>2
<1>6. QED
  BY <1>3, <1>4, <1>5 DEF r, H

(***************************************************************************)
(* alert_manager implements AlertLog: every step of the raising and        *)
(* reading tasks adds one alert to the log, answers a query from it,       *)
(* reboots, or leaves it unchanged (alert_manager.c:45-126).               *)
(***************************************************************************)
THEOREM RingImplementsLog == Spec => ImplementsLog
<1>1. Init => Log!Init
  <2> SUFFICES ASSUME Init PROVE Log!Init
    OBVIOUS
  <2>1. s_count = 0 /\ answer = <<>> /\ Filled = 0
    BY AlertManagerAssumption DEF Init, Filled
  <2>2. Recent(HistorySize) = <<>>
    BY <2>1, AlertManagerAssumption DEF Recent
  <2>3. QED
    BY <2>1, <2>2 DEF Log!Init
<1>2. IInv /\ IInv' /\ [Next]_vars => [Log!Next]_(Log!vars)
  <2> SUFFICES ASSUME IInv, IInv', [Next]_vars PROVE [Log!Next]_(Log!vars)
    OBVIOUS
  <2> DEFINE r == Recent(HistorySize)
  <2>0. ASSUME UNCHANGED <<s_buf, s_head, s_count>> PROVE r' = r
    BY <2>0 DEF Recent, Filled
  <2>1. ASSUME NEW t \in Task, NEW type \in Type, Stamp(t, type)
        PROVE  UNCHANGED Log!vars
    BY <2>0, <2>1 DEF Stamp, Log!vars
  <2>2. ASSUME NEW t \in Task, NEW type \in Type, Panic(t, type)
        PROVE  Log!Reboot
    <3>1. s_count' = 0 /\ answer' = <<>> /\ Filled' = 0
      BY <2>2, AlertManagerAssumption DEF Panic, Filled
    <3>2. r' = <<>>
      BY <3>1, AlertManagerAssumption DEF Recent
    <3>3. QED
      BY <3>1, <3>2 DEF Log!Reboot
  <2>3. ASSUME NEW t \in Task, Store(t)
        PROVE  Log!Add(pending[t]) /\ pending[t] \in Alert
    <3>1. pending[t] \in Alert
      BY <2>3 DEF Advance, Store, IInv, TypeOK
    <3>2. r' = Log!LastOf(Append(r, pending[t]), HistorySize)
      BY <2>3, StoreAppends
    <3>3. QED
      BY <2>3, <3>1, <3>2 DEF Advance, Store, Log!Add
  <2>4. ASSUME NEW n \in 1..HistorySize, GetRecent(n)
        PROVE  Log!Query(n)
    <3>1. UNCHANGED <<s_buf, s_head, s_count>> /\ answer' = Recent(n)
      BY <2>4 DEF GetRecent
    <3>2. Recent(n) = Log!LastOf(r, n)
      BY AnswerIsSuffix
    <3>3. QED
      BY <2>0, <3>1, <3>2 DEF Log!Query
  <2>5. ASSUME Tick PROVE UNCHANGED Log!vars
    BY <2>0, <2>5 DEF Tick, Log!vars
  <2>6. ASSUME UNCHANGED vars PROVE UNCHANGED Log!vars
    BY <2>0, <2>6 DEF vars, Log!vars
  <2>7. QED
    BY <2>1, <2>2, <2>3, <2>4, <2>5, <2>6 DEF Next, Log!Next
<1>3. QED
  BY IInvInit, IInvStep, <1>1, <1>2, PTL DEF Spec, ImplementsLog, Log!Spec

-----------------------------------------------------------------------------
(***************************************************************************)
(* OrderInv, with the ring's contents named.                               *)
(***************************************************************************)
Ordered(r, p, c) ==
  /\ \A i, j \in DOMAIN r :
       i < j /\ r[i].task = r[j].task => r[i].ts <= r[j].ts
  /\ \A t \in Task : p[t] # NoAlert => p[t].task = t /\ p[t].ts <= c
  /\ \A i \in DOMAIN r :
       /\ r[i].ts <= c
       /\ \A t \in Task : p[t] # NoAlert /\ r[i].task = t => r[i].ts <= p[t].ts

LEMMA OrderStep == IInv /\ IInv' /\ OrderInv /\ [Next]_vars => OrderInv'
<1> DEFINE r == Recent(HistorySize)
<1>0. (OrderInv <=> Ordered(r, pending, clock))
      /\ (OrderInv' <=> Ordered(r', pending', clock'))
  BY DEF OrderInv, TaskOrder, Ordered
<1> SUFFICES ASSUME IInv, IInv', Ordered(r, pending, clock), [Next]_vars
             PROVE  Ordered(r', pending', clock')
  BY <1>0
<1>1. /\ clock \in Nat
      /\ \A t \in Task : pending[t] \in Alert \cup {NoAlert}
      /\ r \in Seq(Alert)
      /\ DOMAIN r = 1..Len(r) /\ Len(r) \in 0..HistorySize
      /\ \A i \in DOMAIN r : r[i] \in Alert
      /\ HistorySize \in Nat \ {0}
  <2>1. r \in Seq(Alert) /\ Len(r) \in 0..HistorySize
    <3>1. HistorySize \in 1..HistorySize /\ Filled \in 0..HistorySize
      BY AlertManagerAssumption DEF IInv, TypeOK, Filled
    <3>2. QED
      BY <3>1, RecentLemma
  <2> HIDE DEF r
  <2>2. QED
    BY <2>1, AlertManagerAssumption DEF IInv, TypeOK
<1>2. \A a \in Alert : a.ts \in Nat /\ a # NoAlert
  BY AlertManagerAssumption DEF Alert
<1>3. ASSUME UNCHANGED <<s_buf, s_head, s_count>> PROVE r' = r
  BY <1>3 DEF Recent, Filled
<1>4. ASSUME NEW t \in Task, NEW type \in Type, Stamp(t, type)
      PROVE  Ordered(r', pending', clock')
  <2>1. r' = r
    BY <1>3, <1>4 DEF Stamp
  <2>2. /\ clock' = clock
        /\ pending[t] = NoAlert
        /\ pending' = [pending EXCEPT ![t] =
                         [task |-> t, type |-> type, ts |-> clock]]
        /\ pending \in [Task -> Alert \cup {NoAlert}]
    BY <1>4 DEF Stamp, IInv, TypeOK
  <2> HIDE DEF r
  <2>3. QED
    BY <1>1, <1>2, <2>1, <2>2 DEF Ordered
<1>5. ASSUME NEW t \in Task, NEW type \in Type, Panic(t, type)
      PROVE  Ordered(r', pending', clock')
  <2>1. s_count' = 0 /\ Filled' = 0 /\ pending' = [u \in Task |-> NoAlert]
    BY <1>5, AlertManagerAssumption DEF Panic, Filled
  <2>2. r' = <<>>
    BY <2>1, AlertManagerAssumption DEF Recent
  <2> HIDE DEF r
  <2>3. QED
    BY <2>1, <2>2 DEF Ordered
<1>6. ASSUME NEW t \in Task, Store(t)
      PROVE  Ordered(r', pending', clock')
  <2> DEFINE s == Append(r, pending[t])
             m == IF HistorySize < Len(s) THEN HistorySize ELSE Len(s)
             d == Len(s) - m
  <2>1. r' = [k \in 1..m |-> s[d + k]]
    BY <1>6, StoreAppends DEF Log!LastOf
  <2>2. /\ clock' = clock
        /\ pending[t] \in Alert
        /\ pending[t] # NoAlert
        /\ pending' = [pending EXCEPT ![t] = NoAlert]
        /\ pending \in [Task -> Alert \cup {NoAlert}]
    BY <1>6 DEF Advance, Store, IInv, TypeOK
  <2> HIDE DEF r
  <2>3. /\ Len(s) = Len(r) + 1
        /\ \A i \in 1..Len(r) : s[i] = r[i]
        /\ s[Len(r) + 1] = pending[t]
    BY <1>1, <2>2
  <2>4. d \in Nat /\ m \in Nat /\ d + m = Len(r) + 1
    BY <1>1, <2>3
  <2> HIDE DEF s, m, d
  <2>5. \A k \in 1..m : d + k \in 1..Len(r) + 1 /\ r'[k] = s[d + k]
    BY <1>1, <2>1, <2>4
  <2> USE DEF Ordered
  <2>a. \A i \in 1..Len(r) + 1 :
          \/ i \in DOMAIN r /\ s[i] = r[i]
          \/ i = Len(r) + 1 /\ s[i] = pending[t]
    BY <1>1, <2>3
  <2>b. pending[t].task = t /\ pending[t].ts <= clock
    BY <2>2
  <2>c. \A i \in DOMAIN r : r[i].task = t => r[i].ts <= pending[t].ts
    BY <2>2
  <2>6. ASSUME NEW i \in 1..Len(r) + 1, NEW j \in 1..Len(r) + 1,
               i < j, s[i].task = s[j].task
        PROVE  s[i].ts <= s[j].ts
    <3>1. i \in DOMAIN r /\ s[i] = r[i]
      BY <1>1, <2>6, <2>a
    <3>2. CASE j \in DOMAIN r /\ s[j] = r[j]
      BY <2>6, <3>1, <3>2
    <3>3. CASE s[j] = pending[t]
      BY <2>6, <2>b, <2>c, <3>1, <3>3
    <3>4. QED
      BY <2>a, <3>2, <3>3
  <2>7. \A i \in 1..Len(r) + 1 :
          /\ s[i].ts <= clock
          /\ \A u \in Task \ {t} : pending[u] # NoAlert /\ s[i].task = u =>
               s[i].ts <= pending[u].ts
    BY <2>a, <2>b
  <2>8. DOMAIN r' = 1..m
    BY <2>1
  <2>9. \A i, j \in DOMAIN r' :
          i < j /\ r'[i].task = r'[j].task => r'[i].ts <= r'[j].ts
    BY <2>4, <2>5, <2>6, <2>8
  <2>10. \A i \in DOMAIN r' :
          /\ r'[i].ts <= clock'
          /\ \A u \in Task : pending'[u] # NoAlert /\ r'[i].task = u =>
               r'[i].ts <= pending'[u].ts
    BY <2>2, <2>5, <2>7, <2>8
  <2>11. \A u \in Task : pending'[u] # NoAlert =>
           pending'[u].task = u /\ pending'[u].ts <= clock'
    BY <2>2 DEF Ordered
  <2>12. QED
    BY <2>9, <2>10, <2>11 DEF Ordered
<1>7. ASSUME NEW n \in 1..HistorySize, GetRecent(n)
      PROVE  Ordered(r', pending', clock')
  BY <1>3, <1>7 DEF GetRecent
<1>8. ASSUME Tick PROVE Ordered(r', pending', clock')
  <2>1. r' = r /\ pending' = pending /\ clock' = clock + 1
    BY <1>3, <1>8 DEF Tick
  <2> HIDE DEF r
  <2>2. QED
    BY <1>1, <1>2, <2>1 DEF Ordered
<1>9. ASSUME UNCHANGED vars PROVE Ordered(r', pending', clock')
  BY <1>3, <1>9 DEF vars
<1>10. QED
  BY <1>4, <1>5, <1>6, <1>7, <1>8, <1>9 DEF Next

(***************************************************************************)
(* Alerts of one task are always listed in the order that task raised      *)
(* them, for any number of tasks whose stamps and stores interleave        *)
(* (alert_manager.c:50-84, 119-122).                                       *)
(***************************************************************************)
THEOREM TaskOrderHolds == Spec => []TaskOrder
<1>1. Init => OrderInv
  <2> SUFFICES ASSUME Init PROVE OrderInv
    OBVIOUS
  <2>1. Filled = 0 /\ pending = [t \in Task |-> NoAlert]
    BY AlertManagerAssumption DEF Init, Filled
  <2>2. Recent(HistorySize) = <<>>
    BY <2>1, AlertManagerAssumption DEF Recent
  <2>3. QED
    BY <2>1, <2>2 DEF OrderInv, TaskOrder
<1>2. OrderInv => TaskOrder
  BY DEF OrderInv
<1>3. QED
  BY IInvInit, IInvStep, OrderStep, <1>1, <1>2, PTL DEF Spec

=============================================================================
