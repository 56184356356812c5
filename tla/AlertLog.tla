------------------------------ MODULE AlertLog ------------------------------
(***************************************************************************)
(* What alert_manager promises its callers, with no ring buffer in it: a   *)
(* log that keeps the last HistorySize alerts, oldest first, and answers a *)
(* query for n alerts with its last n entries.  Only a reboot of the       *)
(* monitor empties it (nothing is kept in flash).  AlertManager implements *)
(* this specification.                                                     *)
(***************************************************************************)
EXTENDS Integers, Sequences

CONSTANTS Alert,        \* what can be stored
          HistorySize   \* ALERT_HISTORY_SIZE

VARIABLES recent,       \* the alerts still kept, oldest first
          total,        \* alerts stored since boot
          answer        \* what the last query returned

vars == <<recent, total, answer>>

\* The last n entries of s, or all of s when it is shorter.
LastOf(s, n) ==
  LET k == IF n < Len(s) THEN n ELSE Len(s)
  IN  [i \in 1..k |-> s[Len(s) - k + i]]

Init ==
  /\ recent = <<>>
  /\ total = 0
  /\ answer = <<>>

Add(a) ==
  /\ recent' = LastOf(Append(recent, a), HistorySize)
  /\ total' = total + 1
  /\ UNCHANGED answer

Query(n) ==
  /\ answer' = LastOf(recent, n)
  /\ UNCHANGED <<recent, total>>

Reboot ==
  /\ recent' = <<>>
  /\ total' = 0
  /\ answer' = <<>>

Next ==
  \/ \E a \in Alert : Add(a)
  \/ \E n \in 1..HistorySize : Query(n)
  \/ Reboot

Spec == Init /\ [][Next]_vars

=============================================================================
