---------------------------- MODULE AlertPolicy -----------------------------
(***************************************************************************)
(* What a guarded detector promises, stated on the samples themselves and  *)
(* not on counters (anomaly_engine.c:12-22): an alert becomes active with  *)
(* the sample that completes a run of Consecutive anomalous ones, and goes *)
(* with the sample that completes a run of Consecutive normal ones.        *)
(***************************************************************************)
EXTENDS Integers, Sequences

CONSTANT Consecutive

VARIABLES verdicts,   \* the last Consecutive samples, oldest first: anomalous?
          active      \* the alert is active

Window(s) ==
  IF Len(s) <= Consecutive THEN s ELSE Tail(s)

FullRun(w, verdict) ==
  Len(w) = Consecutive /\ \A i \in DOMAIN w : w[i] = verdict

Init == verdicts = <<>> /\ active = FALSE

Sample(anomalous) ==
  /\ verdicts' = Window(Append(verdicts, anomalous))
  /\ active' = IF active THEN ~FullRun(verdicts', FALSE)
                         ELSE FullRun(verdicts', TRUE)

Next == \E anomalous \in BOOLEAN : Sample(anomalous)

Spec == Init /\ [][Next]_<<verdicts, active>>

=============================================================================
