--------------------------- MODULE BehaviorProfile --------------------------
(***************************************************************************)
(* behavior_profile.c: one long-term moving average per metric, seeded     *)
(* with the short-term mean on the heartbeat that ends the learning phase  *)
(* (udp_receiver.c looks for that edge) and ready after ProfileMin samples *)
(* more.  Only the receiver task calls this module, so that its seeding    *)
(* and its update are one step.                                            *)
(*                                                                         *)
(* An average is abstracted to how many samples it has been fed.           *)
(***************************************************************************)
EXTENDS StatsSnapshot

CONSTANTS ProfileMin,  \* BEHAVIOR_PROFILE_MIN_SAMPLES (120)
          SampleCap    \* bound: where samples stop being counted

ASSUME ProfileAssumption ==
  /\ ProfileMin \in Nat \ {0}
  /\ SampleCap \in Nat /\ SampleCap >= ProfileMin

VARIABLES
  s_phase1_was_learning,  \* of udp_receiver.c
  seeded_done,
  profile                 \* per metric: a long_term_stat_t

profiles == <<s_phase1_was_learning, seeded_done, profile>>

ProfileInit ==
  /\ s_phase1_was_learning = TRUE
  /\ seeded_done = FALSE
  /\ profile = [m \in Metric |-> [n |-> 0, ready |-> FALSE]]

\* ema_update
EmaUpdate(p) ==
  LET n == UpTo(SampleCap, p.n + 1)
  IN  [n |-> n, ready |-> p.ready \/ n >= ProfileMin]

\* Mutant: one sample is enough for an interval.
ProfileUpdateEarly ==
  LET edge == s_phase1_was_learning /\ ~learning
      seeded == seeded_done \/ edge
  IN  /\ s_phase1_was_learning' = (s_phase1_was_learning /\ learning)
      /\ seeded_done' = seeded
      /\ profile' = [m \in Metric |->
           IF ~learning /\ seeded /\ (m = "hb_interval" => hb_count >= 1)
           THEN EmaUpdate(profile[m]) ELSE profile[m]]

\* behavior_profile_seed, on the edge, and behavior_profile_update.
ProfileUpdate ==
  LET edge == s_phase1_was_learning /\ ~learning
      seeded == seeded_done \/ edge
  IN  /\ s_phase1_was_learning' = (s_phase1_was_learning /\ learning)
      /\ seeded_done' = seeded
      /\ profile' = [m \in Metric |->
           IF ~learning /\ seeded /\ (m = "hb_interval" => HasInterval)
           THEN EmaUpdate(profile[m]) ELSE profile[m]]

\* all_ready of behavior_profile_get_snapshot.
AllReady == \A m \in Metric : profile[m].ready

ProfileTypeOK ==
  /\ s_phase1_was_learning \in BOOLEAN
  /\ seeded_done \in BOOLEAN
  /\ profile \in [Metric -> [n : 0..SampleCap, ready : BOOLEAN]]

=============================================================================
