------------------------ MODULE MCFingerprintEngine -------------------------
(* FingerprintEngine with small bounds for TLC. *)
EXTENDS FingerprintEngine

\* No drift, and drift beyond the scale: with the weights 40, 35 and 25 their combinations
\* fall below, between and above the two thresholds.
MCZScore == {0, 70}

=============================================================================
