--------------------------- MODULE MCAlertManager ---------------------------
(* AlertManager with small bounds for TLC. *)
EXTENDS AlertManager

CONSTANTS udp_rx, hb_watchdog

MCTask == {udp_rx, hb_watchdog}

\* PDS_ELEVATED, past the end of type_str.
MCType == {9}

=============================================================================
