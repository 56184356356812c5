---------------------------- MODULE CameraServer -----------------------------
(***************************************************************************)
(* The camera's viewers (camera_server.cpp) and the telemetry that reports *)
(* them (telemetry_collector.cpp).  The HTTP task spawns a streamer task   *)
(* for each client; a streamer counts its client in, sends frames until    *)
(* the client is gone or a write fails, and counts it out.  The heartbeat  *)
(* task, on the other core, reads the stream flag and the viewer count one *)
(* after the other, each under the mutex, and gives up on either after     *)
(* 5 ms.                                                                   *)
(*                                                                         *)
(* A request whose client is already gone, or for which no task can be     *)
(* created, is dropped before it touches any of this state.                *)
(***************************************************************************)
EXTENDS Integers, FiniteSets

CONSTANTS Streamer,  \* the streamer tasks the heap has room for
          NoTask     \* the mutex is free

ASSUME CameraAssumption == IsFiniteSet(Streamer) /\ NoTask \notin Streamer

VARIABLES
  s_viewer_count, s_stream_active,
  s_viewer_mutex,  \* the streamer that holds the mutex
  streamer,        \* where each streamer task is
  connected,       \* the streamers whose client is there
  heartbeat,       \* the next step of the heartbeat task
  telemetry,       \* what it is collecting, and then has sent
  changed,         \* ghost: a viewer came or went since the collection began
  gave_up          \* ghost: one of the collection's reads was given up

viewers == <<s_viewer_count, s_stream_active, s_viewer_mutex>>
vars == <<viewers, streamer, connected, heartbeat, telemetry, changed, gave_up>>

Init ==
  /\ s_viewer_count = 0
  /\ s_stream_active = FALSE
  /\ s_viewer_mutex = NoTask
  /\ streamer = [t \in Streamer |-> "none"]
  /\ connected = {}
  /\ heartbeat = "idle"
  /\ telemetry = [stream_active |-> FALSE, viewer_count |-> 0]
  /\ changed = FALSE
  /\ gave_up = FALSE

Goto(t, place) == streamer' = [streamer EXCEPT ![t] = place]

-----------------------------------------------------------------------------
(* The clients and the HTTP task *)

\* handle_stream
HandleStream(t) ==
  /\ streamer[t] = "none"
  /\ Goto(t, "starting")
  /\ connected' = connected \cup {t}
  /\ UNCHANGED <<viewers, heartbeat, telemetry, changed, gave_up>>

Disconnect(t) ==
  /\ t \in connected
  /\ connected' = connected \ {t}
  /\ UNCHANGED <<viewers, streamer, heartbeat, telemetry, changed, gave_up>>

-----------------------------------------------------------------------------
(* streamer_task *)

Take(t) == s_viewer_mutex = NoTask /\ s_viewer_mutex' = t
Give(t) == s_viewer_mutex = t /\ s_viewer_mutex' = NoTask

Change == changed' = TRUE /\ UNCHANGED <<heartbeat, telemetry, gave_up>>

\* viewer_inc, in two steps: its two variables are two stores.
CountIn(t) ==
  /\ streamer[t] = "starting"
  /\ Take(t)
  /\ s_viewer_count' = s_viewer_count + 1
  /\ Goto(t, "activating")
  /\ Change
  /\ UNCHANGED <<s_stream_active, connected>>

Activate(t) ==
  /\ streamer[t] = "activating"
  /\ Give(t)
  /\ s_stream_active' = TRUE
  /\ Goto(t, "streaming")
  /\ Change
  /\ UNCHANGED <<s_viewer_count, connected>>

\* The loop ends because the client is gone, or a write has failed.
ClientGone(t) ==
  /\ streamer[t] = "streaming"
  /\ t \notin connected
  /\ Goto(t, "leaving")
  /\ UNCHANGED <<viewers, connected, heartbeat, telemetry, changed, gave_up>>

WriteFails(t) ==
  /\ streamer[t] = "streaming"
  /\ Goto(t, "leaving")
  /\ UNCHANGED <<viewers, connected, heartbeat, telemetry, changed, gave_up>>

\* viewer_dec, in two steps.
CountOut(t) ==
  /\ streamer[t] = "leaving"
  /\ Take(t)
  /\ s_viewer_count' = IF s_viewer_count > 0 THEN s_viewer_count - 1 ELSE 0
  /\ Goto(t, "deactivating")
  /\ Change
  /\ UNCHANGED <<s_stream_active, connected>>

\* Mutants: whoever leaves ends the stream; nobody does.
DeactivateAlways(t) ==
  /\ streamer[t] = "deactivating"
  /\ Give(t)
  /\ s_stream_active' = FALSE
  /\ Goto(t, "none")
  /\ connected' = connected \ {t}
  /\ Change
  /\ UNCHANGED s_viewer_count

DeactivateNever(t) ==
  /\ streamer[t] = "deactivating"
  /\ Give(t)
  /\ Goto(t, "none")
  /\ connected' = connected \ {t}
  /\ Change
  /\ UNCHANGED <<s_viewer_count, s_stream_active>>

\* Then the streamer closes the connection and deletes itself.
Deactivate(t) ==
  /\ streamer[t] = "deactivating"
  /\ Give(t)
  /\ s_stream_active' = IF s_viewer_count = 0 THEN FALSE ELSE s_stream_active
  /\ Goto(t, "none")
  /\ connected' = connected \ {t}
  /\ Change
  /\ UNCHANGED s_viewer_count

StreamerStep(t) ==
  \/ CountIn(t)
  \/ Activate(t)
  \/ ClientGone(t)
  \/ CountOut(t)
  \/ Deactivate(t)

-----------------------------------------------------------------------------
(* telemetry_collect, in the heartbeat task *)

Collect ==
  /\ heartbeat = "idle"
  /\ heartbeat' = "is_streaming"
  /\ changed' = FALSE
  /\ gave_up' = FALSE
  /\ UNCHANGED <<viewers, streamer, connected, telemetry>>

\* The two outcomes of a read.  A holder of the mutex may itself be preempted
\* for more than 5 ms.
UnlockedRead(field, value, default) ==   \* mutant: the mutex is not taken
  /\ telemetry' = [telemetry EXCEPT ![field] = value]
  /\ UNCHANGED <<changed, gave_up>>

Read(field, value, default) ==
  \/ /\ s_viewer_mutex = NoTask
     /\ telemetry' = [telemetry EXCEPT ![field] = value]
     /\ UNCHANGED <<changed, gave_up>>
  \/ /\ s_viewer_mutex # NoTask
     /\ telemetry' = [telemetry EXCEPT ![field] = default]
     /\ gave_up' = TRUE
     /\ UNCHANGED changed

\* camera_server_is_streaming
IsStreaming ==
  /\ heartbeat = "is_streaming"
  /\ Read("stream_active", s_stream_active, FALSE)
  /\ heartbeat' = "viewer_count"
  /\ UNCHANGED <<viewers, streamer, connected>>

\* camera_server_get_viewer_count, after which the heartbeat is sent.
GetViewerCount ==
  /\ heartbeat = "viewer_count"
  /\ Read("viewer_count", s_viewer_count, 0)
  /\ heartbeat' = "idle"
  /\ UNCHANGED <<viewers, streamer, connected>>

-----------------------------------------------------------------------------
Next ==
  \/ \E t \in Streamer : HandleStream(t) \/ Disconnect(t) \/ WriteFails(t)
  \/ \E t \in Streamer : StreamerStep(t)
  \/ Collect
  \/ IsStreaming
  \/ GetViewerCount

\* A task that can run does run; clients come and go, and writes fail, as they
\* please.
Fairness == \A t \in Streamer : WF_vars(StreamerStep(t))

Spec == Init /\ [][Next]_vars /\ Fairness

-----------------------------------------------------------------------------
\* The streamers whose client is counted in.
Counted ==
  {t \in Streamer : streamer[t] \in {"activating", "streaming", "leaving"}}

\* Every variable has its type, and the mutex is held by a streamer that is in
\* the middle of viewer_inc or viewer_dec, which there is at most one of.
TypeOK ==
  /\ s_viewer_count \in 0..Cardinality(Streamer)
  /\ s_stream_active \in BOOLEAN
  /\ streamer \in [Streamer -> {"none", "starting", "activating", "streaming",
                                "leaving", "deactivating"}]
  /\ \A t \in Streamer :
       s_viewer_mutex = t <=> streamer[t] \in {"activating", "deactivating"}
  /\ s_viewer_mutex \in Streamer \cup {NoTask}
  /\ connected \subseteq Streamer
  /\ heartbeat \in {"idle", "is_streaming", "viewer_count"}
  /\ telemetry \in [stream_active : BOOLEAN,
                    viewer_count : 0..Cardinality(Streamer)]
  /\ changed \in BOOLEAN /\ gave_up \in BOOLEAN

\* However clients come and go, the count is the number of streamers that serve
\* one, and while nobody is changing them the flag says whether there are any
\* (camera_server.cpp:75-89).
ViewersCounted ==
  /\ s_viewer_count = Cardinality(Counted)
  /\ s_viewer_mutex = NoTask => (s_stream_active <=> s_viewer_count > 0)

\* A heartbeat reports a stream exactly when it reports viewers, unless a viewer
\* came or went, or the mutex was held for too long, while it was collected
\* (camera_server.cpp:297-312, telemetry_collector.cpp:13-21).
AgreesWhenUndisturbed ==
  heartbeat = "idle" /\ ~changed /\ ~gave_up =>
    (telemetry.stream_active <=> telemetry.viewer_count > 0)

\* When all clients have gone for good the camera stops saying that it streams:
\* no streamer is left behind that still counts (camera_server.cpp:93-145).
StreamEnds == <>[](connected = {}) => <>[](~s_stream_active)

=============================================================================
