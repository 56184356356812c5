------------------------------- MODULE MdnsPcb -------------------------------
(***************************************************************************)
(* The state machine of the mDNS library for one interface and IP family   *)
(* (mdns_pcb.c): three probes, three announcements, then running; what     *)
(* starts it over, what a packet sent moves it on by, and what the removal *)
(* of a service does to the packets in flight (mdns_send.c).               *)
(***************************************************************************)
EXTENDS MdnsSend

(***************************************************************************)
(* The server as a record: host, inst are the global names; srvs the list  *)
(* of services, newest first, and svc what each address holds; hosts the   *)
(* delegated hosts; pcb, ready, up, ip, twin the interfaces (ready: lwIP   *)
(* has a socket for it; up: it has an address; twin: the interface that    *)
(* may be on the same subnet); tx the queue; out what the current step has *)
(* put on the wire; undefined: strings were read after they were freed.    *)
(***************************************************************************)
NoService == [inst |-> None, type |-> None, host |-> None, port |-> 0, txt |-> {}, subs |-> {}]
OffPcb == [state |-> Off, services |-> <<>>, ip |-> FALSE, running |-> FALSE, failed |-> 0]

Server(ip, twin) ==
    [host |-> None, inst |-> None, srvs |-> <<>>, svc |-> [s \in Svcs |-> NoService],
     hosts |-> <<>>, pcb |-> [b \in Pcbs |-> OffPcb], ready |-> {}, up |-> {}, ip |-> ip, twin |-> twin,
     tx |-> <<>>, out |-> <<>>, undefined |-> FALSE]

MaxFailed == 6   \* failed_probes is compared with 5 only

IsProbing(st, b) == st.pcb[b].state \in Dup .. Probe3
IsAnnouncing(st, b) == st.pcb[b].state \in Announce1 .. Announce3
IsAfterProbing(st, b) == st.pcb[b].state > Probe3
SetPcbState(st, b, x) == [st EXCEPT !.pcb[b].state = x]

\* init_probe_new_service: the new services first, then those being probed.
InitProbeNewService(st, b, services, probe_ip) ==
    LET pcb   == st.pcb[b]
        all   == services \o pcb.services
        addrs == pcb.ip \/ probe_ip
        p     == CreateProbePacket(st, b, all, TRUE, addrs, {})
    IN  SendAfter(
          [st EXCEPT !.pcb[b] = [state |-> Probe1, services |-> all, ip |-> addrs,
                                 running |-> TRUE, failed |-> pcb.failed]],
          p, IF pcb.failed > 5 THEN Later ELSE Soon)

\* Mutant: what the pcb was about to send stays in the queue.
InitPcbProbeKeepsQueue(st, b, services, probe_ip) ==
    IF st.host = None THEN SetPcbState(st, b, Running)
    ELSE InitProbeNewService(st, b, Without(services, Range(st.pcb[b].services)), probe_ip)

\* mdns_priv_init_pcb_probe: whatever the pcb was about to send is dropped.
InitPcbProbe(st, b, services, probe_ip) ==
    LET st1 == ClearTxQueueIf(st, b)
    IN  IF st.host = None THEN SetPcbState(st1, b, Running)
        ELSE IF IsProbing(st, b)
        THEN InitProbeNewService(st1, b, Without(services, Range(st.pcb[b].services)), probe_ip)
        ELSE InitProbeNewService(st1, b, services, probe_ip)

RestartPcb(st, b) == InitPcbProbe(st, b, st.srvs, TRUE)

\* A step of one pcb, taken on all the pcbs that a test accepts.
OnPcbs(st, Test(_), Step(_, _)) ==
    FoldLeft(Step, st, SetToSeq({b \in Pcbs : Test(b)}))

\* mdns_priv_probe_all_pcbs; "clear" forgets what was being probed.
ProbeAllPcbs(st, services, probe_ip, clear) ==
    OnPcbs(st, LAMBDA b : Ready(st, b),
           LAMBDA x, b : InitPcbProbe(
             IF clear THEN [x EXCEPT !.pcb[b].services = <<>>, !.pcb[b].running = FALSE] ELSE x,
             b, services, probe_ip))

\* mdns_priv_pcb_announce: appended to whatever the pcb sends next when it is
\* announcing already.
AppendAnnouncement(st, b, services, include_ip) ==
    LET k == NextPacket(st, b)
        l == AnnounceServices(st.tx[k].answers, services)
    IN  IF k = 0 THEN st ELSE
        [st EXCEPT !.pcb[b].state = Announce1,
                   !.tx[k].answers =
                     IF include_ip THEN AppendHostListInServices(st, l, services, TRUE, FALSE) ELSE l,
                   !.tx[k].additional = IF include_ip THEN DeallocAnswer(@, "A", None) ELSE @]

PcbAnnounce(st, b, services, include_ip) ==
    CASE ~Ready(st, b) -> st
      [] Ready(st, b) /\ IsProbing(st, b) -> InitPcbProbe(st, b, services, include_ip)
      [] Ready(st, b) /\ IsAnnouncing(st, b) -> AppendAnnouncement(st, b, services, include_ip)
      [] Ready(st, b) /\ st.pcb[b].state = Running /\ st.host # None ->
           SendAfter(SetPcbState(st, b, Announce1),
                     CreateAnnouncePacket(st, b, services, include_ip), Now)
      [] OTHER -> st

AnnounceAllPcbs(st, services, include_ip) ==
    OnPcbs(st, LAMBDA b : TRUE, LAMBDA x, b : PcbAnnounce(x, b, services, include_ip))

\* mdns_priv_pcb_send_bye_service: only pcbs that are running say goodbye.
SendByeService(st, services, include_ip) ==
    IF st.host = None THEN st
    ELSE OnPcbs(st, LAMBDA b : Ready(st, b) /\ st.pcb[b].state = Running,
                LAMBDA x, b : SendBye(x, b, services, include_ip))

-----------------------------------------------------------------------------
(* Interfaces that come, go, or turn out to be on the subnet of another. *)

IfInit(st, b) == [st EXCEPT !.ready = @ \cup {b}]
DeinitPcb(st, b) == [st EXCEPT !.ready = @ \ {b}, !.pcb[b] = OffPcb]

PcbEnable(st, b) ==
    CASE Ready(st, b) -> RestartPcb(st, b)
      [] ~Ready(st, b) /\ b[1] \in st.up -> RestartPcb(IfInit(st, b), b)
      [] OTHER -> [st EXCEPT !.pcb[b].failed = 0]

PcbDisable(st, b) ==
    LET other == <<st.twin[b[1]], b[2]>>
        st1   == DeinitPcb(ClearTxQueueIf(st, b), b)
    IN  IF ~Ready(st, b) THEN SetPcbState(st, b, Off)
        ELSE IF st.twin[b[1]] # None /\ IsDuplicate(st1, other)
        THEN PcbEnable(SetPcbState(st1, other, Off), other)
        ELSE st1

\* mdns_priv_pcb_set_duplicate: the twin announces for both from now on.
SetDuplicate(st, i) ==
    FoldLeft(LAMBDA x, p :
               LET b  == <<i, p>>
                   x1 == IF Ready(x, b) THEN DeinitPcb(ClearTxQueueIf(x, b), b) ELSE x
               IN  IF Ready(x, <<x.twin[i], p>>)
                   THEN PcbAnnounce(SetPcbState(x1, b, Dup), <<x.twin[i], p>>, <<>>, TRUE)
                   ELSE x,
             st, IF st.twin[i] = None THEN <<>> ELSE SetToSeq(Protos))

-----------------------------------------------------------------------------
(* The service task handles a packet that is due. *)

\* mdns_priv_pcb_schedule_tx_packet: any packet of the pcb moves it on.
ScheduleTxPacket(st, p) ==
    LET b    == p.pcb
        x    == st.pcb[b].state
        next == SetPcbState(st, b, x + 1)
    IN  CASE x = Probe1 ->
               SendAfter(next, [p EXCEPT !.qs = [i \in DOMAIN @ |-> [@[i] EXCEPT !.uni = FALSE]]], Soon)
          [] x = Probe1 + 1 -> SendAfter(next, p, Soon)
          [] x = Probe3 ->
               SendAfter([next EXCEPT !.pcb[b] = [OffPcb EXCEPT !.state = Announce1]],
                         CreateAnnounceFromProbe(st, p), Soon)
          [] x \in Announce1 .. Announce1 + 1 -> SendAfter(next, p, Later)
          [] x = Announce3 -> next
          [] OTHER -> st

\* Mutant: the packet is sent and waits to be sent again, and the pcb is not moved on.
HandlePacketAgain(st, p) ==
    IF st.pcb[p.pcb].state = Off THEN st ELSE SendAfter(Dispatch(st, p), p, Soon)

HandlePacket(st, p) ==
    IF st.pcb[p.pcb].state = Off THEN st ELSE ScheduleTxPacket(Dispatch(st, p), p)

\* Mutant: the mark that says that the packet is with the task is never taken off.
SendPacketStaysQueued(st, id) ==
    LET p == Head(st.tx)
    IN  IF st.tx # <<>> /\ p.id = id /\ p.queued
        THEN HandlePacket([st EXCEPT !.tx = Tail(@)], p) ELSE st

\* send_packet: only the head of the queue, and only when it is the packet asked for.
SendPacket(st, id) ==
    LET p == Head(st.tx)
    IN  IF st.tx # <<>> /\ p.id = id /\ p.queued
        THEN HandlePacket([st EXCEPT !.tx = Tail(@)], [p EXCEPT !.queued = FALSE])
        ELSE st

-----------------------------------------------------------------------------
(* A service is about to be freed. *)

\* mdns_priv_pcb_check_probing_services: the pcb no longer probes for it.
CheckProbingServices(st, b, s, removed_answers) ==
    LET pcb  == st.pcb[b]
        rest == Without(pcb.services, {s})
        done == IsProbing(st, b) /\ rest = <<>> /\ ~pcb.ip
    IN  CASE IsProbing(st, b) /\ Contains(pcb.services, s) ->
               [st |-> [st EXCEPT !.pcb[b].services = rest,
                                  !.pcb[b].running = @ /\ ~done,
                                  !.pcb[b].state = IF done THEN Running ELSE @],
                questions |-> TRUE]
          [] IsAnnouncing(st, b) /\ removed_answers ->
               [st |-> SetPcbState(st, b, Running), questions |-> FALSE]
          [] OTHER -> [st |-> st, questions |-> FALSE]

\* The first question for the TYPE of the service is taken out, whoever asked it; the
\* strings of those before it, and its own, are compared.
FirstQuestion(qs, type) ==
    SelectInSeq(qs, LAMBDA q : q.type = "ANY" /\ q.svc # None /\ q.svc = type)
RemoveFirstQuestion(qs, type) ==
    LET k == FirstQuestion(qs, type)
    IN  IF k = 0 THEN qs ELSE RemoveAt(qs, k)
ComparesFreed(qs, type) ==
    LET k == FirstQuestion(qs, type)
    IN  \E i \in DOMAIN qs : (k = 0 \/ i <= k) /\ qs[i].svc # None /\ qs[i].of = Freed

RemoveServiceFromPacket(st, p, s) ==
    LET a  == [p EXCEPT !.answers = DeallocServiceAnswers(@, s),
                        !.additional = DeallocServiceAnswers(@, s),
                        !.servers = DeallocServiceAnswers(@, s)]
        c  == IF Ready(st, p.pcb)
              THEN CheckProbingServices(st, p.pcb, s, p.answers # <<>> /\ a.answers = <<>>)
              ELSE [st |-> st, questions |-> FALSE]
        p1 == IF c.questions THEN [a EXCEPT !.qs = RemoveFirstQuestion(@, st.svc[s].type)] ELSE a
        st1 == Reads(c.st, c.questions /\ ComparesFreed(p.qs, st.svc[s].type))
    IN  IF p1.qs = <<>> /\ p1.answers = <<>> /\ p1.additional = <<>> /\ p1.servers = <<>>
        THEN st1
        ELSE [st1 EXCEPT !.tx = Append(@, p1)]

\* mdns_priv_remove_scheduled_service_packets.
RemoveScheduledServicePackets(st, s) ==
    FoldLeft(LAMBDA x, p : RemoveServiceFromPacket(x, p, s), [st EXCEPT !.tx = <<>>], st.tx)
=============================================================================
