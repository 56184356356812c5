------------------------------ MODULE MdnsSend ------------------------------
(***************************************************************************)
(* The sending half of the mDNS library the monitor announces itself with  *)
(* (mdns_send.c): outgoing packets, the queue they wait in, and what is    *)
(* put on the wire when one is dispatched.                                 *)
(*                                                                         *)
(* Every operation of the library runs to its end under one mutex, so its  *)
(* operations are operators on the record "st" of the whole server (see    *)
(* MdnsPcb!Server for its fields), and the modules that instantiate them   *)
(* supply the interleaving.  A pointer is an identity: a service is a      *)
(* member of Svcs, a packet has a number that may be taken again once it   *)
(* is freed.  An outgoing question keeps the NAME it was created with, and *)
(* says whose strings that name is made of, because they go with their     *)
(* service; an answer is resolved when it is dispatched.                   *)
(* "A" stands for the A and AAAA records, which the code creates in pairs; *)
(* _services._dns-sd PTR ("SDPTR") and PTR are kept apart.                 *)
(***************************************************************************)
EXTENDS Integers, Sequences, FiniteSets, SequencesExt

CONSTANTS Itfs,     \* network interfaces
          Protos,   \* IP families in use
          Svcs,     \* addresses service structures are allocated at
          None      \* NULL

\* The interfaces and the families are those lwIP was built with.
ASSUME PcbsAssumption == IsFiniteSet(Itfs) /\ IsFiniteSet(Protos)

Pcbs == Itfs \X Protos

\* The self host item; delegated host items are identified by their names.
Self == <<0, 0>>

\* The multicast group; the addresses of hosts are positive numbers.
Group == 0

\* Delays in ticks of the model: at once (0 and up to 100 ms), a probe's 250 ms,
\* an announcement's second.
Now == 0
Soon == 1
Later == 2

\* A question holds pointers (own_dynamic_memory is false): "of" is the service whose
\* strings they point to, None when these are global or the question's own, and Freed
\* when they have been freed with their service.
Freed == "freed"
ASSUME NullAssumption == None \notin Svcs /\ Freed \notin Svcs \cup {None}

Question(type, host, svc, of, uni) ==
    [type |-> type, host |-> host, svc |-> svc, of |-> of, sub |-> FALSE, uni |-> uni]
Answer(type, svc, host, flush, bye) ==
    [type |-> type, svc |-> svc, host |-> host, flush |-> flush, bye |-> bye]

\* The list without what is gone, in its order.
Without(list, gone) ==
    LET kept[i \in 0 .. Len(list)] ==
          IF i = 0 THEN <<>>
          ELSE IF list[i] \in gone THEN kept[i - 1] ELSE Append(kept[i - 1], list[i])
    IN  kept[Len(list)]

LiveIds(st) == {st.tx[i].id : i \in DOMAIN st.tx}
FreshId(S) == CHOOSE i \in 1 .. (Cardinality(S) + 1) : i \notin S

\* "held" are the packets that are not in the queue and not freed yet.
AllocPacket(st, b, auth, held) ==
    [id |-> FreshId(LiveIds(st) \cup held), pcb |-> b, auth |-> auth, dist |-> FALSE,
     qs |-> <<>>, answers |-> <<>>, servers |-> <<>>, additional |-> <<>>,
     dst |-> Group, at |-> Now, queued |-> FALSE]

-----------------------------------------------------------------------------
(* The names the queue's contents are resolved with (mdns_utils.c). *)

DefaultInstance(st) == IF st.inst # None THEN st.inst ELSE st.host

InstanceName(st, s) == IF st.svc[s].inst # None THEN st.svc[s].inst ELSE DefaultInstance(st)

InstanceMatches(st, a, b) ==
    (IF a = None THEN DefaultInstance(st) ELSE a) = (IF b = None THEN DefaultInstance(st) ELSE b)

ServiceMatches(st, s, type, host) ==
    /\ st.svc[s].type = type
    /\ host \in {None, st.svc[s].host}

ServiceMatchesInstance(st, s, inst, type, host) ==
    /\ InstanceMatches(st, st.svc[s].inst, inst)
    /\ ServiceMatches(st, s, type, host)

\* The first service in the list that a test accepts, or None.
FirstService(st, Test(_)) ==
    LET k == SelectInSeq(st.srvs, Test)
    IN  IF k = 0 THEN None ELSE st.srvs[k]

GetServiceItem(st, type, host) ==
    FirstService(st, LAMBDA s : ServiceMatches(st, s, type, host))

GetServiceItemInstance(st, inst, type, host) ==
    FirstService(st, LAMBDA s : IF inst # None
                                THEN ServiceMatchesInstance(st, s, inst, type, host)
                                ELSE ServiceMatches(st, s, type, host))

HostnameIsOurs(st, h) == \/ st.host # None /\ h = st.host
                         \/ \E i \in DOMAIN st.hosts : st.hosts[i].name = h

GetHostItem(st, h) ==
    CASE h \in {None, st.host} -> Self
      [] h \notin {None, st.host} /\ HostnameIsOurs(st, h) -> h
      [] OTHER -> None

-----------------------------------------------------------------------------
(* Lists of answers and questions. *)

SameAnswer(a, b) == a.type = b.type /\ a.svc = b.svc /\ a.host = b.host

CreateAnswer(list, a) ==
    IF \E i \in DOMAIN list : SameAnswer(list[i], a) THEN list ELSE Append(list, a)

CreateAnswers(list, as) == FoldLeft(CreateAnswer, list, as)

AppendHostListInServices(st, list, services, flush, bye) ==
    IF services = <<>>
    THEN CreateAnswer(list, Answer("A", None, Self, flush, bye))
    ELSE CreateAnswers(list,
           [i \in DOMAIN services |->
              Answer("A", None, GetHostItem(st, st.svc[services[i]].host), flush, bye)])

\* append_host_list: the walk steps on before it uses the item, so it leaves
\* the first delegated host out and ends with an answer for no host.
AppendHostList(st, list, flush) ==
    CreateAnswers(list,
      <<Answer("A", None, Self, flush, FALSE)>> \o
      [i \in DOMAIN st.hosts |->
         Answer("A", None, IF i < Len(st.hosts) THEN st.hosts[i + 1].name ELSE None, flush, FALSE)])

\* Questions are compared by their pointers (question_exists): two services of one host
\* ask for its name twice.
AddQuestion(qs, q) == IF \E i \in DOMAIN qs : qs[i] = q THEN qs ELSE Append(qs, q)

AppendHostQuestionsForServices(st, qs, services, uni) ==
    FoldLeft(AddQuestion, qs,
      <<Question("ANY", st.host, None, None, uni)>> \o
      [i \in DOMAIN services |-> Question("ANY", st.svc[services[i]].host, None, services[i], uni)])

AnnounceAnswers(s) ==
    <<Answer("SDPTR", s, None, FALSE, FALSE), Answer("PTR", s, None, FALSE, FALSE),
      Answer("SRV", s, None, TRUE, FALSE), Answer("TXT", s, None, TRUE, FALSE)>>

\* All the announce answers of a list of services.
AnnounceServices(list, services) ==
    FoldLeft(LAMBDA l, s : CreateAnswers(l, AnnounceAnswers(s)), list, services)

\* The first answer with this type and service is taken out of the list.
DeallocAnswer(list, type, svc) ==
    LET i == SelectInSeq(list, LAMBDA a : a.type = type /\ a.svc = svc)
    IN  IF i = 0 THEN list ELSE RemoveAt(list, i)

DeallocServiceAnswers(list, s) == Without(list, {a \in Range(list) : a.svc = s})

-----------------------------------------------------------------------------
(* Packets. *)

ProbeQuestion(st, s, first) == Question("ANY", InstanceName(st, s), st.svc[s].type, s, first)

CreateProbePacket(st, b, services, first, include_ip, held) ==
    LET named == Without(services, {s \in Svcs : InstanceName(st, s) = None})
        qs    == FoldLeft(AddQuestion, <<>>, [i \in DOMAIN named |-> ProbeQuestion(st, named[i], first)])
        srv   == CreateAnswers(<<>>, [i \in DOMAIN named |-> Answer("SRV", named[i], None, FALSE, FALSE)])
    IN  [AllocPacket(st, b, FALSE, held) EXCEPT
           !.qs = IF include_ip THEN AppendHostQuestionsForServices(st, qs, services, first) ELSE qs,
           !.servers = IF include_ip
                       THEN AppendHostListInServices(st, srv, services, FALSE, FALSE)
                       ELSE srv]

CreateAnnouncePacket(st, b, services, include_ip) ==
    [AllocPacket(st, b, TRUE, {}) EXCEPT
       !.answers = AnnounceServices(<<>>, services),
       !.servers = IF include_ip
                   THEN AppendHostListInServices(st, <<>>, services, TRUE, FALSE)
                   ELSE <<>>]

\* The announcement of what a probe asked for: of its services, the addresses too.
AnnouncedFor(st, a) ==
    IF a.type = "SRV"
    THEN AnnounceAnswers(a.svc) \o
         <<Answer("A", None, GetHostItem(st, st.svc[a.svc].host), TRUE, FALSE)>>
    ELSE <<Answer("A", None, a.host, TRUE, FALSE)>>

CreateAnnounceFromProbe(st, p) ==
    [AllocPacket(st, p.pcb, TRUE, {p.id}) EXCEPT
       !.answers = FoldLeft(LAMBDA l, a : CreateAnswers(l, AnnouncedFor(st, a)), <<>>, p.servers)]

ByePacket(st, b, services, include_ip) ==
    LET ptrs == [i \in DOMAIN services |-> Answer("PTR", services[i], None, TRUE, TRUE)]
    IN  [AllocPacket(st, b, TRUE, {}) EXCEPT
           !.answers = IF include_ip
                       THEN AppendHostListInServices(st, ptrs, services, TRUE, TRUE)
                       ELSE ptrs]

-----------------------------------------------------------------------------
(* What goes on the wire: an answer is resolved when it is sent. *)

Off == 0
Dup == 1
PcbInit == 2
Probe1 == 3
Probe3 == 5
Announce1 == 6
Announce3 == 8
Running == 9

Ready(st, b) == b \in st.ready
IsDuplicate(st, b) == st.pcb[b].state = Dup

\* mdns_priv_pcb_check_for_duplicates: this interface or its twin is a duplicate.
CheckForDuplicates(st, i) ==
    /\ st.twin[i] # None
    /\ \E j \in {i, st.twin[i]}, p \in Protos : IsDuplicate(st, <<j, p>>)

FullTtl == 2
HalfTtl == 1
Record(type, name, svc, sub, data, bye) ==
    [type |-> type, name |-> name, svc |-> svc, sub |-> sub, data |-> data,
     ttl |-> IF bye THEN 0 ELSE FullTtl]

\* The PTR of a service and one for each of its subtypes.
ServicePtrRecords(st, s, bye) ==
    LET inst == InstanceName(st, s)
        type == st.svc[s].type
    IN  <<Record("PTR", None, type, FALSE, inst, bye)>> \o
        SetToSeq({Record("PTR", x, type, TRUE, inst, bye) : x \in st.svc[s].subs})

SrvRecord(st, s, bye) ==
    Record("SRV", InstanceName(st, s), st.svc[s].type, FALSE, <<st.svc[s].port, st.svc[s].host>>, bye)

TxtRecord(st, s, bye) ==
    Record("TXT", InstanceName(st, s), st.svc[s].type, FALSE, st.svc[s].txt, bye)

SdptrRecord(st, s) == Record("SDPTR", None, None, FALSE, st.svc[s].type, FALSE)

\* The addresses of an interface: of each family that is up (or a duplicate),
\* and the twin interface's when one of the two is a duplicate.
SelfAddresses(st, i) ==
    LET up(p) == Ready(st, <<i, p>>) \/ IsDuplicate(st, <<i, p>>)
    IN  {x \in Protos \X Itfs :
           up(x[1]) /\ (x[2] = i \/ (CheckForDuplicates(st, i) /\ x[2] = st.twin[i]))}

HostAddress(st, h) == st.hosts[SelectInSeq(st.hosts, LAMBDA x : x.name = h)].addr

AppendAnswer(st, i, a) ==
    CASE a.host \notin {Self, None} /\ \A k \in DOMAIN st.hosts : st.hosts[k].name # a.host -> <<>>
      [] a.type = "PTR" -> ServicePtrRecords(st, a.svc, a.bye)
      [] a.type = "SRV" -> <<SrvRecord(st, a.svc, a.bye)>>
      [] a.type = "TXT" -> <<TxtRecord(st, a.svc, a.bye)>>
      [] a.type = "SDPTR" -> <<SdptrRecord(st, a.svc)>>
      [] a.type = "A" /\ a.host = Self ->
           SetToSeq({Record("A", st.host, None, FALSE, <<x[1], st.ip[x[2]]>>, a.bye) : x \in SelfAddresses(st, i)})
      [] a.type = "A" /\ a.host \notin {Self, None}
            /\ \E k \in DOMAIN st.hosts : st.hosts[k].name = a.host ->
           <<Record("A", a.host, None, FALSE, HostAddress(st, a.host), a.bye)>>
      [] OTHER -> <<>>

AppendAnswers(st, i, as) == FoldLeft(LAMBDA l, a : l \o AppendAnswer(st, i, a), <<>>, as)

Message(st, b, dst, auth, qs, ans, ns, extra) ==
    [pcb |-> b, src |-> st.ip[b[1]], dst |-> dst, port |-> "mdns", auth |-> auth, dist |-> FALSE,
     qs |-> qs, answers |-> ans, servers |-> ns, extra |-> extra]

\* Strings that have been freed are read: what comes of it is undefined.
Reads(st, freed) == [st EXCEPT !.undefined = @ \/ freed]
OnTheWire(qs) == [i \in DOMAIN qs |-> [qs[i] EXCEPT !.of = None]]

\* mdns_priv_dispatch_tx_packet; a pcb that is not up writes nothing.
Dispatch(st, p) ==
    LET read == Reads(st, \E q \in Range(p.qs) : q.of = Freed)
    IN  IF ~Ready(st, p.pcb) THEN read ELSE
        [read EXCEPT !.out = Append(@,
           Message(st, p.pcb, p.dst, p.auth, OnTheWire(p.qs), AppendAnswers(st, p.pcb[1], p.answers),
                   AppendAnswers(st, p.pcb[1], p.servers), AppendAnswers(st, p.pcb[1], p.additional)))]

SendBye(st, b, services, include_ip) == Dispatch(st, ByePacket(st, b, services, include_ip))

\* The subtypes are said goodbye to by the name the caller gave, not the service's.
SendByeSubtype(st, s, inst, subs) ==
    LET recs == SetToSeq({Record("PTR", x, st.svc[s].type, TRUE, inst, TRUE) : x \in subs})
        up   == SetToSeq(st.ready)
    IN  [st EXCEPT !.out = @ \o
           [i \in DOMAIN up |-> Message(st, up[i], Group, TRUE, <<>>, recs, <<>>, <<>>)]]

-----------------------------------------------------------------------------
(* The queue of packets, sorted by the time they are to be sent at. *)

\* mdns_priv_send_after: behind the packets that are due no later.
SendAfter(st, p, delay) ==
    LET q == [p EXCEPT !.at = delay]
        k == SelectInSeq(st.tx, LAMBDA x : x.at > delay)
    IN  [st EXCEPT !.tx = IF k = 0 THEN Append(@, q) ELSE InsertAt(@, k, q)]

ClearTxQueue(st) == [st EXCEPT !.tx = <<>>]
ClearTxQueueIf(st, b) == [st EXCEPT !.tx = Without(@, {p \in Range(@) : p.pcb = b})]

\* The index of the next packet of a pcb, 0 when it has none.
NextPacket(st, b) == SelectInSeq(st.tx, LAMBDA p : p.pcb = b)

\* mdns_priv_remove_scheduled_answer: out of the distributed packets of a pcb.
RemoveScheduledAnswer(st, b, type, s) ==
    LET Rid(p) == IF p.pcb = b /\ p.dist
                  THEN [p EXCEPT !.answers = DeallocAnswer(@, type, s)] ELSE p
    IN  [st EXCEPT !.tx = [i \in DOMAIN @ |-> Rid(@[i])]]

\* Time passes: what is waiting comes nearer.
Elapse(st) ==
    LET Sooner(p) == [p EXCEPT !.at = IF p.at > 0 THEN p.at - 1 ELSE 0]
    IN  [st EXCEPT !.tx = [i \in DOMAIN st.tx |-> Sooner(st.tx[i])]]
=============================================================================
