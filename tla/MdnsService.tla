----------------------------- MODULE MdnsService -----------------------------
(***************************************************************************)
(* The mDNS service (mdns_service.c, mdns_netif.c): the application's      *)
(* calls, the timer, the network's events and the packets received meet in *)
(* one service task through a queue of actions that may be full.           *)
(*                                                                         *)
(* A call, a run of the timer and the execution of an action each hold the *)
(* service lock.  The task takes an action off the queue BEFORE it asks    *)
(* for the lock, also while the timer, which holds it, is pushing.  Once   *)
(* freed strings have been read nothing that reads or changes the server   *)
(* is modelled any more: what it would do is undefined.                    *)
(***************************************************************************)
EXTENDS MdnsReceive

CONSTANTS QueueLen,              \* CONFIG_MDNS_ACTION_QUEUE_LEN
          Insts, Types, Hostnames, Ports, Subs, Items,  \* what calls may give
          Asks,                  \* Asks: the question lists others send
          Net,                   \* [ip, twin]: the interfaces' addresses
          MaxInputs              \* calls, packets and network events in all

\* The name of a host and the type of a service are not NULL; the twin of an interface is
\* an interface; a question list is a list, of questions that hold their own strings; and
\* the action that hands a packet over is not NULL.
ASSUME ServiceAssumption ==
    /\ QueueLen \in Nat
    /\ None \notin Hostnames /\ None \notin Types
    /\ None \notin [type : {"tx"}, arg : Nat]
    /\ Net.twin \in [Itfs -> Itfs \cup {None}]
    /\ \A qs \in Asks : qs \in Seq(Range(qs)) /\ \A q \in Range(qs) : q.of = None

VARIABLES st,       \* the server (MdnsPcb!Server)
          queue,    \* the action queue
          running,  \* the action the task has taken and not executed yet
          scan,     \* where the timer is in the packet queue, 0: it does not run
          app,      \* the application waits in mdns_hostname_set (action_sema)
          cache,    \* cache[b]: what a neighbour on a link has heard of us
          inputs,   \* how many calls, packets and network events there were
          excused,  \* a call of a kind that leaves neighbours with old names (see Excuse)
          failed    \* a push of the timer found the queue full

vars == <<st, queue, running, scan, app, cache, inputs, excused, failed>>

\* mdns_init: the interfaces that have an address are enabled at once.
NetifInit == FoldLeft(PcbEnable, [Server(Net.ip, Net.twin) EXCEPT !.up = Itfs], SetToSeq(Pcbs))

Init == /\ st = NetifInit
        /\ queue = <<>> /\ running = None /\ scan = 0 /\ app = "free"
        /\ cache = [b \in Pcbs |-> {}]
        /\ inputs = 0
        /\ excused = FALSE /\ failed = FALSE

Locked == scan # 0

\* What a neighbour keeps: a record with no time to live takes the one it names.
SameRecord(r, x) == /\ r.type = x.type /\ r.name = x.name /\ r.svc = x.svc /\ r.sub = x.sub
                    /\ r.type \in {"PTR", "SDPTR"} => r.data = x.data
\* ... and the goodbye of a PTR takes what is known of the instance it names.
Withdraws(r, x) == r.type = "PTR" /\ ~r.sub /\ r.ttl = 0 /\ x.name = r.data /\ x.svc = r.svc
Hear(known, r) ==
    LET rest == {x \in known : ~SameRecord(r, x) /\ ~Withdraws(r, x)}
    IN  IF r.ttl = 0 THEN rest ELSE rest \cup {r}
HearAll(known, ms) ==
    FoldLeft(LAMBDA k, m : IF m.auth /\ m.dst = Group THEN FoldLeft(Hear, k, m.answers \o m.extra) ELSE k, known, ms)

\* The server after a step; what it sent is heard on the link it was sent on.
Becomes(s) ==
    /\ st' = [s EXCEPT !.out = <<>>]
    /\ cache' = [b \in Pcbs |->
         IF b \notin s.ready THEN {}
         ELSE HearAll(cache[b], SelectSeq(s.out, LAMBDA m : m.pcb = b))]

Full == Len(queue) >= QueueLen
Push(q, a) == IF Len(q) >= QueueLen THEN q ELSE Append(q, a)
Action(type, arg) == [type |-> type, arg |-> arg]

AtRest == /\ queue = <<>> /\ running = None /\ scan = 0 /\ st.tx = <<>>
          /\ \A b \in st.ready : st.pcb[b].state \in {Dup, Running}
          /\ st.ready = st.up \X Protos

-----------------------------------------------------------------------------
(* The application: one task. *)

\* What keeps neighbours from hearing of a change: goodbyes are said by pcbs
\* that are running only, and the names a call gives are not always those that
\* were announced.
Excuse(otherName) == excused' = (excused \/ otherName \/ ~AtRest)

CallAs(new, otherName) ==
    /\ app = "free" /\ ~Locked /\ ~st.undefined /\ inputs < MaxInputs
    /\ inputs' = inputs + 1
    /\ Excuse(otherName)
    /\ Becomes(new)
    /\ UNCHANGED <<queue, running, scan, app, failed>>
Call(new) == CallAs(new, FALSE)

\* A call that only posts an action; it does not ask for the lock.
Post(a, waits) ==
    /\ app = "free" /\ ~st.undefined /\ inputs < MaxInputs
    /\ inputs' = inputs + 1
    /\ Excuse(FALSE)
    /\ queue' = Push(queue, a)
    /\ app' = IF waits /\ ~Full THEN "waits" ELSE "free"
    /\ UNCHANGED <<st, running, scan, cache, failed>>

SetHostname == \E h \in Hostnames : Post(Action("hostname", h), TRUE)
SetInstance == st.host # None /\ \E i \in Insts \ {None} : Post(Action("instance", i), FALSE)
DelegateAdd == st.host # None /\ \E h \in Hostnames : Post(Action("delegate_add", h), TRUE)
DelegateSetAddress == \E h \in Hostnames : Post(Action("delegate_set", h), FALSE)
DelegateRemove == st.host # None /\ \E h \in Hostnames : Post(Action("delegate_remove", h), FALSE)

AddService == \E s \in Free(st), i \in Insts, t \in Types, h \in Hostnames \cup {None}, p \in Ports :
                 /\ h = None \/ HostnameIsOurs(st, h)
                 /\ s = CHOOSE x \in Free(st) : TRUE
                 /\ Call(ServiceAdd(st, s, i, t, h, p))

\* A service as the application names it.
Known(i, t) == \E s \in Range(st.srvs) : st.svc[s].type = t /\ i \in {None, st.svc[s].inst}
OnService(Op(_, _)) == \E i \in Insts, t \in Types : Known(i, t) /\ Call(Op(i, t))
\* Calls that announce by the name the caller gave, or do not say goodbye to a
\* service that had no name of its own.
ByName(Op(_, _)) == \E i \in Insts, t \in Types :
    /\ Known(i, t)
    /\ CallAs(Op(i, t), st.svc[FindAnyHost(st, i, t, None)].inst # i \/ i = None)

SetPort == \E p \in Ports : OnService(LAMBDA i, t : ServicePortSet(st, i, t, None, p))
SetTxt == \E x \in Items : OnService(LAMBDA i, t : ServiceTxtSet(st, i, t, None, {x}))
SetTxtItem == \E x \in Items : OnService(LAMBDA i, t : ServiceTxtItemSet(st, i, t, None, x[1], x[2]))
RemoveTxtItem == \E x \in Items : OnService(LAMBDA i, t : ServiceTxtItemRemove(st, i, t, None, x[1]))
AddSubtype == \E x \in Subs : OnService(LAMBDA i, t : ServiceSubtypeAdd(st, i, t, None, <<x>>))
UpdateSubtypes == \E x \in Subs : ByName(LAMBDA i, t : ServiceSubtypeUpdate(st, i, t, None, <<x>>))
RemoveSubtype == \E x \in Subs : ByName(LAMBDA i, t : ServiceSubtypeRemove(st, i, t, None, x))
SetServiceInstance == \E n \in Insts \ {None} : ByName(LAMBDA i, t : ServiceInstanceNameSet(st, i, t, None, n))
RemoveService == OnService(LAMBDA i, t : ServiceRemove(st, i, t, None))
RemoveAll == st.srvs # <<>> /\ Call(ServiceRemoveAll(st))

Application == \/ SetHostname \/ SetInstance \/ DelegateAdd \/ DelegateSetAddress \/ DelegateRemove
               \/ AddService \/ SetPort \/ SetTxt \/ SetTxtItem \/ RemoveTxtItem
               \/ AddSubtype \/ UpdateSubtypes \/ RemoveSubtype
               \/ SetServiceInstance \/ RemoveService \/ RemoveAll

-----------------------------------------------------------------------------
(* The timer: mdns_priv_send_packets, one push after the other. *)

FirstUnqueued == SelectInSeq(st.tx, LAMBDA p : ~p.queued)
IsDue(k) == k \in DOMAIN st.tx /\ st.tx[k].at = Now

TimerRuns ==
    /\ ~Locked /\ ~st.undefined /\ FirstUnqueued # 0 /\ IsDue(FirstUnqueued)
    /\ scan' = FirstUnqueued
    /\ UNCHANGED <<st, queue, running, app, cache, inputs, excused, failed>>

\* The walk goes on through packets that are queued already.
TimerPushes ==
    /\ Locked
    /\ scan' = IF IsDue(scan + 1) THEN scan + 1 ELSE 0
    /\ queue' = Push(queue, Action("tx", st.tx[scan].id))
    /\ st' = [st EXCEPT !.tx[scan].queued = ~Full]
    /\ failed' = (failed \/ Full)
    /\ UNCHANGED <<running, app, cache, inputs, excused>>

-----------------------------------------------------------------------------
(* The service task. *)

Take ==
    /\ running = None /\ queue # <<>> /\ ~st.undefined
    /\ running' = Head(queue) /\ queue' = Tail(queue)
    /\ UNCHANGED <<st, scan, app, cache, inputs, excused, failed>>

PerformEvent(s, e) ==
    CASE e.event = "enable" -> PcbEnable(s, e.pcb)
      [] e.event = "disable" -> PcbDisable(s, e.pcb)
      [] e.event = "announce" -> PcbAnnounce(s, e.pcb, <<>>, TRUE)

Perform(s, a) ==
    CASE a.type = "event" -> PerformEvent(s, a.arg)
      [] a.type = "tx" -> SendPacket(s, a.arg)
      [] a.type = "rx" -> ParsePacket(s, a.arg)
      [] a.type = "hostname" -> HostnameSet(s, a.arg)
      [] a.type = "instance" -> InstanceSet(s, a.arg)
      [] a.type = "delegate_add" -> DelegateHostnameAdd(s, a.arg, 1)
      [] a.type = "delegate_set" -> DelegateHostnameSetAddress(s, a.arg, 2)
      [] a.type = "delegate_remove" -> DelegateHostnameRemove(s, a.arg)

\* execute_action; a caller that waits for the action is woken.
Execute ==
    /\ running # None /\ ~Locked /\ ~st.undefined
    /\ Becomes(Perform(st, running))
    /\ app' = IF running.type \in {"hostname", "delegate_add"} THEN "free" ELSE app
    /\ running' = None
    /\ UNCHANGED <<queue, scan, inputs, excused, failed>>

-----------------------------------------------------------------------------
(* The network (handle_system_event_for_preset, post_custom_action): what does *)
(* not fit in the queue is dropped, and nobody is told.                        *)

PushAll(q, as) == FoldLeft(Push, q, as)
Event(i, event, p) ==
    IF p \in Protos THEN <<Action("event", [event |-> event, pcb |-> <<i, p>>])>> ELSE <<>>

NetworkEvent(up, as) ==
    /\ ~st.undefined /\ inputs < MaxInputs /\ inputs' = inputs + 1
    /\ queue' = PushAll(queue, as)
    /\ st' = [st EXCEPT !.up = up]
    /\ UNCHANGED <<running, scan, app, cache, excused, failed>>

GotIp == \E i \in Itfs \ st.up :
            NetworkEvent(st.up \cup {i}, Event(i, "enable", "v4") \o Event(i, "announce", "v6"))
GotIp6 == \E i \in st.up :
            NetworkEvent(st.up, Event(i, "enable", "v6") \o Event(i, "announce", "v4"))
Disconnected == \E i \in st.up :
            NetworkEvent(st.up \ {i}, Event(i, "disable", "v4") \o Event(i, "disable", "v6"))

\* A packet of questions from a neighbour.
Asked1(b, qs) == [Message(st, b, Group, FALSE, qs, <<>>, <<>>, <<>>) EXCEPT !.src = 9]
PacketComes ==
    /\ ~st.undefined /\ inputs < MaxInputs /\ inputs' = inputs + 1
    /\ \E b \in st.ready, qs \in Asks : queue' = Push(queue, Action("rx", Asked1(b, qs)))
    /\ UNCHANGED <<st, running, scan, app, cache, excused, failed>>

\* The timer runs more often than a packet's delay ends; the task may lag behind.
Tick ==
    /\ \E k \in DOMAIN st.tx : st.tx[k].at > Now
    /\ ~Locked
    /\ FirstUnqueued # 0 /\ IsDue(FirstUnqueued) => Full
    /\ st' = Elapse(st)
    /\ UNCHANGED <<queue, running, scan, app, cache, inputs, excused, failed>>

Service == TimerRuns \/ TimerPushes \/ Take \/ Execute \/ Tick
Next == Application \/ Service \/ GotIp \/ GotIp6 \/ Disconnected \/ PacketComes
Spec == Init /\ [][Next]_vars

-----------------------------------------------------------------------------
Answers(p) == Range(p.answers) \cup Range(p.servers) \cup Range(p.additional)
Live == Range(st.srvs)

\* The action queue never outgrows CONFIG_MDNS_ACTION_QUEUE_LEN, the timer's walk stays
\* inside the packet queue, and the packets in it can be told apart.
TypeOK ==
    /\ \A b \in Pcbs : st.pcb[b].state \in Off .. Running
    /\ Len(queue) <= QueueLen
    /\ scan = 0 \/ scan \in DOMAIN st.tx
    /\ st.out = <<>>
    /\ IsInjective([i \in DOMAIN st.tx |-> st.tx[i].id])

ProbingPcbs == {b \in st.ready : st.pcb[b].state \in Probe1 .. Probe3}
AsksFor(p, s) == \E q \in Range(p.qs) : q.of = s /\ q.svc # None

\* What is waiting to be sent, and what is being probed for, refers only to services that
\* still exist (a service is freed when it is removed), but for the questions of a probe.
\* There a removal leaves freed strings behind (mdns_send.c:1796-1815), and only so: one
\* question for each removed service whose question was not the first of its type, at the
\* cost of that of another service, which is still probed for; and those for host names.
AnswersAreLive ==
    /\ \A p \in Range(st.tx) : \A a \in Answers(p) : a.svc = None \/ a.svc \in Live
    /\ \A b \in Pcbs : \A s \in Range(st.pcb[b].services) : s \in Live
FreedAreProbes ==
    \A p \in Range(st.tx) : \A q \in Range(p.qs) : q.of = Freed =>
      /\ p.pcb \in ProbingPcbs
      /\ IF q.svc = None THEN st.pcb[p.pcb].ip
         ELSE \E s \in Range(st.pcb[p.pcb].services) : st.svc[s].type = q.svc /\ ~AsksFor(p, s)
NoDanglingService == AnswersAreLive /\ FreedAreProbes

\* A packet at the head of the queue that is marked as handed to the task has
\* been handed to it, unless a push found the queue full.
TxAction(a, id) == a # None /\ a.type = "tx" /\ a.arg = id
HeadIsHandedOver ==
    st.tx # <<>> /\ Head(st.tx).queued =>
      \/ failed
      \/ \E a \in Range(queue) \cup {running} : TxAction(a, Head(st.tx).id)

\* The two queues between the timer and the task: what waits in them is whole, and what
\* one of them says of the other is true (mdns_send.c:1728-1744, mdns_service.c:185-240).
TxQueueInv == TypeOK /\ HeadIsHandedOver

\* A pcb that probes has one packet in the queue, its probe (what it was about to send
\* otherwise has been dropped).  It asks for every service the pcb probes for, unless a
\* removal has taken out that question and left the freed service's instead, and for the
\* host name exactly if the pcb probes for that.
Mine(b) == {k \in DOMAIN st.tx : st.tx[k].pcb = b}
IsProbeOf(p, b) ==
    /\ \A s \in Range(st.pcb[b].services) :
         AsksFor(p, s) \/ \E q \in Range(p.qs) : q.of = Freed /\ q.svc = st.svc[s].type
    /\ st.pcb[b].ip <=> \E q \in Range(p.qs) : q.svc = None
    /\ p.qs # <<>>
ProbesAlone ==
    \A b \in ProbingPcbs : \E k \in DOMAIN st.tx : Mine(b) = {k} /\ IsProbeOf(st.tx[k], b)

\* What a neighbour should know of our services.
Truth == UNION {Range(ServicePtrRecords(st, s, FALSE)) \cup {SrvRecord(st, s, FALSE), TxtRecord(st, s, FALSE)} : s \in Live}
NamesApart == \A s, x \in Live : s # x /\ st.svc[s].type = st.svc[x].type => InstanceName(st, s) # InstanceName(st, x)

\* When all that was to be sent has been sent, a neighbour that heard every packet (its
\* probes, announcements and goodbyes) knows exactly the services there are, as they are,
\* unless two of them share a name or a call was made that the library does not announce
\* (see "excused").
CacheAgrees ==
    AtRest /\ ~excused /\ NamesApart => \A b \in st.ready : st.pcb[b].state = Running =>
      {r \in cache[b] : r.type \in {"PTR", "SRV", "TXT"}} = Truth
=============================================================================
