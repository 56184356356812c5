----------------------------- MODULE MdnsReceive -----------------------------
(***************************************************************************)
(* What the responder does with a packet it receives (mdns_receive.c): the *)
(* questions about its own names are collected, the records about them are *)
(* compared with its own, a lost comparison renames or probes again, and   *)
(* what is left is answered.  The records that answer the application's    *)
(* own queries are in MdnsClient.                                          *)
(*                                                                         *)
(* A name is a pair of a base and the number mangle_name has put after it. *)
(***************************************************************************)
EXTENDS MdnsResponder

\* mangle_name: the next number, so that the names that were lost are not tried again.
Mangle(name) == <<name[1], name[2] + 1>>

SubtypeService(st, sub, type) ==
    FirstService(st, LAMBDA s : ServiceMatches(st, s, type, None) /\ sub \in st.svc[s].subs)

IsOurs(st, name, type, sub) ==
    IF type = None
    THEN name # None /\ st.host # None /\ HostnameIsOurs(st, name)
    ELSE None # (CASE sub -> SubtypeService(st, name, type)
                   [] ~sub /\ name = None -> GetServiceItem(st, type, None)
                   [] OTHER -> GetServiceItemInstance(st, name, type, None))

IsNameSelfhosted(st, name, type) ==
    /\ st.host # None
    /\ \/ type = None /\ name = st.host
       \/ LET s == GetServiceItem(st, type, None)
          IN  type # None /\ s # None /\ st.svc[s].host = st.host

-----------------------------------------------------------------------------
(* Comparisons: positive when they win, negative when we do. *)

Compare(ours, theirs) == IF theirs > ours THEN 1 ELSE IF theirs < ours THEN -1 ELSE 0

\* The first difference of two tuples decides.
CompareTuples(ours, theirs) ==
    LET k == SelectInSeq([i \in DOMAIN ours |-> ours[i] # theirs[i]], LAMBDA d : d)
    IN  IF k = 0 THEN 0 ELSE Compare(ours[k], theirs[k])

\* The longer host name wins, then the port, then the name (bases are equally
\* long, and a number after one makes it longer).
SrvWeight(port, host) == <<IF host[2] = 1 THEN 0 ELSE 1, port, host[1], host[2]>>
CheckSrvCollision(st, s, data) ==
    CompareTuples(SrvWeight(st.svc[s].port, st.host), SrvWeight(data[1], data[2]))

\* The longer TXT wins, then its contents.
TxtWeight(txt) == <<Cardinality(txt), FoldLeft(LAMBDA n, x : n + x[2], 0, SetToSeq(txt))>>
CheckTxtCollision(st, s, txt) == CompareTuples(TxtWeight(st.svc[s].txt), TxtWeight(txt))

\* 2 says that the other address is that of our own twin interface.
CheckAddressCollision(st, i, addr) ==
    LET col == Compare(st.ip[i], addr)
    IN  IF addr = 0 THEN 1
        ELSE IF col = 1 /\ st.twin[i] # None /\ addr = st.ip[st.twin[i]] THEN 2 ELSE col

-----------------------------------------------------------------------------
(* The packet that is being parsed: pk.qs are the questions still to be    *)
(* answered, pk.known the answers the asker has already.                   *)

Parsed(m) == [pcb |-> m.pcb, src |-> m.src, port |-> m.port, auth |-> m.auth, dist |-> m.dist,
              probe |-> FALSE, discovery |-> FALSE, qs |-> <<>>, known |-> <<>>,
              noreply |-> FALSE, stop |-> FALSE]

ParseQuestion(st, pk, q) ==
    CASE q.type = "SDPTR" ->
           [pk EXCEPT !.discovery = TRUE,
                      !.qs = Reverse([i \in DOMAIN st.srvs |->
                               Question("SDPTR", None, st.svc[st.srvs[i]].type, None, q.uni)]) \o @]
      [] q.type # "SDPTR" /\ IsOurs(st, q.host, q.svc, q.sub) ->
           [pk EXCEPT !.probe = @ \/ (q.type = "ANY" /\ q.host # None), !.qs = <<q>> \o @]
      [] OTHER -> pk

QuestionMatches(st, q, type, s) ==
    /\ q.type = type
    /\ \/ type = "A"
       \/ /\ type \in {"PTR", "SDPTR"}
          /\ q.svc = st.svc[s].type
          /\ st.svc[s].inst \in {None, q.host}
       \/ /\ type \in {"SRV", "TXT"}
          /\ s # None /\ q.svc = st.svc[s].type
          /\ q.host = InstanceName(st, s) /\ q.host # None

RemoveParsedQuestion(st, pk, type, s) ==
    LET k == SelectInSeq(pk.qs, LAMBDA q : QuestionMatches(st, q, type, s))
    IN  IF k = 0 THEN pk ELSE [pk EXCEPT !.qs = RemoveAt(@, k)]

\* Known answers: a question that is answered already, or our copy of the
\* answer that is waiting to be sent.
Quiet(pk) == ~pk.auth /\ ~pk.probe /\ pk.qs = <<>>
Cancel(x, type, s) == [x EXCEPT !.st = RemoveScheduledAnswer(x.st, x.pk.pcb, type, s)]
Answered(x, type, s) == [x EXCEPT !.pk = RemoveParsedQuestion(x.st, x.pk, type, s)]
NoReply(x) == [x EXCEPT !.pk.noreply = TRUE]
IsRunningProbe(x) == x.st.pcb[x.pk.pcb].running
ProbeFailed(st, b) == [st EXCEPT !.pcb[b].failed = IF @ < MaxFailed THEN @ + 1 ELSE @]

ParsePtr(x, r) ==
    LET disc == x.pk.discovery /\ r.type = "SDPTR"
        inst == IF r.type = "SDPTR" THEN None ELSE r.data
        type == IF r.type = "SDPTR" THEN r.data ELSE r.svc
        s    == IF inst # None THEN GetServiceItemInstance(x.st, inst, type, None)
                ELSE GetServiceItem(x.st, type, None)
        y    == CASE disc -> Answered(x, "SDPTR", s)
                  [] ~disc /\ x.pk.qs # <<>> /\ ~x.pk.probe -> Answered(x, "PTR", s)
                  [] ~disc /\ (x.pk.qs = <<>> \/ x.pk.probe) /\ r.ttl > HalfTtl -> Cancel(x, "PTR", s)
                  [] OTHER -> x
    IN  IF IsOurs(x.st, inst, type, FALSE)
        THEN [y EXCEPT !.pk.known = <<[host |-> inst, svc |-> type, ttl |-> r.ttl]>> \o @]
        ELSE x

\* A lost name: the service's own instance, else the global instance, else the host.
RenameInstance(st, s) ==
    CASE st.svc[s].inst # None ->
           ProbeAllPcbs([st EXCEPT !.svc[s].inst = Mangle(@)], <<s>>, FALSE, FALSE)
      [] st.svc[s].inst = None /\ st.inst # None ->
           RestartAllPcbsNoInstance([st EXCEPT !.inst = Mangle(@)])
      [] OTHER -> RestartAllPcbs(SetGlobalHostname(st, Mangle(st.host)))

RenameHost(st) == RestartAllPcbs(SetGlobalHostname(st, Mangle(st.host)))

LoseSrv(x, s) ==
    LET b == x.pk.pcb
    IN  [NoReply(x) EXCEPT !.st =
           IF IsRunningProbe(x) THEN RenameInstance(ProbeFailed(x.st, b), s)
           ELSE InitPcbProbe(SendBye(x.st, b, <<s>>, FALSE), b, <<s>>, FALSE)]

\* The service compared is the FIRST of the type, whatever the record's instance.
ParseSrv(x, r) ==
    LET s   == GetServiceItem(x.st, r.svc, None)
        col == CheckSrvCollision(x.st, s, r.data)
    IN  CASE x.pk.qs # <<>> /\ ~x.pk.probe -> Answered(x, "SRV", s)
          [] (x.pk.qs = <<>> \/ x.pk.probe) /\ x.pk.dist -> Cancel(x, "SRV", s)
          [] (x.pk.qs = <<>> \/ x.pk.probe) /\ ~x.pk.dist /\ IsNameSelfhosted(x.st, r.name, r.svc) ->
               IF col # 0 /\ (x.pk.probe \/ x.pk.auth)
               THEN IF col > 0 \/ r.data[1] = 0 THEN LoseSrv(x, s) ELSE x
               ELSE IF r.ttl > 0 /\ col = 0 /\ Quiet(x.pk) THEN Cancel(x, "SRV", s) ELSE x
          [] OTHER -> x

\* A TXT that differs either way makes a pcb that is not probing probe again.
ParseTxt(x, r) ==
    LET s   == GetServiceItem(x.st, r.svc, None)
        col == CheckTxtCollision(x.st, s, r.data)
        b   == x.pk.pcb
    IN  IF x.pk.qs # <<>> /\ ~x.pk.probe THEN Answered(x, "TXT", s)
        ELSE IF IsNameSelfhosted(x.st, r.name, r.svc) /\ ~IsRunningProbe(x)
        THEN IF col # 0 THEN [NoReply(x) EXCEPT !.st = InitPcbProbe(x.st, b, <<s>>, TRUE)]
             ELSE IF r.ttl > HalfTtl /\ Quiet(x.pk) THEN Cancel(x, "TXT", s) ELSE x
        ELSE x

\* Mutant: a pcb that does not probe keeps its name when it has lost it.
LoseAddressWhenProbing(x) ==
    [NoReply(x) EXCEPT !.st = IF IsRunningProbe(x) /\ (x.pk.probe \/ x.pk.auth)
                              THEN RenameHost(ProbeFailed(x.st, x.pk.pcb)) ELSE x.st]

LoseAddress(x) ==
    LET b == x.pk.pcb
    IN  [NoReply(x) EXCEPT !.st =
           CASE IsRunningProbe(x) /\ (x.pk.probe \/ x.pk.auth) -> RenameHost(ProbeFailed(x.st, b))
             [] ~IsRunningProbe(x) -> InitPcbProbe(x.st, b, <<>>, TRUE)
             [] OTHER -> x.st]

ParseAddress(x, r) ==
    LET i   == x.pk.pcb[1]
        col == CheckAddressCollision(x.st, i, r.data[2])
    IN  IF x.pk.qs # <<>> /\ ~x.pk.probe THEN Answered(x, "A", None)
        ELSE IF ~IsNameSelfhosted(x.st, r.name, r.svc) THEN x
        ELSE CASE col = 2 -> [x EXCEPT !.st = SetDuplicate(x.st, i), !.pk.stop = TRUE]
               [] col = 1 -> LoseAddress(x)
               [] OTHER -> IF r.ttl > 0 /\ col = 0 /\ Quiet(x.pk) /\ ~IsRunningProbe(x)
                           THEN Cancel(x, "A", None) ELSE x

\* One record; those that are about none of our names are left to MdnsClient.
ParseRecord(x, r) ==
    CASE x.pk.stop -> x
      [] ~x.pk.stop /\ r.type = "SDPTR" /\ x.pk.discovery -> ParsePtr(x, r)
      [] ~x.pk.stop /\ r.type # "SDPTR" /\ ~r.sub /\ IsOurs(x.st, r.name, r.svc, FALSE) ->
           (CASE r.type = "PTR" -> ParsePtr(x, r)
              [] r.type = "SRV" -> ParseSrv(x, r)
              [] r.type = "TXT" -> ParseTxt(x, r)
              [] r.type = "A"   -> ParseAddress(x, r))
      [] OTHER -> x
-----------------------------------------------------------------------------
(* The answer to the questions that are left (mdns_send.c). *)

\* create_answer_from_service: what goes in the answers and what comes along.
Addresses(st, s, flush) == <<Answer("A", s, GetHostItem(st, st.svc[s].host), flush, FALSE)>>

CreateAnswerFromService(st, p, s, q, shared, flush) ==
    LET a(type)  == <<Answer(type, s, None, flush, FALSE)>>
        ptr      == <<Answer("PTR", s, None, FALSE, FALSE)>>
        local    == GetHostItem(st, st.svc[s].host) = Self
        add(x, y) == [p EXCEPT !.answers = CreateAnswers(@, x), !.additional = CreateAnswers(@, y)]
    IN  CASE q.type = "ANY" /\ q.host # None -> add(a("SRV") \o a("TXT"), Addresses(st, s, flush))
          [] q.type = "PTR" \/ (q.type = "ANY" /\ q.host = None) ->
               IF shared \/ ~local THEN add(ptr, a("SRV") \o a("TXT") \o Addresses(st, s, flush))
               ELSE add(ptr \o Addresses(st, s, flush), a("SRV") \o a("TXT"))
          [] q.type = "SRV" -> add(a("SRV"), Addresses(st, s, flush))
          [] q.type = "TXT" -> add(a("TXT"), <<>>)
          [] q.type = "SDPTR" -> add(<<Answer("SDPTR", s, None, FALSE, FALSE)>>, <<>>)
          [] OTHER -> p

\* service_match_ptr_question: what stands before the type is a subtype or an instance.
MatchesPtrQuestion(st, s, q) ==
    /\ st.svc[s].type = q.svc
    /\ IF q.sub THEN q.host \in st.svc[s].subs ELSE q.host \in {None, InstanceName(st, s)}

\* The asker's packet holds the answer, and for more than half its life yet.
AnswerIsKnown(st, pk, s) ==
    \E i \in DOMAIN pk.known :
       LET r == pk.known[i]
       IN  /\ (st.svc[s].inst = None) = (r.host = None)
           /\ r.ttl > HalfTtl
           /\ r.svc = st.svc[s].type
           /\ r.host # None => InstanceMatches(st, st.svc[s].inst, r.host)

\* The services a question is answered with.
Asked(st, pk, q) ==
    IF q.type \in {"SRV", "TXT"}
    THEN LET s == GetServiceItemInstance(st, q.host, q.svc, None) IN IF s = None THEN <<>> ELSE <<s>>
    ELSE Without(st.srvs, {s \in Svcs : ~MatchesPtrQuestion(st, s, q) \/ AnswerIsKnown(st, pk, s)})

Shared(pk, q) == q.type \in {"PTR", "SDPTR"} \/ ~pk.probe

\* One question; a one-shot querier's question is repeated to it.
AnswerQuestion(st, pk, r, q) ==
    LET flush == pk.port = "mdns"
        asked == Asked(st, pk, q)
        p == CASE q.svc # None ->
                    FoldLeft(LAMBDA x, s : CreateAnswerFromService(st, x, s, q, Shared(pk, q), flush),
                             r.p, asked)
               [] q.svc = None /\ q.type = "A" ->
                    [r.p EXCEPT !.answers =
                       CreateAnswer(@, Answer("A", None, GetHostItem(st, q.host), flush, FALSE))]
               [] q.svc = None /\ q.type = "ANY" ->
                    [r.p EXCEPT !.answers = AppendHostList(st, @, flush)]
               [] OTHER -> r.p
    IN  IF q.type \in {"SRV", "TXT"} /\ asked = <<>> THEN r ELSE
        [p |-> IF ~flush /\ q.type \in {"ANY", "A"} THEN [p EXCEPT !.qs = Append(@, q)] ELSE p,
         records |-> r.records \/ q.svc = None \/ asked # <<>>,
         unicast |-> r.unicast \/ q.uni]

\* mdns_priv_create_answer_from_parsed_packet: whether it waits its turn or goes
\* at once is decided by the LAST question alone.
CreateAnswerFromParsedPacket(st, pk) ==
    LET new == [AllocPacket(st, pk.pcb, TRUE, {}) EXCEPT !.dist = pk.dist]
        r   == FoldLeft(LAMBDA x, q : AnswerQuestion(st, pk, x, q),
                        [p |-> new, records |-> FALSE, unicast |-> FALSE], pk.qs)
        p   == IF r.unicast \/ pk.port # "mdns" THEN [r.p EXCEPT !.dst = pk.src] ELSE r.p
    IN  IF pk.qs = <<>> \/ ~r.records THEN st
        ELSE IF Shared(pk, Last(pk.qs)) THEN SendAfter(st, p, Now) ELSE Dispatch(st, p)

-----------------------------------------------------------------------------

\* mdns_parse_packet without the records that only answer our own queries.
Dropped(st, m) ==
    \/ m.src = st.ip[m.pcb[1]]
    \/ m.auth /\ m.port # "mdns"
    \/ m.qs # <<>> /\ m.answers = <<>> /\ st.host = None

ParsePacket(st, m) ==
    LET pk == FoldLeft(LAMBDA x, q : ParseQuestion(st, x, q), Parsed(m), m.qs)
        x  == FoldLeft(ParseRecord, [st |-> st, pk |-> pk], m.answers \o m.servers \o m.extra)
        unasked == m.qs # <<>> /\ pk.qs = <<>> /\ ~pk.discovery /\ m.answers = <<>>
    IN  IF Dropped(st, m) \/ unasked THEN st
        ELSE IF ~x.pk.noreply /\ ~x.pk.stop /\ IsAfterProbing(x.st, m.pcb)
                /\ (x.pk.qs # <<>> \/ x.pk.discovery)
        THEN CreateAnswerFromParsedPacket(x.st, x.pk)
        ELSE x.st
=============================================================================
