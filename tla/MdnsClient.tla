----------------------------- MODULE MdnsClient -----------------------------
(***************************************************************************)
(* The half of the mDNS library that asks: queries (mdns_querier.c) that   *)
(* collect results until their time is over or they have enough, and       *)
(* browses (mdns_browser.c) that keep a cache of the instances of a        *)
(* service and tell the application what changes in it.                    *)
(*                                                                         *)
(* Queries and browses are heap objects that the application's tasks make  *)
(* and delete, that the timer and the service task walk over, and that     *)
(* actions in a queue of limited length point to: an address is taken      *)
(* again once it is freed.  One interface and IP family; every packet      *)
(* received is an authoritative response.  A name is a model value, a      *)
(* service its type; ports, allocation failures and what is put on the     *)
(* wire are left out.                                                      *)
(***************************************************************************)
EXTENDS Integers, Sequences, FiniteSets, SequencesExt

CONSTANTS Searches, Browses,   \* addresses of mdns_search_once_t, mdns_browse_t
          None,                \* NULL
          QueueLen,            \* CONFIG_MDNS_ACTION_QUEUE_LEN
          Queries,             \* what the application may ask for
          Services,            \* the services it may browse
          Packets,             \* the record lists that may be received
          Own,                 \* <<name, service>> the responder answers for
          Data,                \* names, services, addresses and texts
          MaxInputs            \* calls that make something, and packets, in all

Datum == Data \cup {None}
QueryTypes == {"ANY", "A", "PTR", "SRV", "TXT"}
\* A record of type "BAD" cannot be read; a record whose data cannot be has the data None.
Record == [type : {"A", "PTR", "SRV", "TXT", "BAD"}, name : Datum, svc : Datum, data : Datum, ttl : Nat]
\* mdns_result_t, mdns_search_once_t and mdns_browse_t.
ResultType == [inst : Datum, svc : Datum, host : Datum, addr : SUBSET Datum, txt : Datum, ttl : Nat]
SearchType == [type : QueryTypes, name : Datum, svc : Datum, max : Nat, async : BOOLEAN,
               state : {"init", "running", "off"}, results : Seq(ResultType), done : BOOLEAN,
               expired : BOOLEAN, due : BOOLEAN, ended : {"no", "rightly", "early"}]
BrowseType == [svc : Services, results : Seq(ResultType)]

\* What has changed in the cache of a browse (mdns_browse_sync_t), and what waits in the queue.
SyncType == [browse : Browses, changed : Seq(Datum)]
NotifyType == [browse : Browses, changed : Seq(Datum), live : BOOLEAN]
ActionType == [type : {"search_add", "search_send", "search_end"}, arg : Searches]
                \cup [type : {"rx"}, arg : Packets]
                \cup [type : {"browse_add"}, arg : Browses]
                \cup [type : {"browse_end"}, arg : Services]
                \cup [type : {"browse_sync"}, arg : NotifyType]

\* A query is what mdns_query_generic may be called with; an address has a name.
ASSUME ClientAssumption ==
    /\ QueueLen \in Nat /\ MaxInputs \in Nat
    /\ Services \subseteq Data
    /\ Queries \subseteq [type : QueryTypes, name : Datum, svc : Datum, max : Nat, async : BOOLEAN]
    /\ Packets \subseteq Seq(Record)
    /\ \A p \in Packets : \A i \in DOMAIN p :
         (p[i].type = "A" => p[i].name # None) /\ (p[i].type = "TXT" => p[i].data # None)
    /\ None \notin SearchType /\ None \notin BrowseType /\ None \notin ActionType
    /\ None \notin SyncType

VARIABLES search,    \* search[s]: what is at the address, None when it is free
          slist,     \* s_search_once
          browse,    \* browse[b]
          blist,     \* s_browse
          queue, running,  \* the action queue, the action the task has taken
          scan,      \* the searches the timer has still to look at
          blocked,   \* the service task waits for the lock it holds
          undefined, \* a freed browse or a null string has been used: nothing is modelled after it
          told,      \* told[b]: what the application has been told of a browse
          lost,      \* lost[b]: the instances whose last change has gone with its notice
          inputs

vars == <<search, slist, browse, blist, queue, running, scan, blocked, undefined,
          told, lost, inputs>>

\* The TTL is kept for browses only.
Result(inst, svc, host, addr, txt, ttl) ==
    [inst |-> inst, svc |-> svc, host |-> host, addr |-> addr, txt |-> txt, ttl |-> ttl]

Action(type, arg) == [type |-> type, arg |-> arg]
Push(q, a) == IF Len(q) >= QueueLen THEN q ELSE Append(q, a)
Full == Len(queue) >= QueueLen
Locked == scan # <<>> \/ blocked

Init == /\ search = [s \in Searches |-> None] /\ slist = <<>>
        /\ browse = [b \in Browses |-> None] /\ blist = <<>>
        /\ queue = <<>> /\ running = None /\ scan = <<>>
        /\ blocked = FALSE /\ undefined = FALSE
        /\ told = [b \in Browses |-> {}] /\ lost = [b \in Browses |-> {}]
        /\ inputs = 0

-----------------------------------------------------------------------------
(* Searches. *)

\* search_init; "expired" and "due" stand for the clock: the time of the search
\* is over, a second has passed since it was last sent.  "ended" records whether it
\* was finished when it should.
SearchInit(d) ==
    [type |-> d.type, name |-> d.name, svc |-> d.svc, max |-> d.max, async |-> d.async,
     state |-> "init", results |-> <<>>, done |-> FALSE,
     expired |-> FALSE, due |-> FALSE, ended |-> "no"]

\* The list without what is gone, in its order.
Without(list, gone) ==
    LET kept[i \in 0 .. Len(list)] ==
          IF i = 0 THEN <<>>
          ELSE IF list[i] \in gone THEN kept[i - 1] ELSE Append(kept[i - 1], list[i])
    IN  kept[Len(list)]
Enough(q) == q.max # 0 /\ Len(q.results) >= q.max
HasRoom(q) == q.max = 0 \/ Len(q.results) < q.max

Finished(q) == [q EXCEPT !.state = "off", !.done = TRUE,
                         !.ended = IF q.expired \/ Enough(q) THEN "rightly" ELSE "early"]
FinishAll(x, over) ==
    [x EXCEPT !.slist = Without(@, over),
              !.search = [s \in Searches |-> IF s \in over THEN Finished(@[s]) ELSE @[s]]]

\* Mutant: whatever is at the address is finished.
SearchFinishAny(x, s) == IF x.search[s] = None THEN x ELSE FinishAll(x, {s})

\* search_finish: only a search that is still in the list.
SearchFinish(x, s) == IF s \in Range(x.slist) THEN FinishAll(x, {s}) ELSE x

\* mdns_priv_query_done: the searches that have enough.
QueryDone(x) == FinishAll(x, {s \in Range(x.slist) : Enough(x.search[s])})

\* mdns_priv_query_find_from: does a search want a record of this name?
WantsAddress(q, name) ==
    /\ q.type \in {"ANY", "A", "PTR", "SRV"}
    /\ q.type = "ANY" => q.svc = None
    /\ IF q.type \in {"PTR", "SRV"} THEN \E i \in DOMAIN q.results : q.results[i].host = name
       ELSE q.name = name
WantsService(q, r) ==
    /\ q.type \in {"ANY", "PTR", r.type} /\ q.svc = r.svc
    /\ q.type = "ANY" => q.svc # None
    /\ q.type = "PTR" \/ (q.name # None /\ q.name = r.name)
Wants(q, r) ==
    /\ q.state # "off"
    /\ CASE r.type = "A" -> WantsAddress(q, r.name)
         [] r.type \in {"SRV", "TXT"} -> WantsService(q, r)
         [] r.type = "PTR" -> q.type = "PTR" /\ q.svc = r.svc

\* The first search in the list that wants the record.
QueryFind(x, r) ==
    LET k == SelectInSeq(x.slist, LAMBDA s : Wants(x.search[s], r))
    IN  IF k = 0 THEN None ELSE x.slist[k]

\* What a record does to a search it is for.
AddResult(q, result) == IF HasRoom(q) THEN [q EXCEPT !.results = <<result>> \o @] ELSE q

QueryAddPtr(q, inst, svc) ==
    IF \E i \in DOMAIN q.results : q.results[i].inst = inst THEN q
    ELSE AddResult(q, Result(inst, svc, None, {}, None, 0))

QueryAddSrv(q, host) ==
    IF \E i \in DOMAIN q.results : q.results[i].host = host THEN q
    ELSE AddResult(q, Result(q.name, q.svc, host, {}, None, 0))

\* The first result takes the TXT, whatever it is a result of.
QueryAddTxt(q, txt) ==
    IF q.results = <<>> THEN AddResult(q, Result(None, None, None, {}, txt, 0))
    ELSE IF q.results[1].txt # None THEN q
    ELSE [q EXCEPT !.results[1].txt = txt]

\* Mutant: the first result takes the address.
QueryAddIpToFirst(q, host, ip) ==
    IF q.results # <<>> THEN [q EXCEPT !.results[1].addr = @ \cup {ip}]
    ELSE IF q.type \in {"A", "ANY"} THEN AddResult(q, Result(None, None, host, {ip}, None, 0))
    ELSE q

QueryAddIp(q, host, ip) ==
    LET k == SelectInSeq(q.results, LAMBDA e : q.type \in {"A", "ANY"} \/ e.host = host)
    IN  IF k # 0 THEN [q EXCEPT !.results[k].addr = @ \cup {ip}]
        ELSE IF q.type \in {"A", "ANY"} THEN AddResult(q, Result(None, None, host, {ip}, None, 0))
        ELSE q

\* An address goes to the search that is found, whatever it asks for, and to those
\* after it in the list that want it.
Before(list, s, t) == \E i, j \in DOMAIN list : i < j /\ list[i] = s /\ list[j] = t
GetsAddress(x, s, r) == s = x.found \/ (Before(x.slist, x.found, s) /\ Wants(x.search[s], r))
QueryAddIpToAll(x, r) ==
    [x EXCEPT !.found = None,
              !.search = [s \in Searches |-> IF GetsAddress(x, s, r)
                                             THEN QueryAddIp(@[s], r.name, r.data) ELSE @[s]]]

-----------------------------------------------------------------------------
(* Browses: the cache, and "sync", what has changed in it with this packet. *)

BrowseFindPtr(x, svc) ==
    LET k == SelectInSeq(x.blist, LAMBDA b : x.browse[b].svc = svc)
    IN  IF k = 0 THEN None ELSE x.blist[k]

BrowseFind(x, r) ==
    LET k == SelectInSeq(x.blist, LAMBDA b :
               IF r.type = "A" THEN \E i \in DOMAIN x.browse[b].results : x.browse[b].results[i].host = r.name
               ELSE x.browse[b].svc = r.svc)
    IN  IF r.type = "PTR" \/ k = 0 THEN None ELSE x.blist[k]

\* What has changed is kept for one browse per packet, the first.
EnsureSync(x, b) == IF x.sync # None THEN x ELSE [x EXCEPT !.sync = [browse |-> b, changed |-> <<>>]]

\* c is the cache of the browse that is synchronised with what has changed in it; a
\* record for another browse does nothing.
Cache(x, b) == [results |-> x.browse[b].results, changed |-> x.sync.changed]
Syncs(x, b) == x.sync # None /\ x.sync.browse = b
Cached(x, b, c) ==
    IF Syncs(x, b) THEN [x EXCEPT !.browse[b].results = c.results, !.sync.changed = c.changed] ELSE x

\* add_browse_result: the result of this instance has changed.
AddBrowseResult(c, inst) ==
    IF Contains(c.changed, inst) THEN c ELSE [c EXCEPT !.changed = <<inst>> \o @]

BrowseIndex(results, inst) == SelectInSeq(results, LAMBDA e : e.inst = inst)
\* A result that is not there yet is put in front.
NewBrowseResult(c, e) == AddBrowseResult([c EXCEPT !.results = <<e>> \o @], e.inst)
\* The k-th result becomes e, which the application is to hear of.
SetResult(c, k, e) == [c EXCEPT !.results[k] = e]
ChangeResult(c, k, e) == AddBrowseResult(SetResult(c, k, e), e.inst)

\* The TTL only ever falls, except from zero.
UpdatedTtl(old, ttl) == IF old = 0 \/ ttl < old THEN ttl ELSE old
TtlSet(e, ttl) == [e EXCEPT !.ttl = UpdatedTtl(@, ttl)]
\* Mutant: a TTL that changes is no change.
BrowseTtlSilently(c, k, ttl) == SetResult(c, k, TtlSet(c.results[k], ttl))
BrowseTtl(c, k, ttl) ==
    IF UpdatedTtl(c.results[k].ttl, ttl) = c.results[k].ttl THEN c
    ELSE ChangeResult(c, k, TtlSet(c.results[k], ttl))

BrowseAddPtr(c, svc, inst, ttl) ==
    LET k == BrowseIndex(c.results, inst)
    IN  IF k # 0 THEN BrowseTtl(c, k, ttl)
        ELSE NewBrowseResult(c, Result(inst, svc, None, {}, None, ttl))

\* A new host name takes the addresses another instance on that host has.
AddressesOf(results, host) ==
    LET k == SelectInSeq(results, LAMBDA e : e.host = host /\ e.addr # {})
    IN  IF k = 0 THEN {} ELSE results[k].addr
HostSet(e, results, host) ==
    [e EXCEPT !.host = host, !.addr = IF @ # {} THEN @ ELSE AddressesOf(results, host)]
SetHost(c, k, host) ==
    IF c.results[k].host = host THEN c
    ELSE ChangeResult(c, k, HostSet(c.results[k], c.results, host))

BrowseAddSrv(c, svc, inst, host, ttl) ==
    LET k == BrowseIndex(c.results, inst)
    IN  IF k = 0 THEN NewBrowseResult(c, Result(inst, svc, host, {}, None, ttl))
        ELSE BrowseTtl(SetHost(c, k, host), k, ttl)

\* The first TXT of an instance is no change that is told of.
SetTxt(c, k, txt) ==
    LET e == [c.results[k] EXCEPT !.txt = txt]
    IN  IF c.results[k].txt \in {None, txt} THEN SetResult(c, k, e) ELSE ChangeResult(c, k, e)
BrowseAddTxt(c, svc, inst, txt, ttl) ==
    LET k == BrowseIndex(c.results, inst)
    IN  IF k = 0 THEN NewBrowseResult(c, Result(inst, svc, None, {}, txt, ttl))
        ELSE BrowseTtl(SetTxt(c, k, txt), k, ttl)

\* A new address goes to the first instance on the host that has not got it.
BrowseAddIp(c, host, ip, ttl) ==
    LET k == SelectInSeq(c.results, LAMBDA e : e.host = host /\ ip \notin e.addr)
    IN  IF k = 0 THEN c
        ELSE ChangeResult(c, k, TtlSet([c.results[k] EXCEPT !.addr = @ \cup {ip}], ttl))

\* The addresses of a packet, kept until all its host names are known; last first.
BrowseAddIps(c, staged) ==
    LET applied[i \in 0 .. Len(staged)] ==
          IF i = 0 THEN c
          ELSE BrowseAddIp(applied[i - 1], staged[i].name, staged[i].data, staged[i].ttl)
    IN  applied[Len(staged)]
ApplyStaged(x) ==
    LET b == IF x.packet # None THEN x.packet ELSE IF x.sync # None THEN x.sync.browse ELSE None
        y == EnsureSync(x, b)
    IN  IF x.staged = <<>> \/ b = None THEN x
        ELSE Cached(y, b, BrowseAddIps(Cache(y, b), x.staged))

-----------------------------------------------------------------------------
(* A response is parsed: x is the server with the parser's own variables, which *)
(* live as long as the packet: "found" is search_result, "hit" browse_result,   *)
(* "instance" browse_result_instance, "packet" packet_browse; "bad" says that a  *)
(* string that has never been set was compared, "cut" that a record could not be *)
(* read: the rest of the packet is dropped.                                     *)

Parser == [search |-> search, slist |-> slist, browse |-> browse, blist |-> blist,
           found |-> None, hit |-> None, instance |-> None, packet |-> None,
           sync |-> None, staged |-> <<>>, bad |-> FALSE, cut |-> FALSE]

IsOwn(r) == <<r.name, r.svc>> \in Own

\* Which search and browse a record is for.  A record about one of our own names
\* leaves them as the record before has set them.
Look(x, r) ==
    LET b == BrowseFind(x, r)
        y == [x EXCEPT !.found = QueryFind(x, r), !.hit = b]
    IN  IF IsOwn(r) THEN x
        ELSE IF b = None THEN y
        ELSE EnsureSync([y EXCEPT !.packet = b,
                                  !.instance = IF r.type = "A" THEN @ ELSE r.name], b)

\* The search the record is for becomes q.
InSearch(x, q) == [x EXCEPT !.search[x.found] = q]
Search(x) == x.search[x.found]

ParsePtr(x, r) ==
    LET b == BrowseFindPtr(x, r.svc)
        y == EnsureSync([x EXCEPT !.packet = b], b)
    IN  CASE r.data = None -> x
          [] r.data # None /\ b # None -> Cached(y, b, BrowseAddPtr(Cache(y, b), r.svc, r.data, r.ttl))
          [] r.data # None /\ b = None /\ x.found # None ->
               InSearch(x, QueryAddPtr(Search(x), r.data, r.svc))
          [] OTHER -> x

\* A PTR search gets the instance it has not heard of; NoRoom: it takes no more,
\* and the rest of the record is skipped.
IsPtrSearch(x) == x.found # None /\ Search(x).type = "PTR"
WithInstance(x, r) ==
    IF IsPtrSearch(x) THEN InSearch(x, QueryAddPtr(Search(x), r.name, r.svc)) ELSE x
InstanceIndex(q, r) == SelectInSeq(q.results, LAMBDA e : e.inst = r.name)
NoRoom(x, r) == IsPtrSearch(x) /\ InstanceIndex(Search(x), r) = 0

\* The instance gets what it has not got yet.
FirstHost(q, k, host) == [q EXCEPT !.results[k].host = IF @ = None THEN host ELSE @]
FirstTxt(q, k, txt) == [q EXCEPT !.results[k].txt = IF @ = None THEN txt ELSE @]

\* A string that is compared may never have been set: what a record of our own leaves.
InBrowse(x, c) ==
    CASE x.hit = None -> x
      [] x.hit # None /\ Syncs(x, x.hit) /\ x.instance = None -> [x EXCEPT !.bad = TRUE]
      [] OTHER -> Cached(x, x.hit, c)

ParseSrv(x, r) ==
    LET y == WithInstance(x, r)
        z == InBrowse(y, BrowseAddSrv(Cache(y, y.hit), y.browse[y.hit].svc, y.instance, r.data, r.ttl))
        skipped == NoRoom(y, r) \/ r.data = None
    IN  CASE skipped -> y
          [] ~skipped /\ IsPtrSearch(y) ->
               InSearch(z, FirstHost(Search(z), InstanceIndex(Search(z), r), r.data))
          [] ~skipped /\ ~IsPtrSearch(y) /\ y.found # None -> InSearch(z, QueryAddSrv(Search(z), r.data))
          [] OTHER -> z

ParseTxt(x, r) ==
    LET y == InBrowse(x, BrowseAddTxt(Cache(x, x.hit), x.browse[x.hit].svc, x.instance, r.data, r.ttl))
        z == WithInstance(y, r)
    IN  CASE NoRoom(z, r) -> z
          [] ~NoRoom(z, r) /\ IsPtrSearch(z) ->
               InSearch(z, FirstTxt(Search(z), InstanceIndex(Search(z), r), r.data))
          [] ~IsPtrSearch(z) /\ z.found # None -> InSearch(z, QueryAddTxt(Search(z), r.data))
          [] OTHER -> z

ParseAddress(x, r) ==
    LET b == IF x.hit # None THEN x.hit ELSE x.packet
        y == IF b = None THEN x ELSE [EnsureSync(x, b) EXCEPT !.staged = <<r>> \o @]
    IN  CASE r.data = None -> x
          [] r.data # None /\ y.found = None -> y
          [] OTHER -> QueryAddIpToAll(y, r)

ParseReadable(x, r) ==
    LET y == Look(x, r)
    IN  CASE r.type = "PTR" -> ParsePtr(y, r)
          [] r.type = "SRV" -> ParseSrv(y, r)
          [] r.type = "TXT" -> ParseTxt(y, r)
          [] r.type = "A" -> ParseAddress(y, r)

ParseRecord(x, r) ==
    CASE x.cut -> x
      [] ~x.cut /\ r.type = "BAD" -> [x EXCEPT !.cut = TRUE]
      [] OTHER -> ParseReadable(x, r)

\* A packet that is cut leaves what its records have done so far: no search is
\* finished, and the addresses kept for a browse and its notice are freed.
ParsePacket(records) ==
    LET parsed[i \in 0 .. Len(records)] ==
          IF i = 0 THEN Parser ELSE ParseRecord(parsed[i - 1], records[i])
        x == parsed[Len(records)]
    IN  IF x.cut THEN x ELSE ApplyStaged(QueryDone(x))
\* What has changed is posted for the task itself to deliver later.
SyncAction(x) ==
    IF x.sync = None \/ (x.sync # None /\ x.sync.changed = <<>>) THEN <<>>
    ELSE <<Action("browse_sync", [browse |-> x.sync.browse, changed |-> x.sync.changed, live |-> TRUE])>>

-----------------------------------------------------------------------------
(* The application's tasks. *)

Input == inputs < MaxInputs /\ inputs' = inputs + 1
UnchangedService == UNCHANGED <<running, scan, blocked, undefined, told, lost>>

\* mdns_query_generic (it waits) and mdns_query_async_new; none takes the lock.
Query(s) ==
    /\ search[s] = None /\ Input
    /\ \E d \in Queries :
         search' = IF Full THEN search ELSE [search EXCEPT ![s] = SearchInit(d)]
    /\ queue' = Push(queue, Action("search_add", s))
    /\ UNCHANGED <<slist, browse, blist>> /\ UnchangedService

\* The waiting caller is woken, takes the results and frees the search.
QueryReturns(s) ==
    /\ search[s] # None /\ ~search[s].async /\ search[s].done
    /\ search' = [search EXCEPT ![s] = None]
    /\ UNCHANGED <<slist, browse, blist, queue, inputs>> /\ UnchangedService

\* mdns_query_async_get_results.
GetResults(s) ==
    /\ search[s] # None /\ search[s].async /\ search[s].done
    /\ search' = [search EXCEPT ![s].done = FALSE]
    /\ UNCHANGED <<slist, browse, blist, queue, inputs>> /\ UnchangedService

\* Mutant: the search stays in the list.
AsyncDeleteKeepsList(s) ==
    /\ ~Locked
    /\ search[s] # None /\ search[s].async /\ search[s].state = "off"
    /\ search' = [search EXCEPT ![s] = None]
    /\ UNCHANGED <<slist, browse, blist, queue, inputs>> /\ UnchangedService

\* mdns_query_async_delete: refused while the search is not off, which it may be
\* before it has been finished.
AsyncDelete(s) ==
    /\ ~Locked
    /\ search[s] # None /\ search[s].async /\ search[s].state = "off"
    /\ slist' = Without(slist, {s})
    /\ search' = [search EXCEPT ![s] = None]
    /\ UNCHANGED <<browse, blist, queue, inputs>> /\ UnchangedService

BrowseNew(b) ==
    /\ browse[b] = None /\ Input
    /\ \E v \in Services :
         browse' = IF Full THEN browse ELSE [browse EXCEPT ![b] = [svc |-> v, results |-> <<>>]]
    /\ queue' = Push(queue, Action("browse_add", b))
    /\ told' = [told EXCEPT ![b] = {}] /\ lost' = [lost EXCEPT ![b] = {}]
    /\ UNCHANGED <<search, slist, blist, running, scan, blocked, undefined>>

BrowseDelete ==
    /\ blist # <<>> /\ Input
    /\ \E v \in Services : queue' = Push(queue, Action("browse_end", v))
    /\ UNCHANGED <<search, slist, browse, blist>> /\ UnchangedService

-----------------------------------------------------------------------------
(* The timer: mdns_priv_query_start_stop, one search after the other. *)

\* Time passes for a search.
Expire(s) ==
    /\ search[s] # None /\ search[s].state # "off" /\ ~search[s].expired
    /\ search' = [search EXCEPT ![s].expired = TRUE]
    /\ UNCHANGED <<slist, browse, blist, queue, inputs>> /\ UnchangedService
SecondPasses(s) ==
    /\ search[s] # None /\ search[s].state = "running" /\ ~search[s].due
    /\ search' = [search EXCEPT ![s].due = TRUE]
    /\ UNCHANGED <<slist, browse, blist, queue, inputs>> /\ UnchangedService

HasWork(q) == q.state # "off" /\ (q.expired \/ q.state = "init" \/ q.due)

UnchangedButTimer == UNCHANGED <<slist, browse, blist, running, blocked, undefined, told, lost, inputs>>
TimerRuns ==
    /\ ~Locked
    /\ scan' = Without(slist, {s \in Range(slist) : ~HasWork(search[s])}) /\ scan' # <<>>
    /\ UNCHANGED <<search, queue>> /\ UnchangedButTimer

\* Mutant: a push that fails is forgotten.
SearchEndOnce(s) ==
    /\ search[s].expired
    /\ queue' = Push(queue, Action("search_end", s))
    /\ search' = [search EXCEPT ![s].state = "off"]
\* A push that fails is made again in the next run of the timer.
SearchEnd(s) ==
    /\ search[s].expired
    /\ queue' = Push(queue, Action("search_end", s))
    /\ search' = [search EXCEPT ![s].state = IF Full THEN "running" ELSE "off"]
SearchSend(s) ==
    /\ ~search[s].expired
    /\ queue' = Push(queue, Action("search_send", s))
    /\ search' = [search EXCEPT ![s].state = "running", ![s].due = Full]
TimerStep ==
    /\ scan # <<>> /\ scan' = Tail(scan)
    /\ SearchEnd(Head(scan)) \/ SearchSend(Head(scan))
    /\ UnchangedButTimer

-----------------------------------------------------------------------------
(* The network and the service task. *)

PacketComes ==
    /\ Input
    /\ \E p \in Packets : queue' = Push(queue, Action("rx", p))
    /\ UNCHANGED <<search, slist, browse, blist>> /\ UnchangedService

Take ==
    /\ running = None /\ queue # <<>> /\ ~undefined
    /\ running' = Head(queue) /\ queue' = Tail(queue)
    /\ UNCHANGED <<search, slist, browse, blist, scan, blocked, undefined, told, lost, inputs>>

Execute(type) == /\ running # None /\ running.type = type /\ ~Locked
                 /\ running' = None
                 /\ UNCHANGED <<scan, inputs>>
Quietly == UNCHANGED <<queue, blocked, undefined, told, lost>>

SearchAdd ==
    /\ Execute("search_add") /\ slist' = <<running.arg>> \o slist
    /\ UNCHANGED <<search, browse, blist>> /\ Quietly

\* search_send of a search that is in the list writes to the network only.
SearchSent == Execute("search_send") /\ UNCHANGED <<search, slist, browse, blist>> /\ Quietly

SearchEnded ==
    /\ Execute("search_end")
    /\ LET x == SearchFinish(Parser, running.arg) IN search' = x.search /\ slist' = x.slist
    /\ UNCHANGED <<browse, blist>> /\ Quietly

Receive ==
    /\ Execute("rx")
    /\ LET x == ParsePacket(running.arg)
       IN  /\ search' = x.search /\ slist' = x.slist /\ browse' = x.browse
           /\ queue' = IF SyncAction(x) = <<>> \/ x.cut THEN queue ELSE Push(queue, SyncAction(x)[1])
           /\ lost' = IF SyncAction(x) = <<>> \/ ~(x.cut \/ Full) THEN lost
                      ELSE [lost EXCEPT ![x.sync.browse] = @ \cup Range(x.sync.changed)]
           /\ undefined' = (undefined \/ x.bad)
    /\ UNCHANGED <<blist, blocked, told>>

\* browse_add: a second browse of a service is asked for once and forgotten.
BrowseAdd ==
    /\ Execute("browse_add")
    /\ LET b == running.arg
       IN  IF BrowseFindPtr(Parser, browse[b].svc) # None
           THEN browse' = [browse EXCEPT ![b] = None] /\ blist' = blist
           ELSE blist' = <<b>> \o blist /\ browse' = browse
    /\ UNCHANGED <<search, slist>> /\ Quietly

\* browse_finish frees the browses of the service with their results; a notice on
\* its way to one of them is left where it is.
Orphaned(a, gone) == a.type = "browse_sync" /\ a.arg.browse \in gone
BrowseEnd ==
    /\ Execute("browse_end")
    /\ LET gone == {b \in Browses : Contains(blist, b) /\ browse[b].svc = running.arg}
       IN  /\ blist' = Without(blist, gone)
           /\ browse' = [b \in Browses |-> IF b \in gone THEN None ELSE browse[b]]
           /\ told' = [b \in Browses |-> IF b \in gone THEN {} ELSE told[b]]
           /\ lost' = [b \in Browses |-> IF b \in gone THEN {} ELSE lost[b]]
           /\ queue' = [i \in DOMAIN queue |-> IF Orphaned(queue[i], gone)
                                               THEN [queue[i] EXCEPT !.arg.live = FALSE] ELSE queue[i]]
    /\ UNCHANGED <<search, slist, blocked, undefined>>

\* What the application learns of a result; a TXT is left out (see BrowseInStep).
Seen(e) == [inst |-> e.inst, host |-> e.host, addr |-> e.addr, ttl |-> e.ttl]
Tell(known, e) == {k \in known : k.inst # e.inst} \cup (IF e.ttl = 0 THEN {} ELSE {Seen(e)})
TellAll(known, results) == FoldLeft(Tell, known, results)

\* browse_sync: the notifier is called for one changed result after the other.  One
\* that is over is taken out of the cache and freed by mdns_query_results_free,
\* which asks for the lock the task holds: the task never gets any further.
BrowseSync ==
    /\ running # None /\ running.type = "browse_sync" /\ running.arg.live /\ ~Locked
    /\ LET b       == running.arg.browse
           changed == [i \in DOMAIN running.arg.changed |->
                         browse[b].results[BrowseIndex(browse[b].results, running.arg.changed[i])]]
           bye     == SelectInSeq(changed, LAMBDA e : e.ttl = 0)
           sent    == IF bye = 0 THEN changed ELSE SubSeq(changed, 1, bye)
       IN  /\ told' = [told EXCEPT ![b] = TellAll(@, sent)]
           /\ lost' = [lost EXCEPT ![b] = @ \ {e.inst : e \in Range(sent)}]
           /\ browse' = [browse EXCEPT ![b].results =
                            IF bye = 0 THEN @
                            ELSE Without(@, {e \in Range(@) : e.inst = changed[bye].inst})]
           /\ blocked' = (bye # 0)
           /\ running' = IF bye = 0 THEN None ELSE running
    /\ UNCHANGED <<search, slist, blist, queue, scan, undefined, inputs>>

\* The browse has been freed since the notice was posted.
BrowseSyncOrphaned ==
    /\ Execute("browse_sync") /\ ~running.arg.live
    /\ undefined' = TRUE
    /\ UNCHANGED <<search, slist, browse, blist, queue, blocked, told, lost>>

Task == \/ Take \/ SearchAdd \/ SearchSent \/ SearchEnded \/ Receive
        \/ BrowseAdd \/ BrowseEnd \/ BrowseSync \/ BrowseSyncOrphaned
Timer == TimerRuns \/ TimerStep
Application == \/ \E s \in Searches : Query(s) \/ QueryReturns(s) \/ GetResults(s) \/ AsyncDelete(s)
               \/ \E b \in Browses : BrowseNew(b)
               \/ BrowseDelete
Clock == \E s \in Searches : Expire(s) \/ SecondPasses(s)

Next == Application \/ Clock \/ Timer \/ PacketComes \/ Task

\* The timer and the task get their turn, the task even if the lock it waits for is
\* taken again and again (a mutex wakes who waits for it): strong fairness of Task,
\* whose every step changes "running" or ends in a standstill, written out because its
\* ENABLED is cheap to say.  Time passes for every search; a caller that is woken goes on.
TaskReady == (running = None /\ queue # <<>> /\ ~undefined) \/ (running # None /\ ~Locked)
TaskFairness == []<>TaskReady => []<><<running' # running>>_vars
Fairness == /\ TaskFairness /\ WF_vars(Timer)
            /\ \A s \in Searches : WF_vars(Expire(s)) /\ WF_vars(QueryReturns(s))
Spec == Init /\ [][Next]_vars /\ Fairness

-----------------------------------------------------------------------------
\* The variables have their types, the queue keeps its limit, and a browse has one result
\* for an instance (mdns_browser.c compares before it adds).
OnePerInstance(results) ==
    \A i, j \in DOMAIN results : results[i].inst = results[j].inst => i = j
TypeOK ==
    /\ search \in [Searches -> SearchType \cup {None}]
    /\ browse \in [Browses -> BrowseType \cup {None}]
    /\ slist \in Seq(Searches) /\ scan \in Seq(Searches) /\ blist \in Seq(Browses)
    /\ queue \in Seq(ActionType) /\ Len(queue) <= QueueLen
    /\ running \in ActionType \cup {None}
    /\ blocked \in BOOLEAN /\ undefined \in BOOLEAN
    /\ lost \in [Browses -> SUBSET Datum]
    /\ inputs \in 0 .. MaxInputs
    /\ \A b \in Browses : browse[b] # None => OnePerInstance(browse[b].results)
    /\ blocked => running # None

\* Searches are freed by the tasks that asked, while the list, the timer and actions
\* in the queue point to them: whatever is used without a test is still there.
Pending == Range(queue) \cup (IF running = None THEN {} ELSE {running})
Adds(s) == \E a \in Pending : a = Action("search_add", s)
NoFreedSearch ==
    /\ IsInjective(slist)
    /\ \A s \in Range(slist) : search[s] # None /\ ~Adds(s)
    /\ \A s \in Range(scan) : Contains(slist, s)
    /\ \A s \in Searches : Adds(s) => search[s] # None

\* A search is finished when its time is over or it has enough, never by an action
\* that was meant for another search at the same address.
EndsRightly == \A s \in Searches : search[s] # None => search[s].ended # "early"

\* A search collects no more results than it was asked for.
MaxRespected ==
    \A s \in Searches : search[s] # None /\ search[s].max # 0 => Len(search[s].results) <= search[s].max

\* Every search that is used is there, as it was made and no longer than it may get
\* (mdns_querier.c, the list, the timer's walk and the actions in the queue).
SearchInv == TypeOK /\ NoFreedSearch /\ MaxRespected

\* An address in a result is one its host has been announced with.  A search that
\* matches no host names (A and ANY) may also hold what has been announced for the name
\* it asks for or for a host of our own: it may be left in "found" by the record before.
Announced(host, ip) ==
    \E p \in Packets : \E r \in Range(p) : r.type = "A" /\ r.name = host /\ r.data = ip
AnnouncedAsOwn(ip) ==
    \E p \in Packets : \E r \in Range(p) : r.type = "A" /\ IsOwn(r) /\ r.data = ip
AddressesBelong ==
    \A s \in Searches : search[s] # None =>
      \A e \in Range(search[s].results) : \A ip \in e.addr :
        \/ Announced(e.host, ip)
        \/ search[s].type \in {"A", "ANY"} /\ (Announced(search[s].name, ip) \/ AnnouncedAsOwn(ip))

\* When nothing is left to do the application has been told of every instance in the
\* cache of a browse as it is, but for its TXT items, unless the notice of its last
\* change found the queue full or was freed with a packet that was cut.
AtRest == queue = <<>> /\ running = None /\ ~undefined
BrowseInStep ==
    AtRest => \A b \in Range(blist) :
      {k \in told[b] : k.inst \notin lost[b]} =
      {Seen(e) : e \in {f \in Range(browse[b].results) : f.inst \notin lost[b]}}

\* A query returns to the caller that waits for it, unless the service task has come
\* to a stop (see BrowseSync).
QueryAnswered ==
    \A s \in Searches : (search[s] # None /\ ~search[s].async)
                           ~> (search[s] = None \/ blocked \/ undefined)

\* Every change in the cache of a browse is delivered: the task gets done with a notice
\* (mdns_browser.c: "Invokes the notifier once per changed result accumulated for the
\* current packet").
Delivering == running # None /\ running.type = "browse_sync"
DeliveryEnds == Delivering ~> ~Delivering
=============================================================================
