---------------------------- MODULE MdnsResponder ----------------------------
(***************************************************************************)
(* What the application asks of the mDNS responder (mdns_responder.c): the *)
(* host and instance names, the services, their ports, TXT items and       *)
(* subtypes, and the hosts it answers for.  Each operator is one call made *)
(* under the service lock, or one action the service task runs; a call     *)
(* that is refused leaves the server as it is.  The _for_host variants are *)
(* the calls; the others pass NULL for what they leave out.                *)
(***************************************************************************)
EXTENDS MdnsPcb

CONSTANT MaxServices   \* CONFIG_MDNS_MAX_SERVICES

Host(st, host) == IF host = None THEN st.host ELSE host
Free(st) == Svcs \ {st.srvs[i] : i \in DOMAIN st.srvs}
NoInstance(st) == Without(st.srvs, {s \in Svcs : st.svc[s].inst # None})
Find(st, inst, type, host) == GetServiceItemInstance(st, inst, type, Host(st, host))

SendByeNoInstance(st, include_ip) ==
    IF NoInstance(st) = <<>> THEN st ELSE SendByeService(st, NoInstance(st), include_ip)

RestartAllPcbsNoInstance(st) ==
    IF NoInstance(st) = <<>> THEN st ELSE ProbeAllPcbs(st, NoInstance(st), FALSE, TRUE)

RestartAllPcbs(st) == ProbeAllPcbs(ClearTxQueue(st), st.srvs, TRUE, TRUE)

RemapSelfServiceHostname(st, old, new) ==
    [st EXCEPT !.svc = [s \in Svcs |->
       IF s \notin Free(st) /\ @[s].host = old THEN [@[s] EXCEPT !.host = new] ELSE @[s]]]

SetGlobalHostname(st, new) == [RemapSelfServiceHostname(st, st.host, new) EXCEPT !.host = new]

-----------------------------------------------------------------------------
(* The names: actions of the service task. *)

HostnameSet(st, name) == RestartAllPcbs(SetGlobalHostname(SendByeNoInstance(st, TRUE), name))

InstanceSet(st, name) ==
    RestartAllPcbsNoInstance([SendByeNoInstance(st, FALSE) EXCEPT !.inst = name])

DelegateHostnameAdd(st, name, addr) ==
    IF HostnameIsOurs(st, name) THEN st
    ELSE [st EXCEPT !.hosts = <<[name |-> name, addr |-> addr]>> \o @]

DelegateHostnameSetAddress(st, name, addr) ==
    [st EXCEPT !.hosts = [i \in DOMAIN @ |->
       IF name # st.host /\ @[i].name = name THEN [@[i] EXCEPT !.addr = addr] ELSE @[i]]]

-----------------------------------------------------------------------------
(* Services. *)

\* What is common to all the ways a service goes.  Its strings go with it: a question
\* that still points to them, because another was taken out in its place or because it
\* asks for a host's name, is left with pointers to nothing.
Unlink(st, s) == [st EXCEPT !.srvs = Without(@, {s})]
FreeStrings(q, s) == IF q.of = s THEN [q EXCEPT !.of = Freed] ELSE q
FreeIn(p, s) == [p EXCEPT !.qs = [j \in DOMAIN p.qs |-> FreeStrings(p.qs[j], s)]]
FreeService(st, s) ==
    [st EXCEPT !.svc[s] = NoService, !.tx = [i \in DOMAIN st.tx |-> FreeIn(st.tx[i], s)]]
\* Mutant: the packets still refer to the service.
DiscardKeepsPackets(st, s) == FreeService(st, s)
Discard(st, s) == FreeService(RemoveScheduledServicePackets(st, s), s)

\* delegate_hostname_remove: the services of the host go with it; they say
\* goodbye and are taken out of the packets before they leave the list.
DelegateHostnameRemove(st, name) ==
    LET gone == Without(st.srvs, {s \in Svcs : st.svc[s].host # name})
        rest == FoldLeft(LAMBDA x, s :
                  FreeService(Unlink(RemoveScheduledServicePackets(SendByeService(x, <<s>>, FALSE), s), s), s),
                  st, gone)
    IN  [rest EXCEPT !.hosts = Without(@, {h \in Range(@) : h.name = name})]

CanAddMoreServices(st) == Len(st.srvs) < MaxServices

\* mdns_service_add_for_host; s is the address the new service is allocated at.
ServiceAdd(st, s, inst, type, host, port) ==
    IF st.host = None \/ ~CanAddMoreServices(st) \/ Find(st, inst, type, host) # None
    THEN st
    ELSE ProbeAllPcbs(
           [st EXCEPT !.srvs = <<s>> \o @,
                      !.svc[s] = [inst |-> inst, type |-> type, host |-> Host(st, host),
                                  port |-> port, txt |-> {}, subs |-> {}]],
           <<s>>, FALSE, FALSE)

\* Something of a service that was found is set, and the change announced.
Changed(st, s, include_ip, Set(_)) ==
    IF s = None THEN st
    ELSE AnnounceAllPcbs([st EXCEPT !.svc[s] = Set(@)], <<s>>, include_ip)

ServicePortSet(st, inst, type, host, port) ==
    Changed(st, Find(st, inst, type, host), TRUE, LAMBDA v : [v EXCEPT !.port = port])

ServiceTxtSet(st, inst, type, host, items) ==
    Changed(st, Find(st, inst, type, host), FALSE, LAMBDA v : [v EXCEPT !.txt = items])

\* A TXT item is a pair of a key and a value; a key occurs once.
ServiceTxtItemSet(st, inst, type, host, key, value) ==
    Changed(st, Find(st, inst, type, host), FALSE,
      LAMBDA v : [v EXCEPT !.txt = {x \in @ : x[1] # key} \cup {<<key, value>>}])

\* Nothing is announced when the service had no items at all.
ServiceTxtItemRemove(st, inst, type, host, key) ==
    LET s == Find(st, inst, type, host)
    IN  IF s # None /\ st.svc[s].txt = {} THEN st
        ELSE Changed(st, s, FALSE, LAMBDA v : [v EXCEPT !.txt = {x \in @ : x[1] # key}])

\* Here a host that is not given stays NULL: any host matches.
FindAnyHost(st, inst, type, host) == GetServiceItemInstance(st, inst, type, host)

ServiceSubtypeRemove(st, inst, type, host, sub) ==
    LET s == FindAnyHost(st, inst, type, host)
    IN  IF s = None \/ (s # None /\ sub \notin st.svc[s].subs) THEN st
        ELSE SendByeSubtype([st EXCEPT !.svc[s].subs = @ \ {sub}], s, inst, {sub})

\* The subtypes are added one by one; one that is there already stops the call
\* after those before it were added, and nothing is announced.
AddSubtypes(subs, new) ==
    FoldLeft(LAMBDA r, x : IF r.ok /\ x \notin r.subs
                           THEN [r EXCEPT !.subs = @ \cup {x}] ELSE [r EXCEPT !.ok = FALSE],
             [subs |-> subs, ok |-> TRUE], new)

ServiceSubtypeAdd(st, inst, type, host, new) ==
    LET s == FindAnyHost(st, inst, type, host)
        r == AddSubtypes(st.svc[s].subs, new)
    IN  IF s = None \/ new = <<>> THEN st
        ELSE IF r.ok THEN Changed(st, s, FALSE, LAMBDA v : [v EXCEPT !.subs = r.subs])
        ELSE [st EXCEPT !.svc[s].subs = r.subs]

\* The subtypes that are not in the update are said goodbye to.
ServiceSubtypeUpdate(st, inst, type, host, new) ==
    LET s    == FindAnyHost(st, inst, type, host)
        gone == st.svc[s].subs \ {new[i] : i \in DOMAIN new}
        bye  == IF gone = {} THEN st ELSE SendByeSubtype(st, s, inst, gone)
        r    == AddSubtypes({}, new)
        set  == [bye EXCEPT !.svc[s].subs = r.subs]
    IN  IF s = None THEN st
        ELSE IF r.ok /\ new # <<>> THEN AnnounceAllPcbs(set, <<s>>, FALSE) ELSE set

\* mdns_service_instance_name_set_for_host: goodbye to the old name, if it had one.
ServiceInstanceNameSet(st, old, type, host, inst) ==
    LET s   == Find(st, old, type, host)
        bye == IF st.svc[s].inst = None THEN st ELSE SendByeService(st, <<s>>, FALSE)
    IN  IF s = None THEN st
        ELSE ProbeAllPcbs([bye EXCEPT !.svc[s].inst = inst], <<s>>, FALSE, FALSE)

\* Mutant: the service goes without a goodbye.
ServiceRemoveSilent(st, inst, type, host) ==
    LET s == Find(st, inst, type, host)
    IN  IF s = None THEN st ELSE Discard(Unlink(st, s), s)

ServiceRemove(st, inst, type, host) ==
    LET s == Find(st, inst, type, host)
    IN  IF s = None THEN st ELSE Discard(SendByeService(Unlink(st, s), <<s>>, FALSE), s)

ServiceRemoveAll(st) ==
    IF st.srvs = <<>> THEN st
    ELSE FoldLeft(Discard, [SendByeService(st, st.srvs, FALSE) EXCEPT !.srvs = <<>>], st.srvs)
=============================================================================
