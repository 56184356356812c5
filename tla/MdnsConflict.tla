----------------------------- MODULE MdnsConflict -----------------------------
(***************************************************************************)
(* Several monitors on one network, each announcing itself under the same  *)
(* names (wifi_manager.c: mdns_start): their probes and announcements      *)
(* cross on the wire, are lost or come in another order than they were     *)
(* sent, a monitor is switched off and on again, and the probing and the   *)
(* conflict rules of the library must leave every one of them with names   *)
(* of its own.                                                             *)
(*                                                                         *)
(* Time is discrete: a tick passes only when nothing is due and nothing is *)
(* on the wire, for a probe waits 250 ms and a packet crosses a WiFi       *)
(* network in a few.  What happens within a tick happens in any order.     *)
(***************************************************************************)
EXTENDS MdnsReceive

CONSTANTS Nodes,       \* the monitors
          Ip,          \* Ip[n]: the address of a monitor, a number
          MaxLoss,     \* deliveries that are lost
          MaxRestarts  \* monitors that are switched off and on

VARIABLES node,      \* node[n]: the mDNS server of a monitor
          phase,     \* how far its mdns_start has come
          wire,      \* wire[n]: the packets on their way to it
          lost, restarts,
          probed     \* probed[n]: probes sent since its names last changed

vars == <<node, phase, wire, lost, restarts, probed>>

Itf == CHOOSE i \in Itfs : TRUE
Proto == CHOOSE p \in Protos : TRUE
B == <<Itf, Proto>>
Svc == CHOOSE s \in Svcs : TRUE

Hostname == <<1, 1>>      \* "tinyguard-monitor"
Instance == <<2, 1>>      \* "TinyGuard Dashboard"
HttpPort == 1
Done == 4                 \* mdns_start has made all its calls

Fresh(n) == [Server([i \in Itfs |-> Ip[n]], [i \in Itfs |-> None]) EXCEPT !.up = Itfs]

Unprobed == [host |-> 0, inst |-> 0]

Names(st) == [host |-> st.host, inst |-> IF st.srvs = <<>> THEN None ELSE InstanceName(st, Svc)]

Init == /\ node = [n \in Nodes |-> Fresh(n)]
        /\ phase = [n \in Nodes |-> 0]
        /\ wire = [n \in Nodes |-> <<>>]
        /\ lost = 0 /\ restarts = 0
        /\ probed = [n \in Nodes |-> Unprobed]

\* The packets of a step that reach another monitor; "backed" is how often their
\* sender had probed for its names when it sent them.
Reaching(n, out, backed) ==
    LET for == SelectSeq(out, LAMBDA m : m.dst \in {Group, Ip[n]})
    IN  [i \in DOMAIN for |-> [for[i] EXCEPT !.pcb = B] @@ [backed |-> backed]]

\* Probes for a name, counted up to the three it takes.
ProbedFor(out, name) ==
    Len(SelectSeq(out, LAMBDA m : ~m.auth /\ \E i \in DOMAIN m.qs : m.qs[i].host = name))
Count(count, new, out, name) ==
    IF new THEN 0 ELSE IF count + ProbedFor(out, name) > 3 THEN 3 ELSE count + ProbedFor(out, name)

\* A step of one monitor's server: what it sends joins what is on the wire.
Step(n, st, onWire) ==
    LET was == Names(node[n])
        is  == Names(st)
    IN  /\ node' = [node EXCEPT ![n] = [st EXCEPT !.out = <<>>]]
        /\ probed' = [probed EXCEPT
             ![n].host = Count(@, is.host # was.host, st.out, is.host),
             ![n].inst = Count(@, is.inst # was.inst, st.out, is.inst)]
        /\ wire' = [k \in Nodes |-> IF k = n THEN onWire[k]
                                    ELSE onWire[k] \o Reaching(k, st.out, probed[n] @@ [of |-> was])]

\* mdns_start, one call after the other.
Call(n, k, st) ==
    /\ phase[n] = k
    /\ phase' = [phase EXCEPT ![n] = k + 1]
    /\ Step(n, st, wire)
    /\ UNCHANGED <<lost, restarts>>

MdnsInit(n) == Call(n, 0, PcbEnable(node[n], B))
SetHostname(n) == Call(n, 1, HostnameSet(node[n], Hostname))
SetInstance(n) == Call(n, 2, InstanceSet(node[n], Instance))
AddHttp(n) == Call(n, 3, ServiceAdd(node[n], Svc, None, "http", None, HttpPort))

\* The timer finds the head of the queue due and the service task sends it.
Due(n) == node[n].tx # <<>> /\ Head(node[n].tx).at = Now
Transmit(n) ==
    /\ Due(n)
    /\ LET st == [node[n] EXCEPT !.tx[1].queued = TRUE]
       IN  Step(n, SendPacket(st, Head(st.tx).id), wire)
    /\ UNCHANGED <<phase, lost, restarts>>

Receive(n) ==
    /\ wire[n] # <<>> /\ phase[n] > 0
    /\ Step(n, ParsePacket(node[n], Head(wire[n])), [wire EXCEPT ![n] = Tail(@)])
    /\ UNCHANGED <<phase, lost, restarts>>

\* Nobody hears it: the packet is lost, or the monitor has no socket yet.
Lose(n) ==
    /\ wire[n] # <<>>
    /\ phase[n] = 0 \/ lost < MaxLoss
    /\ lost' = IF phase[n] = 0 THEN lost ELSE lost + 1
    /\ wire' = [wire EXCEPT ![n] = Tail(@)]
    /\ UNCHANGED <<node, phase, restarts, probed>>

\* The packet behind comes first; one of the faults that are counted.
Overtake(n) ==
    /\ Len(wire[n]) > 1
    /\ lost < MaxLoss /\ lost' = lost + 1
    /\ wire' = [wire EXCEPT ![n] = <<@[2], @[1]>> \o SubSeq(@, 3, Len(@))]
    /\ UNCHANGED <<node, phase, restarts, probed>>

Restart(n) ==
    /\ phase[n] > 0 /\ restarts < MaxRestarts
    /\ restarts' = restarts + 1
    /\ node' = [node EXCEPT ![n] = Fresh(n)]
    /\ phase' = [phase EXCEPT ![n] = 0]
    /\ probed' = [probed EXCEPT ![n] = Unprobed]
    /\ UNCHANGED <<wire, lost>>

Idle == \A n \in Nodes : wire[n] = <<>> /\ ~Due(n)
Tick ==
    /\ Idle
    /\ \E n \in Nodes : node[n].tx # <<>>
    /\ node' = [n \in Nodes |-> Elapse(node[n])]
    /\ UNCHANGED <<phase, wire, lost, restarts, probed>>

Settled == /\ \A n \in Nodes : phase[n] = Done /\ node[n].tx = <<>> /\ wire[n] = <<>>
Stop == Settled /\ UNCHANGED vars

Start(n) == MdnsInit(n) \/ SetHostname(n) \/ SetInstance(n) \/ AddHttp(n)
Next == \/ \E n \in Nodes : \/ Start(n) \/ Transmit(n) \/ Receive(n)
                            \/ Lose(n) \/ Overtake(n) \/ Restart(n)
        \/ Tick \/ Stop

\* Something happens as long as anything is left to do: the tasks of a monitor,
\* the network and the clock are never all held up for good.  (Weak fairness of
\* Next but for the faults, in the form that is cheap to check.)
Fairness == []<>Settled \/ []<><<TRUE>>_vars
Spec == Init /\ [][Next]_vars /\ Fairness

-----------------------------------------------------------------------------
\* A pcb is in one of the states of mdns_pcb_state_t, what a monitor sends is on the wire
\* before anything else happens, and losses and restarts keep to their bounds.
TypeOK ==
    /\ \A n \in Nodes : /\ node[n].pcb[B].state \in Off .. Running
                        /\ node[n].out = <<>>
                        /\ phase[n] \in 0 .. Done
                        /\ probed[n] \in [host : 0 .. 3, inst : 0 .. 3]
    /\ lost \in 0 .. MaxLoss /\ restarts \in 0 .. MaxRestarts

\* When everything has come to rest no two monitors have the same host name,
\* and no two announce their service under the same instance name.
DistinctWhenSettled ==
    Settled => \A n, k \in Nodes : n # k =>
                 /\ node[n].host # node[k].host
                 /\ InstanceName(node[n], Svc) # InstanceName(node[k], Svc)

\* A monitor says that a name is its own, in an announcement or in an answer,
\* only after it has probed three times under the names it has by then.
ClaimIsBacked(m, r) ==
    r.ttl > 0 => /\ r.type = "A" /\ r.name = m.backed.of.host => m.backed.host = 3
                 /\ r.type = "SRV" /\ r.name = m.backed.of.inst => m.backed.inst = 3
ProbedBeforeClaimed ==
    \A n \in Nodes : \A i \in DOMAIN wire[n] :
       LET m == wire[n][i]
       IN  m.auth => \A r \in Range(m.answers) : ClaimIsBacked(m, r)

\* What monitors claim, in the states they can be in.
ClaimsInv == TypeOK /\ ProbedBeforeClaimed

\* It comes to rest: monitors that take names from each other stop doing so.
EventuallySettled == <>[]Settled
=============================================================================
