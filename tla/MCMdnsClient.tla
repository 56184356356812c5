---------------------------- MODULE MCMdnsClient ----------------------------
(* Two instances, ia and ib, of a service on two hosts, an instance ic of another    *)
(* service that our own responder has too and another host claims, and our host ho. *)
EXTENDS MdnsClient
CONSTANTS ia, ib, hx, hy, ho, http, ipp, ic, txt1, ip1, ip2, ip3
R(type, name, svc, data, ttl) == [type |-> type, name |-> name, svc |-> svc, data |-> data, ttl |-> ttl]
Ptr(i, ttl) == R("PTR", None, http, i, ttl)
Srv(i, h, ttl) == R("SRV", i, http, h, ttl)
Addr(h, ip) == R("A", h, None, ip, 1)
Txt(i) == R("TXT", i, http, txt1, 2)
\* The address first, as some responders order it.
PacketsOf == { <<Ptr(ia, 2), Addr(hx, ip1), Srv(ia, hx, 1), Txt(ia)>>,
               <<Srv(ib, hy, 1), Addr(hy, ip2)>>,
               <<Addr(hx, ip1), Txt(ib), Srv(ib, hx, 1)>> }
Goodbye == <<Ptr(ia, 0)>>
Conflict == <<Srv(ia, hx, 1), R("TXT", ic, ipp, txt1, 1)>>
\* Records that cannot be read, each before an address of our own, and one that ends the packet.
Cut == <<Srv(ib, hx, 2), Addr(ho, ip3), Addr(hx, None), Addr(ho, ip3), Srv(ia, None, 2),
         R("BAD", None, None, None, 0)>>
AllPackets == PacketsOf \cup {Goodbye, Conflict, Cut}
OwnOf == {<<None, ipp>>, <<ic, ipp>>, <<ho, None>>}
Q(type, name, svc, max, async) == [type |-> type, name |-> name, svc |-> svc, max |-> max, async |-> async]
QueriesOf == {Q("PTR", None, http, 1, FALSE), Q("PTR", None, http, 0, TRUE), Q("A", hx, None, 1, TRUE),
              Q("ANY", ib, http, 0, TRUE)}
=============================================================================
