---------------------------- MODULE MCMdnsService ----------------------------
(* One interface, two services at most. *)
EXTENDS MdnsService
CONSTANT sta
NetOf == [ip |-> [i \in Itfs |-> 1], twin |-> [i \in Itfs |-> None]]
HostnamesOf == {<<1, 1>>, <<2, 1>>}
InstsOf == {None, <<5, 1>>, <<6, 1>>}
ItemsOf == {<<"key", 1>>}
SubsOf == {<<7, 1>>}
AsksOf == {<<Question("PTR", None, "http", None, FALSE)>>}
=============================================================================
