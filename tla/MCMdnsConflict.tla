--------------------------- MODULE MCMdnsConflict ---------------------------
(* Two monitors, the second with the higher address. *)
EXTENDS MdnsConflict
CONSTANTS n1, n2
IpOf == n1 :> 1 @@ n2 :> 2
=============================================================================
