----------------------------- MODULE MCDiscovery -----------------------------
(***************************************************************************)
(* Small instances of Discovery for TLC: a service on two links whose name *)
(* is also offered under another type.                                      *)
(***************************************************************************)
EXTENDS Discovery

CONSTANTS n1, t1, t2, l1, l2

On(n, t, l) == [name |-> n, type |-> t, link |-> l]

TwoLinksTwoTypes == {On(n1, t1, l1), On(n1, t1, l2), On(n1, t2, l1)}
=============================================================================
