--------------------------- MODULE MCPeerRegistry ---------------------------
(***************************************************************************)
(* Small instances of PeerRegistry for TLC.  Names that do not match, the  *)
(* addresses of records and clients are interchangeable.                   *)
(***************************************************************************)
EXTENDS PeerRegistry, TLC

RegistrySymmetry == Permutations(Matching) \cup Permutations(Records)
                        \cup Permutations(Clients)
=============================================================================
