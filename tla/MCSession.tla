------------------------------ MODULE MCSession ------------------------------
(* Instances of Session for TLC. *)
EXTENDS Session, TLC

(* Connections are interchangeable, and so are the remote's streams. *)
Symmetry == Permutations(Deplexers) \cup Permutations(RemoteIds)
=============================================================================
