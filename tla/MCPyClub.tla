------------------------------ MODULE MCPyClub ------------------------------
(* PyClub for TLC: connections and names are interchangeable.              *)
EXTENDS PyClub

Interchange == Permutations(Conn) \cup Permutations(Name)
=============================================================================
