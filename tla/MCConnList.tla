------------------------------ MODULE MCConnList ------------------------------
EXTENDS ConnList, TLC

(* Addresses, keys and sockets are interchangeable. *)
Symmetry == Permutations(Addrs) \cup Permutations(Keys) \cup Permutations(OFDs)
===============================================================================
