-------------------------------- MODULE MCWire --------------------------------
(***************************************************************************)
(* Wire with an 11-bit ECU, another on an interface whose number takes two *)
(* bytes, and the Honda of README.md with its 29-bit IDs, which have       *)
(* CAN_EFF_FLAG set.                                                       *)
(***************************************************************************)
EXTENDS Wire

engine == [ifindex |-> <<0, 3>>, tid |-> <<0, 2016>>, rid |-> <<0, 2024>>]
other  == [ifindex |-> <<0, 258>>, tid |-> <<0, 2017>>, rid |-> <<0, 2025>>]

(* 0x98DB33F1 and 0x98DAF110 *)
honda  == [ifindex |-> <<0, 3>>, tid |-> <<39131, 13297>>, rid |-> <<39130, 61712>>]

AllTuples == {engine, other, honda}
HondaOnly == {honda}
===============================================================================
