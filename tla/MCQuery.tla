------------------------------- MODULE MCQuery --------------------------------
(* Query with a few commands of OBDII.c. *)
EXTENDS Query, TLC

(* Equal lengths, equal PIDs in two modes, no PID, no decoder. *)
MixedCommands ==
    {c \in OBDIICommands : \/ c.mode = 1 /\ c.pid \in {2, 12}
                           \/ c.mode = 3
                           \/ c.mode = 9 /\ c.pid \in {1, 2}}

(* The vehicle speed *)
OneCommand == {c \in OBDIICommands : c.mode = 1 /\ c.pid = 13}

(* The processes that share the socket are interchangeable. *)
Symmetry == Permutations(Procs)
===============================================================================
