---------------------------- MODULE SocketService -----------------------------
(***************************************************************************)
(* What obdiid promises the processes it serves, without its messages and  *)
(* counts: there is at most one socket for a tuple, all who have the tuple *)
(* open have that socket, and it stays while anybody has it.               *)
(***************************************************************************)
CONSTANTS Clients, Keys, OFDs, NoFD

VARIABLES
    socket,   \* socket[k]: the socket that is shared for k, NoFD if there is none
    held      \* held[c][k]: the socket c has for k, NoFD if it has none

vars == <<socket, held>>

Nothing == [k \in Keys |-> NoFD]

Init ==
    /\ socket = Nothing
    /\ held = [c \in Clients |-> Nothing]

Provide(k, o) ==
    /\ socket[k] = NoFD
    /\ \A j \in Keys : socket[j] # o
    /\ socket' = [socket EXCEPT ![k] = o]
    /\ UNCHANGED held

Join(c, k) ==
    /\ socket[k] # NoFD /\ held[c][k] = NoFD
    /\ held' = [held EXCEPT ![c][k] = socket[k]]
    /\ UNCHANGED socket

Leave(c, k) ==
    /\ held' = [held EXCEPT ![c][k] = NoFD]
    /\ UNCHANGED socket

(* A process ends. *)
LeaveAll(c) ==
    /\ held' = [held EXCEPT ![c] = Nothing]
    /\ UNCHANGED socket

Withdraw(k) ==
    /\ \A c \in Clients : held[c][k] = NoFD
    /\ socket' = [socket EXCEPT ![k] = NoFD]
    /\ UNCHANGED held

(* The daemon ends, and with it the sharing. *)
Restart ==
    /\ socket' = Nothing
    /\ held' = [c \in Clients |-> Nothing]

Next ==
    \/ \E k \in Keys, o \in OFDs : Provide(k, o)
    \/ \E c \in Clients, k \in Keys : Join(c, k) \/ Leave(c, k)
    \/ \E c \in Clients : LeaveAll(c)
    \/ \E k \in Keys : Withdraw(k)
    \/ Restart

Spec == Init /\ [][Next]_vars
===============================================================================
