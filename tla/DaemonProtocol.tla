---------------------------- MODULE DaemonProtocol ----------------------------
(***************************************************************************)
(* What obdiid (OBDIIDaemon.c) and the communication layer that calls it   *)
(* (OBDIICommunication.c) share: the datagrams of the protocol and the     *)
(* kernel state behind the Unix datagram sockets and the ISO-TP sockets.   *)
(*                                                                         *)
(* A key stands for an (interface index, transfer ID, receive ID) tuple.   *)
(* An OFD is an open file description, the kernel object behind an ISO-TP  *)
(* socket: descriptors passed with SCM_RIGHTS refer to the same OFD.       *)
(***************************************************************************)
EXTENDS Naturals, Sequences, FiniteSets

CONSTANTS
    Clients,   \* processes that use the communication layer
    Keys,      \* (ifindex, tid, rid) tuples
    OFDs,      \* ISO-TP sockets the kernel can hold open at one time
    NoFD,      \* no descriptor
    QLen,      \* datagrams a Unix socket queues before a sender blocks
    MaxEpoch,  \* bound: incarnations of the daemon
    MaxRefs,   \* bound: references to one key
    Faults     \* the faults a run allows

FaultKinds == {"clientCrash", "daemonCrash", "sendFails", "interrupt"}

ASSUME ClientsAssumption == IsFiniteSet(Clients)
ASSUME NoFDAssumption == NoFD \notin OFDs
ASSUME BoundsAssumption == /\ QLen \in Nat \ {0}
                           /\ MaxEpoch \in Nat \ {0}
                           /\ MaxRefs \in Nat
ASSUME FaultsAssumption == Faults \subseteq FaultKinds

VARIABLES
    up,      \* is the daemon process running?
    epoch,   \* number of its incarnation; each one binds a new socket
    inbox,   \* requests queued at /tmp/obdiid.sock
    box,     \* box[c]: datagrams queued at c's socket, /tmp/obdii.<pid>
    alive,   \* the client processes that still run
    bound    \* bound[o]: the key the ISO-TP socket o was last bound to

kernelVars == <<up, epoch, inbox, box, alive, bound>>

-------------------------------------------------------------------------------
ResponseCodes == {"Success", "NoSuchSocket", "OpenSocketError"}

FDOrNone == OFDs \cup {NoFD}

Request == [from: Clients, open: BOOLEAN, key: Keys]

(***************************************************************************)
(* A reply is either the two bytes of a response code, or a datagram       *)
(* without data that carries one descriptor: a reader that asks for a code *)
(* and gets the second kind reads zero bytes, modelled as code "none".     *)
(***************************************************************************)
Datagram == [code: ResponseCodes \cup {"none"}, fd: FDOrNone]

CodeMsg(code) == [code |-> code, fd |-> NoFD]
FDMsg(o) == [code |-> "none", fd |-> o]
===============================================================================
