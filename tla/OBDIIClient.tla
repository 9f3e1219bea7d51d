----------------------------- MODULE OBDIIClient ------------------------------
(***************************************************************************)
(* The part of the communication layer that opens and closes sockets:      *)
(* OBDIIOpenSocket, OBDIICloseSocket and requestRemoteSocket, run by every *)
(* client process.  A process has at most one OBDIISocket per key at a     *)
(* time and closes each one it opened at most once.                        *)
(***************************************************************************)
EXTENDS DaemonProtocol

VARIABLES
    pc,     \* where in requestRemoteSocket the process is; "idle": in no call
    req,    \* the request it makes: open or close, and the key
    conn,   \* daemonSocket: incarnation it is connected to, 0 if it is -1
    sock,   \* sock[c][k]: descriptor of c's open shared OBDIISocket for k
    priv,   \* priv[c][k]: descriptor of c's open unshared OBDIISocket for k
    fds     \* fds[c]: the OFDs that descriptors of process c refer to

clientVars == <<pc, req, conn, sock, priv, fds>>

ClientTypeOK ==
    /\ pc \in [Clients -> {"idle", "send", "recv", "recvfd"}]
    /\ req \in [Clients -> [open: BOOLEAN, key: Keys]]
    /\ conn \in [Clients -> 0..MaxEpoch]
    /\ sock \in [Clients -> [Keys -> FDOrNone]]
    /\ priv \in [Clients -> [Keys -> FDOrNone]]
    /\ fds \in [Clients -> SUBSET OFDs]

ClientInit ==
    /\ pc = [c \in Clients |-> "idle"]
    /\ req \in [Clients -> [open: {FALSE}, key: Keys]]
    /\ \A c, d \in Clients : req[c] = req[d]
    /\ conn = [c \in Clients |-> 0]
    /\ sock = [c \in Clients |-> [k \in Keys |-> NoFD]]
    /\ priv = [c \in Clients |-> [k \in Keys |-> NoFD]]
    /\ fds = [c \in Clients |-> {}]

NotOpen(c, k) == sock[c][k] = NoFD /\ priv[c][k] = NoFD

-------------------------------------------------------------------------------
(* A bug: each request connects anew, whatever sockets are open still. *)
SetupReconnects(c) ==
    /\ up
    /\ conn' = [conn EXCEPT ![c] = epoch]

(***************************************************************************)
(* setupDaemonCommunication: the socket is connected once per process and  *)
(* kept in the static daemonSocket, whatever becomes of the daemon.        *)
(***************************************************************************)
SetupDaemonCommunication(c) ==
    /\ conn[c] # 0 \/ up
    /\ conn' = [conn EXCEPT ![c] = IF @ = 0 THEN epoch ELSE @]

(* The request of requestRemoteSocket, as far as the call to send. *)
BeginRequest(c, open, k) ==
    /\ SetupDaemonCommunication(c)
    /\ pc' = [pc EXCEPT ![c] = "send"]
    /\ req' = [req EXCEPT ![c] = [open |-> open, key |-> k]]

(* OBDIIOpenSocket with shared = 1 *)
OpenShared(c, k) ==
    /\ c \in alive /\ pc[c] = "idle" /\ NotOpen(c, k)
    /\ BeginRequest(c, TRUE, k)
    /\ UNCHANGED <<kernelVars, sock, priv, fds>>

(* The same when no daemon runs: connect fails, the call returns -1. *)
OpenSharedNoDaemon(c, k) ==
    /\ c \in alive /\ pc[c] = "idle" /\ NotOpen(c, k)
    /\ conn[c] = 0 /\ ~up
    /\ UNCHANGED <<kernelVars, clientVars>>

(* OBDIICloseSocket of a shared socket.  The descriptor stays open. *)
CloseShared(c, k) ==
    /\ c \in alive /\ pc[c] = "idle" /\ sock[c][k] # NoFD
    /\ BeginRequest(c, FALSE, k)
    /\ sock' = [sock EXCEPT ![c][k] = NoFD]
    /\ UNCHANGED <<kernelVars, priv, fds>>

(* OBDIIOpenSocket with shared = 0: socket and bind in the process. *)
OpenPrivate(c, k, o) ==
    /\ c \in alive /\ pc[c] = "idle" /\ NotOpen(c, k)
    /\ priv' = [priv EXCEPT ![c][k] = o]
    /\ fds' = [fds EXCEPT ![c] = @ \cup {o}]
    /\ bound' = [bound EXCEPT ![o] = k]
    /\ UNCHANGED <<up, epoch, inbox, box, alive, pc, req, conn, sock>>

(* OBDIICloseSocket of an unshared socket *)
ClosePrivate(c, k) ==
    /\ c \in alive /\ pc[c] = "idle" /\ priv[c][k] # NoFD
    /\ priv' = [priv EXCEPT ![c][k] = NoFD]
    /\ fds' = [fds EXCEPT ![c] = @ \ {priv[c][k]}]
    /\ UNCHANGED <<kernelVars, pc, req, conn, sock>>

-------------------------------------------------------------------------------
(* Does c's daemonSocket lead to the daemon that runs now? *)
Linked(c) == c \in alive /\ up /\ conn[c] = epoch

Return(c) == pc' = [pc EXCEPT ![c] = "idle"]

(* send: blocks while the daemon's queue is full. *)
Send(c) ==
    /\ c \in alive /\ pc[c] = "send" /\ Linked(c)
    /\ Len(inbox) < QLen
    /\ inbox' = Append(inbox, [from |-> c, open |-> req[c].open, key |-> req[c].key])
    /\ pc' = [pc EXCEPT ![c] = "recv"]
    /\ UNCHANGED <<up, epoch, box, alive, bound, req, conn, sock, priv, fds>>

(* The daemon that daemonSocket is connected to is gone: send returns -1. *)
SendRefused(c) ==
    /\ c \in alive /\ pc[c] = "send" /\ ~Linked(c)
    /\ Return(c)
    /\ UNCHANGED <<kernelVars, req, conn, sock, priv, fds>>

(* A bug: the call returns before the descriptor has been received. *)
RecvLeavesFD(c) ==
    /\ c \in alive /\ pc[c] = "recv" /\ box[c] # << >>
    /\ box' = [box EXCEPT ![c] = Tail(@)]
    /\ Return(c)
    /\ UNCHANGED <<up, epoch, inbox, alive, bound, req, conn, sock, priv, fds>>

(* recv of the response code; anything but Success ends the call. *)
RecvResponseCode(c) ==
    /\ c \in alive /\ pc[c] = "recv" /\ box[c] # << >>
    /\ box' = [box EXCEPT ![c] = Tail(@)]
    /\ pc' = [pc EXCEPT ![c] = IF Head(box[c]).code = "Success" /\ req[c].open
                               THEN "recvfd" ELSE "idle"]
    /\ UNCHANGED <<up, epoch, inbox, alive, bound, req, conn, sock, priv, fds>>

(* receiveFD: the descriptor becomes the s of the OBDIISocket. *)
ReceiveFD(c) ==
    /\ c \in alive /\ pc[c] = "recvfd" /\ box[c] # << >> /\ Head(box[c]).fd # NoFD
    /\ box' = [box EXCEPT ![c] = Tail(@)]
    /\ sock' = [sock EXCEPT ![c][req[c].key] = Head(box[c]).fd]
    /\ fds' = [fds EXCEPT ![c] = @ \cup {Head(box[c]).fd}]
    /\ Return(c)
    /\ UNCHANGED <<up, epoch, inbox, alive, bound, req, conn, priv>>

(* The process ends, and the kernel closes what it had open. *)
ProcessEnds(c) ==
    /\ alive' = alive \ {c}
    /\ box' = [box EXCEPT ![c] = << >>]
    /\ pc' = [pc EXCEPT ![c] = "idle"]
    /\ conn' = [conn EXCEPT ![c] = 0]
    /\ sock' = [sock EXCEPT ![c] = [k \in Keys |-> NoFD]]
    /\ priv' = [priv EXCEPT ![c] = [k \in Keys |-> NoFD]]
    /\ fds' = [fds EXCEPT ![c] = {}]
    /\ UNCHANGED <<up, epoch, inbox, bound, req>>

(***************************************************************************)
(* receiveFD got a datagram without a descriptor: CMSG_FIRSTHDR is NULL,   *)
(* and reading through CMSG_DATA(NULL) ends the process.                   *)
(***************************************************************************)
ReceiveFDNoControlMessage(c) ==
    /\ c \in alive /\ pc[c] = "recvfd" /\ box[c] # << >> /\ Head(box[c]).fd = NoFD
    /\ ProcessEnds(c)

(* A client that exits or is killed tells the daemon nothing. *)
ClientExit(c) ==
    /\ "clientCrash" \in Faults
    /\ c \in alive
    /\ ProcessEnds(c)

(* A signal ends a call that blocks: send or recv returns -1 with EINTR. *)
Interrupted(c) ==
    /\ "interrupt" \in Faults
    /\ c \in alive
    /\ \/ pc[c] = "send" /\ Linked(c) /\ Len(inbox) >= QLen
       \/ pc[c] \in {"recv", "recvfd"} /\ box[c] = << >>
    /\ Return(c)
    /\ UNCHANGED <<kernelVars, req, conn, sock, priv, fds>>
===============================================================================
