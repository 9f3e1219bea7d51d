---------------------------- MODULE SharedSockets -----------------------------
(***************************************************************************)
(* obdiid and the processes that open and close sockets through it.        *)
(***************************************************************************)
EXTENDS OBDIIDaemon, OBDIIClient

vars == <<kernelVars, daemonVars, clientVars>>

(***************************************************************************)
(* The ISO-TP sockets some descriptor refers to: the daemon's, those of    *)
(* the clients, and those in flight in a datagram.  An OFD outside this    *)
(* set has been released, with its binding, and the kernel may reuse it.   *)
(***************************************************************************)
InFlight(c) == {box[c][i].fd : i \in DOMAIN box[c]}

Live == {tableS[k] : k \in Keys} \cup UNION {fds[c] \cup InFlight(c) : c \in Clients}

Free == OFDs \ Live

Init ==
    /\ up = FALSE
    /\ epoch = 0
    /\ inbox = << >>
    /\ box = [c \in Clients |-> << >>]
    /\ alive = Clients
    /\ bound \in [OFDs -> Keys]
    /\ \A o, p \in OFDs : bound[o] = bound[p]
    /\ DaemonInit
    /\ ClientInit

DaemonNext ==
    /\ \/ HandleRequest(Free)
       \/ SendReply
       \/ SendReplyFails
       \/ DaemonExit
       \/ DaemonStart
    /\ UNCHANGED clientVars

ClientCall(c) ==
    \E k \in Keys :
        \/ refcount[k] < MaxRefs /\ OpenShared(c, k)
        \/ OpenSharedNoDaemon(c, k)
        \/ CloseShared(c, k)
        \/ \E o \in Free : OpenPrivate(c, k, o)
        \/ ClosePrivate(c, k)

ClientProgress(c) ==
    \/ Send(c)
    \/ SendRefused(c)
    \/ RecvResponseCode(c)
    \/ ReceiveFD(c)
    \/ ReceiveFDNoControlMessage(c)

ClientNext(c) ==
    /\ \/ ClientCall(c)
       \/ ClientProgress(c)
       \/ ClientExit(c)
       \/ Interrupted(c)
    /\ UNCHANGED daemonVars

Next == DaemonNext \/ \E c \in Clients : ClientNext(c)

Spec == Init /\ [][Next]_vars

-------------------------------------------------------------------------------
TypeOK ==
    /\ up \in BOOLEAN
    /\ epoch \in 0..MaxEpoch
    /\ inbox \in Seq(Request)
    /\ box \in [Clients -> Seq(Datagram)]
    /\ alive \subseteq Clients
    /\ bound \in [OFDs -> Keys]
    /\ DaemonTypeOK
    /\ ClientTypeOK

(***************************************************************************)
(* Who counts as a user of k's node.  A request to close that is still in  *)
(* the queue is a use, even of a process that has ended since: when the    *)
(* daemon handles it, it gives back one reference.                         *)
(***************************************************************************)
ClosePending(c, k) ==
    \E i \in DOMAIN inbox : inbox[i] = [from |-> c, open |-> FALSE, key |-> k]

CarriesFD(msgs) == \E i \in DOMAIN msgs : msgs[i].fd # NoFD

(* The descriptor c asked for has been granted and is on its way. *)
FDOnItsWay(c, k) ==
    /\ pc[c] \in {"recv", "recvfd"}
    /\ req[c] = [open |-> TRUE, key |-> k]
    /\ CarriesFD(box[c]) \/ (caddr = c /\ CarriesFD(out))

Holds(c, k) ==
    \/ ClosePending(c, k)
    \/ /\ Linked(c)
       /\ \/ sock[c][k] # NoFD
          \/ FDOnItsWay(c, k)
          \/ pc[c] = "send" /\ req[c] = [open |-> FALSE, key |-> k]

Holders(k) == {c \in Clients : Holds(c, k)}

(***************************************************************************)
(* closeSocketConnection may tear a node down only when its last user has  *)
(* gone: whatever order opens, closes, exits and failed sends happen in,   *)
(* no user lacks a reference.                                              *)
(***************************************************************************)
RefcountCovers == \A k \in Keys : Cardinality(Holders(k)) <= refcount[k]

(***************************************************************************)
(* While no client has ended and no send fails, no reference is leaked     *)
(* either, so that the daemon's close(conn->s) does happen; a restart of   *)
(* the daemon forgets the references and the users together.               *)
(***************************************************************************)
RefcountExact ==
    alive = Clients => \A k \in Keys : Cardinality(Holders(k)) = refcount[k]

(***************************************************************************)
(* What the daemon is for: the processes it serves that have k open have   *)
(* the one socket in k's node, and so each other's.                        *)
(***************************************************************************)
SharersShareOneSocket ==
    \A c \in Clients, k \in Keys :
        Linked(c) /\ sock[c][k] # NoFD => sock[c][k] = tableS[k]

(***************************************************************************)
(* The processes whose daemonSocket leads to the same incarnation of the   *)
(* daemon have one socket for k, also when that daemon has ended, while    *)
(* its successor serves others, and while descriptors that it had sent are *)
(* still being received.                                                   *)
(***************************************************************************)
OneSocketPerIncarnation ==
    \A c, d \in Clients, k \in Keys :
        conn[c] = conn[d] /\ sock[c][k] # NoFD /\ sock[d][k] # NoFD => sock[c][k] = sock[d][k]

(***************************************************************************)
(* An OBDIISocket that OBDIIOpenSocket filled in is bound to the tuple it  *)
(* was opened for, for as long as it is open and whatever has become of    *)
(* the daemon.                                                             *)
(***************************************************************************)
RightTuple ==
    \A c \in Clients, k \in Keys :
        /\ sock[c][k] # NoFD => bound[sock[c][k]] = k
        /\ priv[c][k] # NoFD => bound[priv[c][k]] = k

(***************************************************************************)
(* receiveFD reads CMSG_DATA of the first control message without a test   *)
(* for NULL, so that the datagram it gets must carry one.                  *)
(***************************************************************************)
ControlMessagePresent ==
    \A c \in alive :
        pc[c] = "recvfd" /\ box[c] # << >> => Head(box[c]).fd # NoFD

(***************************************************************************)
(* The daemon is single-threaded, so that a send that blocks would stop    *)
(* its service to everyone: the client it answers always has room.         *)
(***************************************************************************)
DaemonNeverBlocked ==
    out # << >> /\ caddr \in alive => Len(box[caddr]) < QLen

(***************************************************************************)
(* A node of the daemon's list has a positive reference count and a socket *)
(* bound to the node's own tuple, also when clients were interrupted.      *)
(***************************************************************************)
NodesWellFormed ==
    \A k \in Keys :
        /\ tableS[k] = NoFD <=> refcount[k] = 0
        /\ tableS[k] # NoFD => bound[tableS[k]] = k

(***************************************************************************)
(* A node is torn down by the running daemon only when no process that it  *)
(* serves has the socket open any more.                                    *)
(***************************************************************************)
TeardownOnlyWhenUnused ==
    [][\A k \in Keys :
          tableS[k] # NoFD /\ tableS'[k] = NoFD /\ up' =>
              \A c \in Clients : Linked(c) => sock[c][k] = NoFD]_vars

-------------------------------------------------------------------------------
(***************************************************************************)
(* The daemon and its clients, with their requests and replies, implement  *)
(* the service: what a process that the daemon serves has open is what it  *)
(* has joined.                                                             *)
(***************************************************************************)
HeldOf(c) == IF Linked(c) THEN sock[c] ELSE [k \in Keys |-> NoFD]

Service == INSTANCE SocketService WITH
    socket <- tableS,
    held <- [c \in Clients |-> HeldOf(c)]

ImplementsService == Service!Spec

-------------------------------------------------------------------------------
(***************************************************************************)
(* The inductive invariant behind the safety properties, for clients whose *)
(* calls are not interrupted.  OutTo(c) are the datagrams on their way to  *)
(* c that the daemon has still to send.                                    *)
(***************************************************************************)
OutTo(c) == IF caddr = c THEN out ELSE << >>

(* A process in no call, or about to send, has nothing on its way to it. *)
QuietInv ==
    \A c \in alive :
        pc[c] \in {"idle", "send"} =>
            /\ box[c] = << >>
            /\ OutTo(c) = << >>
            /\ \A i \in DOMAIN inbox : inbox[i].from # c

(* A queued request is its sender's only one, and the sender awaits it. *)
QueuedInv ==
    \A i \in DOMAIN inbox :
        /\ \A j \in DOMAIN inbox : inbox[j].from = inbox[i].from => j = i
        /\ inbox[i].from \in alive =>
            /\ pc[inbox[i].from] = "recv"
            /\ req[inbox[i].from] = [open |-> inbox[i].open, key |-> inbox[i].key]
            /\ conn[inbox[i].from] = epoch
            /\ box[inbox[i].from] = << >>
            /\ OutTo(inbox[i].from) = << >>

(* The response code comes first; only that of an open has a sequel. *)
CodeFirst(c, msgs, rest) ==
    \A i \in DOMAIN msgs :
        msgs[i].fd = NoFD =>
            /\ i = 1
            /\ pc[c] = "recv"
            /\ msgs[i].code # "Success" \/ ~req[c].open => Len(msgs) = 1 /\ rest = << >>

(* The descriptor comes last, and belongs to the key that was asked for. *)
FDLast(c, msgs, rest) ==
    \A i \in DOMAIN msgs :
        msgs[i].fd # NoFD =>
            /\ i = Len(msgs) /\ rest = << >>
            /\ msgs[i].code = "none"
            /\ req[c].open
            /\ bound[msgs[i].fd] = req[c].key
            /\ Linked(c) => msgs[i].fd = tableS[req[c].key]

ReplyTo(c) ==
    /\ CodeFirst(c, box[c], OutTo(c))
    /\ CodeFirst(c, OutTo(c), << >>)
    /\ FDLast(c, box[c], OutTo(c))
    /\ FDLast(c, OutTo(c), << >>)
    /\ \A i \in DOMAIN OutTo(c) :
          /\ OutTo(c)[i].fd = NoFD => box[c] = << >>
          /\ conn[c] = epoch
    /\ pc[c] = "recvfd" => req[c].open

ReplyInv == \A c \in alive : pc[c] \in {"recv", "recvfd"} => ReplyTo(c)

(* The descriptors of open sockets are the process's, one use for each. *)
FdsInv ==
    \A c \in Clients, k \in Keys :
        /\ sock[c][k] # NoFD => sock[c][k] \in fds[c] /\ priv[c][k] = NoFD
        /\ priv[c][k] # NoFD => priv[c][k] \in fds[c]

(* The socket a call is about is not open during the call. *)
CallInv ==
    \A c \in Clients :
        pc[c] # "idle" =>
            /\ sock[c][req[c].key] = NoFD
            /\ req[c].open => priv[c][req[c].key] = NoFD

(* A process connects only to an incarnation there has been. *)
ConnInv ==
    /\ up => epoch # 0
    /\ \A c \in Clients :
        /\ conn[c] <= epoch
        /\ conn[c] = 0 => pc[c] = "idle" /\ \A k \in Keys : sock[c][k] = NoFD

(* The daemon's state goes with its process. *)
DownInv ==
    ~up => /\ inbox = << >>
           /\ out = << >>
           /\ \A k \in Keys : tableS[k] = NoFD

Inv ==
    /\ TypeOK
    /\ QuietInv
    /\ QueuedInv
    /\ ReplyInv
    /\ FdsInv
    /\ CallInv
    /\ ConnInv
    /\ DownInv
    /\ NodesWellFormed
    /\ RightTuple
    /\ RefcountCovers
    /\ SharersShareOneSocket

(***************************************************************************)
(* What a process that awaits a response code gets next is one, and not a  *)
(* descriptor: recv would take that for an empty response, the call would  *)
(* fail, and the reference would stay with nobody.                         *)
(***************************************************************************)
CodeComesFirst ==
    \A c \in alive :
        pc[c] = "recv" =>
            /\ box[c] # << >> => Head(box[c]).fd = NoFD
            /\ box[c] = << >> /\ OutTo(c) # << >> => Head(OutTo(c)).fd = NoFD

-------------------------------------------------------------------------------
(***************************************************************************)
(* The daemon's loop goes on as long as it runs; a client takes what has   *)
(* arrived for it.  Senders that wait for room in the daemon's queue are   *)
(* woken in turn by the kernel, hence strong fairness for send.            *)
(***************************************************************************)
Fairness ==
    /\ WF_vars(HandleRequest(Free) /\ UNCHANGED clientVars)
    /\ WF_vars((SendReply \/ SendReplyFails) /\ UNCHANGED clientVars)
    /\ \A c \in Clients :
        /\ SF_vars(Send(c) /\ UNCHANGED daemonVars)
        /\ WF_vars(ClientProgress(c) /\ UNCHANGED daemonVars)

FairSpec == Spec /\ Fairness

(***************************************************************************)
(* Every call of OBDIIOpenSocket and OBDIICloseSocket returns, unless the  *)
(* daemon that was asked ends: its answer would then be waited for in vain.*)
(***************************************************************************)
RequestReturns == \A c \in Clients : pc[c] # "idle" ~> pc[c] = "idle" \/ ~Linked(c)
===============================================================================
