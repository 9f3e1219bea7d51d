----------------------------- MODULE ServiceProofs ----------------------------
(***************************************************************************)
(* The daemon and its clients implement the abstract service: every step   *)
(* of theirs is a step of SocketService, or changes nothing in it.  Then   *)
(* what remains when the daemon has ended: the processes it had served     *)
(* still share one socket for each tuple.                                  *)
(***************************************************************************)
EXTENDS SharedSocketsProofs

None == [k \in Keys |-> NoFD]
Held == [c \in Clients |-> HeldOf(c)]

(* What the mapping needs of the inductive invariant. *)
LEMMA HeldFacts ==
    ASSUME Inv
    PROVE  /\ tableS \in [Keys -> FDOrNone]
           /\ \A c \in Clients : HeldOf(c) \in [Keys -> FDOrNone] /\ sock[c] \in [Keys -> FDOrNone]
           /\ Held \in [Clients -> [Keys -> FDOrNone]]
<1>1. tableS \in [Keys -> FDOrNone] /\ sock \in [Clients -> [Keys -> FDOrNone]]
  BY DEF Inv, TypeOK, DaemonTypeOK, ClientTypeOK
<1>2. None \in [Keys -> FDOrNone]
  BY DEF None, FDOrNone
<1>3. QED BY <1>1, <1>2 DEF HeldOf, Held, None

(* A step that leaves the links and the sockets alone leaves Held alone. *)
LEMMA HeldStable ==
    ASSUME UNCHANGED <<up, epoch, alive, conn, sock>>
    PROVE  Held' = Held
  BY DEF Held, HeldOf, Linked

(* A step of one client changes what is held by that client only. *)
LEMMA HeldOfOne ==
    ASSUME Inv, NEW c \in Clients, UNCHANGED <<up, epoch>>,
           \A d \in Clients \ {c} :
               (d \in alive' <=> d \in alive) /\ conn'[d] = conn[d] /\ sock'[d] = sock[d]
    PROVE  Held' = [Held EXCEPT ![c] = HeldOf(c)']
<1>1. \A d \in Clients \ {c} : HeldOf(d)' = HeldOf(d)
  BY DEF HeldOf, Linked
<1>2. QED BY <1>1 DEF Held

(* The daemon takes a request. *)
LEMMA ServeRequest ==
    ASSUME Inv, Next, HandleRequest(Free), UNCHANGED clientVars
    PROVE  Service!Next \/ UNCHANGED <<tableS, Held>>
<1>1. TypeOK /\ tableS \in [Keys -> FDOrNone]
  BY HeldFacts DEF Inv
<1>2. PICK d \in Clients, k \in Keys, open \in BOOLEAN : Handles(d, k, open)
  BY <1>1, Handled
<1>3. Held' = Held /\ up'
  BY <1>2, HeldStable DEF Handles, clientVars
<1>4. CASE UNCHANGED tableS
  BY <1>3, <1>4
<1>5. ASSUME NEW o \in Free, OpenSocketConnection(k, o) PROVE Service!Next
  <2>1. tableS[k] = NoFD /\ tableS' = [tableS EXCEPT ![k] = o]
    BY <1>5 DEF OpenSocketConnection, Found
  <2>2. o \in OFDs /\ \A j \in Keys : tableS[j] # o
    BY DEF Free, Live
  <2>3. Service!Provide(k, o)
    BY <1>3, <2>1, <2>2 DEF Service!Provide, Held
  <2>4. QED BY <2>2, <2>3 DEF Service!Next
<1>6. CASE CloseSocketConnection(k) /\ refcount[k] = 1
  <2>1. tableS[k] # NoFD /\ tableS' = [tableS EXCEPT ![k] = NoFD] /\ tableS'[k] = NoFD
    BY <1>1, <1>6 DEF CloseSocketConnection, Found
  <2>2. \A c \in Clients : HeldOf(c)[k] = NoFD
    BY <1>3, <2>1, TeardownStep DEF HeldOf
  <2>3. Service!Withdraw(k)
    BY <1>3, <2>1, <2>2 DEF Service!Withdraw, Held
  <2>4. QED BY <2>3 DEF Service!Next
<1>7. CASE CloseSocketConnection(k) /\ refcount[k] # 1
  <2>1. tableS' = tableS
    BY <1>1, <1>7 DEF CloseSocketConnection
  <2>2. QED BY <1>3, <2>1
<1>8. QED BY <1>2, <1>4, <1>5, <1>6, <1>7 DEF Handles, FoundOpen, OpenSocketError, NoSuchSocket

(* The daemon ends or starts: it serves nobody before the first call. *)
LEMMA ServeRestart ==
    ASSUME Inv, DaemonExit \/ DaemonStart, UNCHANGED clientVars
    PROVE  Service!Next \/ UNCHANGED <<tableS, Held>>
<1>1. CASE DaemonExit
  <2>1. Held' = [c \in Clients |-> None] /\ tableS' = None
    BY <1>1 DEF DaemonExit, Held, HeldOf, Linked, None
  <2>2. Service!Restart
    BY <2>1 DEF Service!Restart, Service!Nothing, Held, None
  <2>3. QED BY <2>2 DEF Service!Next
<1>2. CASE DaemonStart
  <2>1. epoch \in Nat /\ \A c \in Clients : conn[c] \in Nat /\ conn[c] <= epoch
    BY BoundsAssumption DEF Inv, TypeOK, ClientTypeOK, ConnInv
  <2>2. \A c \in Clients : ~Linked(c) /\ ~Linked(c)'
    BY <1>2, <2>1 DEF DaemonStart, Linked, clientVars
  <2>3. Held' = Held /\ tableS' = tableS
    BY <1>2, <2>2 DEF Held, HeldOf, DaemonStart, daemonVars
  <2>4. QED BY <2>3
<1>3. QED BY <1>1, <1>2

(* A call begins: a process that connects to the daemon has nothing open. *)
LEMMA ServeOpen ==
    ASSUME Inv, NEW c \in Clients, NEW k \in Keys, OpenShared(c, k)
    PROVE  Held' = Held
<1>1. /\ UNCHANGED <<up, epoch, alive, sock>>
      /\ conn' = [conn EXCEPT ![c] = IF @ = 0 THEN epoch ELSE @]
      /\ conn[c] # 0 \/ up
  BY DEF OpenShared, BeginRequest, SetupDaemonCommunication, kernelVars
<1>2. conn \in [Clients -> 0..MaxEpoch] /\ sock \in [Clients -> [Keys -> FDOrNone]]
  BY DEF Inv, TypeOK, ClientTypeOK
<1>3. HeldOf(c)' = HeldOf(c)
  <2>1. CASE conn[c] # 0
    BY <1>1, <1>2, <2>1 DEF HeldOf, Linked
  <2>2. CASE conn[c] = 0
    <3>1. sock[c] = None
      BY <1>2, <2>2 DEF Inv, ConnInv, None
    <3>2. QED BY <1>1, <3>1 DEF HeldOf, None
  <2>3. QED BY <2>1, <2>2
<1>4. \A d \in Clients \ {c} : HeldOf(d)' = HeldOf(d)
  BY <1>1, <1>2 DEF HeldOf, Linked
<1>5. QED BY <1>3, <1>4 DEF Held

(* A close gives the socket up before the daemon hears of it. *)
LEMMA ServeClose ==
    ASSUME Inv, NEW c \in Clients, NEW k \in Keys, CloseShared(c, k), UNCHANGED tableS
    PROVE  Service!Next \/ UNCHANGED <<tableS, Held>>
<1>1. conn[c] # 0 /\ sock \in [Clients -> [Keys -> FDOrNone]] /\ conn \in [Clients -> 0..MaxEpoch]
  BY DEF Inv, ConnInv, CloseShared, TypeOK, ClientTypeOK
<1>2. UNCHANGED <<up, epoch, alive, conn>> /\ sock' = [sock EXCEPT ![c][k] = NoFD]
  BY <1>1 DEF CloseShared, BeginRequest, SetupDaemonCommunication, kernelVars
<1>3. Held' = [Held EXCEPT ![c] = HeldOf(c)']
  BY <1>1, <1>2, HeldOfOne
<1>4. CASE Linked(c)
  <2>1. Held[c] = sock[c] /\ HeldOf(c)' = [sock[c] EXCEPT ![k] = NoFD]
    BY <1>1, <1>2, <1>4 DEF Held, HeldOf, Linked
  <2>2. Held' = [Held EXCEPT ![c][k] = NoFD]
    BY <1>3, <2>1
  <2>3. Service!Leave(c, k)
    BY <2>2 DEF Service!Leave, Held
  <2>4. QED BY <2>3 DEF Service!Next
<1>5. CASE ~Linked(c)
  <2>1. HeldOf(c)' = Held[c]
    BY <1>2, <1>5 DEF Held, HeldOf, Linked
  <2>2. QED BY <1>3, <2>1 DEF Held
<1>6. QED BY <1>4, <1>5

(* The descriptor that receiveFD gets is that of the node. *)
LEMMA ServeReceive ==
    ASSUME Inv, NEW c \in Clients, ReceiveFD(c), UNCHANGED tableS
    PROVE  Service!Next \/ UNCHANGED <<tableS, Held>>
<1> DEFINE k == req[c].key
           o == Head(box[c]).fd
<1>1. /\ sock \in [Clients -> [Keys -> FDOrNone]] /\ k \in Keys
      /\ c \in alive /\ pc[c] = "recvfd" /\ box[c] # << >> /\ box[c] \in Seq(Datagram)
  BY DEF Inv, TypeOK, ClientTypeOK, ReceiveFD
<1>2. UNCHANGED <<up, epoch, alive, conn>> /\ sock' = [sock EXCEPT ![c][k] = o] /\ o # NoFD
  BY DEF ReceiveFD
<1>3. Held' = [Held EXCEPT ![c] = HeldOf(c)']
  BY <1>1, <1>2, HeldOfOne
<1>4. CASE Linked(c)
  <2>1. 1 \in DOMAIN box[c] /\ o = box[c][1].fd
    BY <1>1, HeadTail
  <2>2. o = tableS[k]
    <3>1. FDLast(c, box[c], OutTo(c))
      BY <1>1 DEF Inv, ReplyInv, ReplyTo
    <3>2. QED BY <1>2, <1>4, <2>1, <3>1 DEF FDLast
  <2>3. sock[c][k] = NoFD
    BY <1>1 DEF Inv, CallInv
  <2>4. Held[c] = sock[c] /\ HeldOf(c)' = [sock[c] EXCEPT ![k] = tableS[k]]
    BY <1>1, <1>2, <1>4, <2>2 DEF Held, HeldOf, Linked
  <2>5. Held' = [Held EXCEPT ![c][k] = tableS[k]]
    BY <1>3, <2>4
  <2>6. Service!Join(c, k)
    BY <1>2, <2>2, <2>3, <2>4, <2>5 DEF Service!Join, Held
  <2>7. QED BY <1>1, <2>6 DEF Service!Next
<1>5. CASE ~Linked(c)
  <2>1. HeldOf(c)' = Held[c]
    BY <1>2, <1>5 DEF Held, HeldOf, Linked
  <2>2. QED BY <1>3, <2>1 DEF Held
<1>6. QED BY <1>4, <1>5

(* A process that ends gives up all it has. *)
LEMMA ServeExit ==
    ASSUME Inv, NEW c \in Clients, ProcessEnds(c), UNCHANGED tableS
    PROVE  Service!Next
<1>1. conn \in [Clients -> 0..MaxEpoch] /\ sock \in [Clients -> [Keys -> FDOrNone]]
  BY DEF Inv, TypeOK, ClientTypeOK
<1>2. Held' = [Held EXCEPT ![c] = HeldOf(c)']
  BY <1>1, HeldOfOne DEF ProcessEnds
<1>3. HeldOf(c)' = None
  BY DEF ProcessEnds, HeldOf, Linked, None
<1>4. Service!LeaveAll(c)
  BY <1>2, <1>3 DEF Service!LeaveAll, Service!Nothing, Held, None
<1>5. QED BY <1>4 DEF Service!Next

(* Every step of the detailed specification is one of the abstract one. *)
LEMMA ServiceStep ==
    ASSUME "interrupt" \notin Faults, Inv, [Next]_vars
    PROVE  [Service!Next]_(Service!vars)
<1>0. SUFFICES Service!Next \/ UNCHANGED <<tableS, Held>>
  BY DEF Service!vars, Held
<1>1. CASE UNCHANGED vars
  BY <1>1, HeldStable DEF vars, kernelVars, daemonVars, clientVars
<1>2. CASE DaemonNext
  <2>1. UNCHANGED clientVars
    BY <1>2 DEF DaemonNext
  <2>2. CASE HandleRequest(Free)
    BY <1>2, <2>1, <2>2, ServeRequest DEF Next
  <2>3. CASE SendReply \/ SendReplyFails
    BY <2>1, <2>3, HeldStable DEF SendReply, SendReplyFails, kernelVars, clientVars
  <2>4. CASE DaemonExit \/ DaemonStart
    BY <2>1, <2>4, ServeRestart
  <2>5. QED BY <1>2, <2>2, <2>3, <2>4 DEF DaemonNext
<1>3. ASSUME NEW c \in Clients, ClientNext(c)
      PROVE  Service!Next \/ UNCHANGED <<tableS, Held>>
  <2>1. UNCHANGED tableS
    BY <1>3 DEF ClientNext, daemonVars
  <2>2. CASE ClientCall(c)
    <3>1. PICK k \in Keys :
             \/ OpenShared(c, k) \/ OpenSharedNoDaemon(c, k) \/ CloseShared(c, k)
             \/ \E o \in Free : OpenPrivate(c, k, o)
             \/ ClosePrivate(c, k)
      BY <2>2 DEF ClientCall
    <3>2. CASE OpenShared(c, k)
      BY <2>1, <3>2, ServeOpen
    <3>3. CASE CloseShared(c, k)
      BY <2>1, <3>3, ServeClose
    <3>4. CASE OpenSharedNoDaemon(c, k) \/ ClosePrivate(c, k)
      BY <2>1, <3>4, HeldStable DEF OpenSharedNoDaemon, ClosePrivate, kernelVars, clientVars
    <3>5. CASE \E o \in Free : OpenPrivate(c, k, o)
      BY <2>1, <3>5, HeldStable DEF OpenPrivate
    <3>6. QED BY <3>1, <3>2, <3>3, <3>4, <3>5
  <2>3. CASE ReceiveFD(c)
    BY <2>1, <2>3, ServeReceive
  <2>4. CASE ReceiveFDNoControlMessage(c) \/ ClientExit(c)
    BY <2>1, <2>4, ServeExit DEF ReceiveFDNoControlMessage, ClientExit
  <2>5. CASE Send(c) \/ SendRefused(c) \/ RecvResponseCode(c) \/ Interrupted(c)
    BY <2>1, <2>5, HeldStable DEF Send, SendRefused, RecvResponseCode, Interrupted, kernelVars
  <2>6. QED BY <1>3, <2>2, <2>3, <2>4, <2>5 DEF ClientNext, ClientProgress
<1>4. QED BY <1>1, <1>2, <1>3 DEF Next

(***************************************************************************)
(* The daemon and its clients implement SocketService, with any number of  *)
(* processes, tuples and sockets, over ends and restarts of the daemon and *)
(* of clients and failing sends: one socket for each tuple, the same for   *)
(* all, and kept while somebody that the daemon serves has it.             *)
(***************************************************************************)
THEOREM ServiceTheorem ==
    ASSUME "interrupt" \notin Faults
    PROVE  Spec => ImplementsService
<1>1. Init => Service!Init
  BY DEF Init, DaemonInit, ClientInit, HeldOf, Service!Init, Service!Nothing
<1>2. Inv /\ [Next]_vars => [Service!Next]_(Service!vars)
  BY ServiceStep
<1>3. QED BY InvTheorem, <1>1, <1>2, PTL DEF Spec, ImplementsService, Service!Spec

-------------------------------------------------------------------------------
(* c has the socket o open for k, or a descriptor of it has arrived. *)
Gets(c, k, o) ==
    /\ o # NoFD
    /\ \/ sock[c][k] = o
       \/ /\ c \in alive /\ pc[c] \in {"recv", "recvfd"} /\ req[c].key = k
          /\ \E i \in DOMAIN box[c] : box[c][i].fd = o

(* The processes that one incarnation served get one socket for each tuple; *)
(* a process that has ended is connected to none.                           *)
PeersInv ==
    /\ \A c, d \in Clients, k \in Keys, o, p \in OFDs :
          conn[c] = conn[d] /\ Gets(c, k, o) /\ Gets(d, k, p) => o = p
    /\ \A c \in Clients : c \notin alive => conn[c] = 0

(* A process that the daemon serves gets the socket of the node. *)
ServedInv ==
    \A c \in Clients, k \in Keys, o \in OFDs : Linked(c) /\ Gets(c, k, o) => o = tableS[k]

LEMMA ServedGets == Inv => ServedInv
<1> SUFFICES ASSUME Inv, NEW c \in Clients, NEW k \in Keys, NEW o \in OFDs,
                    Linked(c), Gets(c, k, o)
             PROVE  o = tableS[k]
  BY DEF ServedInv
<1>1. CASE sock[c][k] = o
  BY <1>1 DEF Gets, Inv, SharersShareOneSocket
<1>2. CASE sock[c][k] # o
  <2>1. /\ c \in alive /\ pc[c] \in {"recv", "recvfd"} /\ req[c].key = k /\ o # NoFD
        /\ \E i \in DOMAIN box[c] : box[c][i].fd = o
    BY <1>2 DEF Gets
  <2>2. FDLast(c, box[c], OutTo(c))
    BY <2>1 DEF Inv, ReplyInv, ReplyTo
  <2>3. QED BY <2>1, <2>2 DEF FDLast
<1>3. QED BY <1>1, <1>2

(* A process that the daemon is about to answer is served by it. *)
LEMMA AnsweredIsServed ==
    ASSUME Inv, caddr \in alive, up, out # << >>
    PROVE  Linked(caddr)
<1>1. /\ pc \in [Clients -> {"idle", "send", "recv", "recvfd"}] /\ caddr \in Clients
      /\ out \in Seq(Datagram)
  BY DEF Inv, TypeOK, ClientTypeOK, DaemonTypeOK
<1>2. OutTo(caddr) = out
  BY DEF OutTo
<1>3. pc[caddr] \in {"recv", "recvfd"}
  BY <1>1, <1>2 DEF Inv, QuietInv
<1>4. 1 \in DOMAIN out
  BY <1>1, HeadTail
<1>5. QED BY <1>2, <1>3, <1>4 DEF Inv, ReplyInv, ReplyTo, Linked

(* A step leaves alone what matters for c and what it gets. *)
LEMMA GetsUnchanged ==
    ASSUME NEW c \in Clients, c \in alive' => c \in alive,
           UNCHANGED <<pc[c], req[c], conn[c], sock[c], box[c]>>
    PROVE  \A k, o : Gets(c, k, o)' => Gets(c, k, o)
  BY DEF Gets

(* So does one after which c waits for nothing and has no socket more. *)
LEMMA GetsNoMore ==
    ASSUME NEW c \in Clients, c \in alive' => pc'[c] \in {"idle", "send"},
           \A k \in Keys : sock'[c][k] \in {sock[c][k], NoFD}
    PROVE  \A k \in Keys : \A o : Gets(c, k, o)' => Gets(c, k, o)
  BY DEF Gets

(* Once the daemon that c is connected to has ended, c gets nothing new. *)
LEMMA OldGets ==
    ASSUME "interrupt" \notin Faults, Inv, [Next]_vars, NEW c \in Clients, c \in alive', ~Linked(c)'
    PROVE  /\ conn'[c] = conn[c] /\ c \in alive
           /\ \A k \in Keys : \A o : Gets(c, k, o)' => Gets(c, k, o)
<1> DEFINE Kept == /\ conn'[c] = conn[c] /\ c \in alive
                   /\ \A k \in Keys : \A o : Gets(c, k, o)' => Gets(c, k, o)
<1>0. TypeOK /\ ConnInv
  BY DEF Inv
<1>1. ASSUME UNCHANGED <<alive, pc[c], req[c], conn[c], sock[c], box[c]>> PROVE Kept
  BY <1>1, GetsUnchanged
<1>2. CASE UNCHANGED vars
  BY <1>1, <1>2 DEF vars, kernelVars, clientVars
<1>3. CASE DaemonNext
  <2>1. UNCHANGED clientVars
    BY <1>3 DEF DaemonNext
  <2>2. CASE HandleRequest(Free)
    BY <1>1, <2>1, <2>2 DEF HandleRequest, clientVars
  <2>3. CASE SendReply
    <3>1. /\ up /\ out # << >> /\ caddr \in alive /\ UNCHANGED <<up, epoch, alive>>
          /\ box' = [box EXCEPT ![caddr] = Append(@, Head(out))]
      BY <2>3 DEF SendReply
    <3>2. c # caddr
      BY <2>1, <3>1, AnsweredIsServed DEF Linked, clientVars
    <3>3. box'[c] = box[c]
      BY <1>0, <3>1, <3>2 DEF TypeOK
    <3>4. QED BY <1>1, <2>1, <3>1, <3>3 DEF clientVars
  <2>4. CASE SendReplyFails \/ DaemonExit \/ DaemonStart
    BY <1>1, <2>1, <2>4 DEF SendReplyFails, DaemonExit, DaemonStart, kernelVars, clientVars
  <2>5. QED BY <1>3, <2>2, <2>3, <2>4 DEF DaemonNext
<1>4. ASSUME NEW d \in Clients, d # c, ClientNext(d) PROVE Kept
  <2>1. /\ pc'[c] = pc[c] /\ req'[c] = req[c] /\ conn'[c] = conn[c]
        /\ sock'[c] = sock[c] /\ box'[c] = box[c] /\ c \in alive
    <3> USE DEF TypeOK, ClientTypeOK
    <3>1. CASE ClientCall(d)
      BY <1>0, <1>4, <3>1 DEF ClientCall, OpenShared, OpenSharedNoDaemon, CloseShared, OpenPrivate,
         ClosePrivate, BeginRequest, SetupDaemonCommunication, kernelVars, clientVars
    <3>2. CASE Send(d) \/ SendRefused(d) \/ RecvResponseCode(d) \/ ReceiveFD(d)
      BY <1>0, <1>4, <3>2 DEF Send, SendRefused, RecvResponseCode, ReceiveFD, Return, kernelVars
    <3>3. CASE ProcessEnds(d)
      BY <1>0, <1>4, <3>3 DEF ProcessEnds
    <3>4. ~Interrupted(d)
      BY DEF Interrupted
    <3>5. QED BY <1>4, <3>1, <3>2, <3>3, <3>4
       DEF ClientNext, ClientProgress, ReceiveFDNoControlMessage, ClientExit
  <2>2. QED BY <2>1, GetsUnchanged
<1>5. CASE ClientNext(c)
  <2> USE DEF TypeOK, ClientTypeOK
  <2>1. ASSUME NEW k \in Keys, OpenShared(c, k) \/ CloseShared(c, k) PROVE Kept
    <3>1. /\ SetupDaemonCommunication(c) /\ pc' = [pc EXCEPT ![c] = "send"]
          /\ UNCHANGED kernelVars /\ c \in alive
      BY <2>1 DEF OpenShared, CloseShared, BeginRequest
    <3>2. sock' = sock \/ sock' = [sock EXCEPT ![c][k] = NoFD]
      BY <2>1 DEF OpenShared, CloseShared
    <3>3. conn'[c] = conn[c]
      BY <1>0, <3>1 DEF SetupDaemonCommunication, Linked, kernelVars
    <3>4. pc'[c] = "send" /\ \A j \in Keys : sock'[c][j] \in {sock[c][j], NoFD}
      BY <1>0, <3>1, <3>2
    <3>5. QED BY <3>1, <3>3, <3>4, GetsNoMore
  <2>2. ASSUME NEW k \in Keys, OpenSharedNoDaemon(c, k) \/ ClosePrivate(c, k)
                               \/ \E o \in Free : OpenPrivate(c, k, o)
        PROVE  Kept
    BY <1>1, <2>2 DEF OpenSharedNoDaemon, ClosePrivate, OpenPrivate, kernelVars, clientVars
  <2>3. ~Send(c)
    BY DEF Send, Linked
  <2>4. CASE SendRefused(c)
    <3>1. pc'[c] = "idle" /\ c \in alive /\ UNCHANGED <<conn, sock>>
      BY <1>0, <2>4 DEF SendRefused, Return
    <3>2. QED BY <3>1, GetsNoMore
  <2>5. ASSUME pc[c] \in {"recv", "recvfd"}, box[c] # << >>, c \in alive,
               box' = [box EXCEPT ![c] = Tail(@)], UNCHANGED <<req, conn>>,
               \A k \in Keys : sock'[c][k] = sock[c][k]
                               \/ (k = req[c].key /\ sock'[c][k] = Head(box[c]).fd)
        PROVE  Kept
    <3>1. box[c] \in Seq(Datagram) /\ box'[c] = Tail(box[c])
      BY <1>0, <2>5
    <3>2. 1 \in DOMAIN box[c] /\ Head(box[c]) = box[c][1]
      BY <2>5, <3>1, HeadTail
    <3>3. \A i \in DOMAIN Tail(box[c]) : i + 1 \in DOMAIN box[c] /\ Tail(box[c])[i] = box[c][i + 1]
      BY <2>5, <3>1, HeadTail
    <3>4. QED BY <2>5, <3>1, <3>2, <3>3 DEF Gets
  <2>6. CASE RecvResponseCode(c)
    BY <2>5, <2>6 DEF RecvResponseCode
  <2>7. CASE ReceiveFD(c)
    <3>1. /\ pc[c] = "recvfd" /\ box[c] # << >> /\ c \in alive
          /\ box' = [box EXCEPT ![c] = Tail(@)] /\ UNCHANGED <<req, conn>>
          /\ sock' = [sock EXCEPT ![c][req[c].key] = Head(box[c]).fd]
      BY <2>7 DEF ReceiveFD
    <3>2. \A k \in Keys : sock'[c][k] = sock[c][k]
                          \/ (k = req[c].key /\ sock'[c][k] = Head(box[c]).fd)
      BY <1>0, <3>1
    <3>3. QED BY <2>5, <3>1, <3>2
  <2>8. ~ProcessEnds(c) /\ ~Interrupted(c)
    BY DEF ProcessEnds, Interrupted
  <2>9. QED BY <1>5, <2>1, <2>2, <2>3, <2>4, <2>6, <2>7, <2>8
     DEF ClientNext, ClientCall, ClientProgress, ReceiveFDNoControlMessage, ClientExit
<1>6. QED BY <1>2, <1>3, <1>4, <1>5 DEF Next

(* A process that has ended is connected to nothing, and has nothing. *)
LEMMA EndedStep ==
    ASSUME Inv, PeersInv, [Next]_vars, NEW c \in Clients, c \notin alive'
    PROVE  conn'[c] = 0
<1>0. conn \in [Clients -> 0..MaxEpoch]
  BY DEF Inv, TypeOK, ClientTypeOK
<1>1. CASE UNCHANGED vars
  BY <1>1 DEF vars, kernelVars, clientVars, PeersInv
<1>2. CASE DaemonNext
  BY <1>2 DEF DaemonNext, HandleRequest, SendReply, SendReplyFails, DaemonExit, DaemonStart,
     kernelVars, clientVars, PeersInv
<1>3. ASSUME NEW d \in Clients, ClientNext(d) PROVE conn'[c] = 0
  <2>1. CASE ProcessEnds(d)
    BY <1>0, <2>1 DEF ProcessEnds, PeersInv
  <2>2. CASE ClientCall(d)
    BY <1>0, <2>2 DEF ClientCall, OpenShared, OpenSharedNoDaemon, CloseShared, OpenPrivate,
       ClosePrivate, BeginRequest, SetupDaemonCommunication, kernelVars, clientVars, PeersInv
  <2>3. CASE Send(d) \/ SendRefused(d) \/ RecvResponseCode(d) \/ ReceiveFD(d) \/ Interrupted(d)
    BY <2>3 DEF Send, SendRefused, RecvResponseCode, ReceiveFD, Interrupted, Return,
       kernelVars, PeersInv
  <2>4. QED BY <1>3, <2>1, <2>2, <2>3
     DEF ClientNext, ClientProgress, ReceiveFDNoControlMessage, ClientExit
<1>4. QED BY <1>1, <1>2, <1>3 DEF Next

LEMMA PeersStep ==
    ASSUME "interrupt" \notin Faults, Inv, PeersInv, [Next]_vars
    PROVE  PeersInv'
<1>1. Inv'
  BY InvStep
<1>2. ServedInv'
  BY <1>1, ServedGets, PTL
<1>3. \A c \in Clients : c \notin alive' => conn'[c] = 0
  BY EndedStep
<1>4. ASSUME NEW c \in Clients, NEW d \in Clients, NEW k \in Keys, NEW o \in OFDs, NEW p \in OFDs,
             conn'[c] = conn'[d], Gets(c, k, o)', Gets(d, k, p)'
      PROVE  o = p
  <2>1. /\ up' => epoch' # 0
        /\ \A e \in Clients : conn'[e] = 0 => pc'[e] = "idle" /\ sock'[e][k] = NoFD
    BY <1>1 DEF Inv, ConnInv
  <2>2. c \in alive' /\ d \in alive'
    BY <1>3, <1>4, <2>1 DEF Gets
  <2>3. CASE Linked(c)'
    <3>1. Linked(d)'
      BY <1>4, <2>2, <2>3 DEF Linked
    <3>2. o = tableS'[k] /\ p = tableS'[k]
      BY <1>2, <1>4, <2>3, <3>1 DEF ServedInv
    <3>3. QED BY <3>2
  <2>4. CASE ~Linked(c)'
    <3>1. ~Linked(d)'
      BY <1>4, <2>2, <2>4 DEF Linked
    <3>2. conn[c] = conn[d] /\ Gets(c, k, o) /\ Gets(d, k, p)
      BY <1>4, <2>2, <2>4, <3>1, OldGets
    <3>3. QED BY <3>2 DEF PeersInv
  <2>5. QED BY <2>3, <2>4
<1>5. QED BY <1>3, <1>4 DEF PeersInv

(***************************************************************************)
(* The processes that one incarnation of the daemon served have one socket *)
(* for each tuple, also when it has ended and another one serves others.   *)
(***************************************************************************)
THEOREM IncarnationTheorem ==
    ASSUME "interrupt" \notin Faults
    PROVE  Spec => []OneSocketPerIncarnation
<1>1. Init => PeersInv
  BY DEF Init, ClientInit, PeersInv, Gets
<1>2. Inv /\ PeersInv /\ [Next]_vars => Inv' /\ PeersInv'
  BY InvStep, PeersStep
<1>3. Inv /\ PeersInv => OneSocketPerIncarnation
  <2> SUFFICES ASSUME Inv, PeersInv, NEW c \in Clients, NEW d \in Clients, NEW k \in Keys,
                      conn[c] = conn[d], sock[c][k] # NoFD, sock[d][k] # NoFD
               PROVE  sock[c][k] = sock[d][k]
    BY DEF OneSocketPerIncarnation
  <2>1. sock[c][k] \in OFDs /\ sock[d][k] \in OFDs
    BY DEF Inv, TypeOK, ClientTypeOK, FDOrNone
  <2>2. Gets(c, k, sock[c][k]) /\ Gets(d, k, sock[d][k])
    BY DEF Gets
  <2>3. QED BY <2>1, <2>2 DEF PeersInv
<1>4. QED BY InvInit, <1>1, <1>2, <1>3, PTL DEF Spec
===============================================================================
