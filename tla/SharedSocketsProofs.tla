-------------------------- MODULE SharedSocketsProofs -------------------------
(***************************************************************************)
(* Theorems about SharedSockets, for every set of clients, keys and open   *)
(* file descriptions and every value of the bounds.                        *)
(***************************************************************************)
EXTENDS SharedSockets, FiniteSetTheorems, SequenceTheorems, TLAPS

-------------------------------------------------------------------------------
(* What Head and Tail give of a queue of datagrams or requests. *)
LEMMA HeadTail ==
    ASSUME NEW S, NEW s \in Seq(S), s # << >>
    PROVE  /\ Head(s) \in S
           /\ 1 \in DOMAIN s /\ Head(s) = s[1]
           /\ Tail(s) \in Seq(S)
           /\ Len(s) \in Nat \ {0}
           /\ Len(Tail(s)) = Len(s) - 1
           /\ \A i \in DOMAIN Tail(s) :
                 i \in Nat \ {0} /\ i + 1 \in DOMAIN s /\ Tail(s)[i] = s[i + 1]
           /\ Len(s) = 1 => Tail(s) = << >>
<1>1. DOMAIN s = 1..Len(s) /\ Len(s) \in Nat \ {0}
  BY LenProperties, EmptySeq
<1>2. Head(s) \in S /\ Head(s) = s[1]
  BY HeadTailProperties
<1>3. /\ Tail(s) \in Seq(S) /\ Len(Tail(s)) = Len(s) - 1
      /\ \A i \in 1..Len(Tail(s)) : Tail(s)[i] = s[i + 1]
  BY HeadTailProperties
<1>4. DOMAIN Tail(s) = 1..Len(Tail(s))
  BY <1>3, LenProperties
<1>5. Tail(s) # << >> => Len(Tail(s)) \in Nat \ {0}
  BY <1>3, EmptySeq
<1>6. QED BY <1>1, <1>2, <1>3, <1>4, <1>5

(* What Append makes of a queue. *)
LEMMA AppendProps ==
    ASSUME NEW S, NEW s \in Seq(S), NEW e \in S
    PROVE  /\ Append(s, e) \in Seq(S)
           /\ Len(Append(s, e)) = Len(s) + 1
           /\ DOMAIN Append(s, e) = 1..(Len(s) + 1)
           /\ \A i \in DOMAIN s : i \in DOMAIN Append(s, e) /\ Append(s, e)[i] = s[i]
           /\ Append(s, e)[Len(s) + 1] = e
           /\ \A i \in DOMAIN Append(s, e) : i \in DOMAIN s \/ i = Len(s) + 1
  OBVIOUS

(* The datagrams that the daemon builds, and the empty queues. *)
LEMMA MessageTypes ==
    /\ << >> \in Seq(Datagram) /\ << >> \in Seq(Request)
    /\ \A code \in ResponseCodes : <<CodeMsg(code)>> \in Seq(Datagram)
    /\ \A o \in OFDs : <<CodeMsg("Success"), FDMsg(o)>> \in Seq(Datagram)
<1>1. << >> \in Seq(Datagram) /\ << >> \in Seq(Request)
  BY EmptySeq
<1>2. /\ \A code \in ResponseCodes : CodeMsg(code) \in Datagram
      /\ \A o \in OFDs : FDMsg(o) \in Datagram
      /\ "Success" \in ResponseCodes
  BY DEF CodeMsg, FDMsg, Datagram, ResponseCodes, FDOrNone
<1>3. QED BY <1>1, <1>2

-------------------------------------------------------------------------------
(* The initial state of the daemon and its clients is type correct. *)
LEMMA TypeInit == Init => TypeOK
<1> SUFFICES ASSUME Init PROVE TypeOK
  OBVIOUS
<1>1. DaemonTypeOK
  BY MessageTypes DEF Init, DaemonInit, DaemonTypeOK, FDOrNone
<1>2. ClientTypeOK
  <2>1. req \in [Clients -> [open: BOOLEAN, key: Keys]]
    BY DEF Init, ClientInit
  <2>2. conn \in [Clients -> 0..MaxEpoch]
    BY BoundsAssumption DEF Init, ClientInit
  <2>3. QED BY <2>1, <2>2 DEF Init, ClientInit, ClientTypeOK, FDOrNone
<1>3. inbox \in Seq(Request) /\ box \in [Clients -> Seq(Datagram)]
  BY MessageTypes DEF Init
<1>4. epoch \in 0..MaxEpoch /\ bound \in [OFDs -> Keys]
  BY BoundsAssumption DEF Init
<1>5. QED BY <1>1, <1>2, <1>3, <1>4 DEF Init, TypeOK

(* HandleRequest by the fields of the request it takes off the queue. *)
Handles(c, k, open) ==
    /\ Head(inbox) = [from |-> c, open |-> open, key |-> k]
    /\ inbox # << >> /\ Tail(inbox) \in Seq(Request)
    /\ up /\ out = << >> /\ inbox' = Tail(inbox) /\ caddr' = c
    /\ \/ open /\ FoundOpen(k)
       \/ open /\ \E o \in Free : OpenSocketConnection(k, o)
       \/ open /\ OpenSocketError(k)
       \/ ~open /\ CloseSocketConnection(k)
       \/ ~open /\ NoSuchSocket(k)
    /\ UNCHANGED <<up, epoch, box, alive>>

(* HandleRequest takes the first request off the queue and acts on its fields. *)
LEMMA Handled ==
    ASSUME TypeOK, HandleRequest(Free)
    PROVE  \E c \in Clients, k \in Keys, open \in BOOLEAN : Handles(c, k, open)
<1>1. inbox \in Seq(Request) /\ inbox # << >>
  BY DEF TypeOK, HandleRequest
<1>2. Head(inbox) \in Request /\ Tail(inbox) \in Seq(Request)
  BY <1>1, HeadTail
<1>3. PICK c \in Clients, k \in Keys, open \in BOOLEAN :
          Head(inbox) = [from |-> c, open |-> open, key |-> k]
  BY <1>2 DEF Request
<1>4. Head(inbox).from = c /\ Head(inbox).open = open /\ Head(inbox).key = k
  BY <1>3
<1>5. QED BY <1>1, <1>2, <1>3, <1>4 DEF HandleRequest, Handles

(* The daemon's steps keep the types; refcount stays a natural number      *)
(* because a node has a positive count.                                    *)
LEMMA TypeDaemon ==
    ASSUME TypeOK, NodesWellFormed, DaemonNext
    PROVE  TypeOK'
<1> USE DEF TypeOK, DaemonTypeOK, ClientTypeOK, Handles
<1>0. UNCHANGED <<pc, req, conn, sock, priv, fds>>
  BY DEF DaemonNext, clientVars
<1>1. CASE HandleRequest(Free)
  <2>1. PICK c \in Clients, k \in Keys, open \in BOOLEAN : Handles(c, k, open)
    BY <1>1, Handled
  <2>2. refcount[k] \in Nat /\ (Found(k) => refcount[k] \in Nat \ {0} /\ tableS[k] \in OFDs)
    BY DEF NodesWellFormed, Found, FDOrNone
  <2>3. CASE FoundOpen(k)
    <3>1. out' \in Seq(Datagram)
      BY <2>2, <2>3, MessageTypes DEF FoundOpen
    <3>2. refcount' \in [Keys -> Nat] /\ tableS' = tableS /\ bound' = bound
      BY <2>2, <2>3 DEF FoundOpen
    <3>3. QED BY <1>0, <2>1, <3>1, <3>2
  <2>4. ASSUME NEW o \in Free, OpenSocketConnection(k, o) PROVE TypeOK'
    BY <1>0, <2>1, <2>4, MessageTypes DEF OpenSocketConnection, Free, FDOrNone
  <2>5. CASE OpenSocketError(k)
    BY <1>0, <2>1, <2>5, MessageTypes DEF OpenSocketError, ResponseCodes
  <2>6. CASE CloseSocketConnection(k)
    <3>1. out' \in Seq(Datagram)
      BY <2>6, MessageTypes DEF CloseSocketConnection, ResponseCodes
    <3>2. /\ refcount' \in [Keys -> Nat] /\ bound' = bound
          /\ tableS' \in [Keys -> FDOrNone]
      BY <2>2, <2>6 DEF CloseSocketConnection, FDOrNone
    <3>3. QED BY <1>0, <2>1, <3>1, <3>2
  <2>7. CASE NoSuchSocket(k)
    BY <1>0, <2>1, <2>7, MessageTypes DEF NoSuchSocket, ResponseCodes
  <2>8. QED BY <2>1, <2>3, <2>4, <2>5, <2>6, <2>7
<1>2. CASE SendReply
  <2>1. Head(out) \in Datagram /\ Tail(out) \in Seq(Datagram)
    BY <1>2, HeadTail DEF SendReply
  <2>2. Append(box[caddr], Head(out)) \in Seq(Datagram)
    BY <2>1, AppendProps
  <2>3. QED BY <1>0, <1>2, <2>1, <2>2 DEF SendReply
<1>3. CASE SendReplyFails
  <2>1. Tail(out) \in Seq(Datagram)
    BY <1>3, HeadTail DEF SendReplyFails
  <2>2. QED BY <1>0, <1>3, <2>1 DEF SendReplyFails, kernelVars
<1>4. CASE DaemonExit
  BY <1>0, <1>4, MessageTypes DEF DaemonExit, FDOrNone
<1>5. CASE DaemonStart
  BY <1>0, <1>5, BoundsAssumption DEF DaemonStart, daemonVars
<1>6. QED BY <1>1, <1>2, <1>3, <1>4, <1>5 DEF DaemonNext

(* Every step of a client keeps the types. *)
LEMMA TypeClient ==
    ASSUME TypeOK, NEW c \in Clients, ClientNext(c)
    PROVE  TypeOK'
<1> USE DEF TypeOK, DaemonTypeOK, ClientTypeOK
<1>0. UNCHANGED <<tableS, refcount, caddr, out>>
  BY DEF ClientNext, daemonVars
<1>1. ASSUME NEW k \in Keys, OpenShared(c, k) PROVE TypeOK'
  BY <1>0, <1>1 DEF OpenShared, BeginRequest, SetupDaemonCommunication, kernelVars
<1>2. ASSUME NEW k \in Keys, OpenSharedNoDaemon(c, k) PROVE TypeOK'
  BY <1>0, <1>2 DEF OpenSharedNoDaemon, kernelVars, clientVars
<1>3. ASSUME NEW k \in Keys, CloseShared(c, k) PROVE TypeOK'
  BY <1>0, <1>3
     DEF CloseShared, BeginRequest, SetupDaemonCommunication, kernelVars, FDOrNone
<1>4. ASSUME NEW k \in Keys, NEW o \in Free, OpenPrivate(c, k, o) PROVE TypeOK'
  BY <1>0, <1>4 DEF OpenPrivate, Free, FDOrNone
<1>5. ASSUME NEW k \in Keys, ClosePrivate(c, k) PROVE TypeOK'
  BY <1>0, <1>5 DEF ClosePrivate, kernelVars, FDOrNone
<1>6. CASE Send(c)
  <2>1. [from |-> c, open |-> req[c].open, key |-> req[c].key] \in Request
    BY DEF Request
  <2>2. inbox' \in Seq(Request)
    BY <1>6, <2>1, AppendProps DEF Send
  <2>3. QED BY <1>0, <1>6, <2>2 DEF Send
<1>7. CASE SendRefused(c)
  BY <1>0, <1>7 DEF SendRefused, Return, kernelVars
<1>8. CASE RecvResponseCode(c)
  <2>1. Tail(box[c]) \in Seq(Datagram)
    BY <1>8, HeadTail DEF RecvResponseCode
  <2>2. QED BY <1>0, <1>8, <2>1 DEF RecvResponseCode
<1>9. CASE ReceiveFD(c)
  <2>1. Tail(box[c]) \in Seq(Datagram) /\ Head(box[c]) \in Datagram
    BY <1>9, HeadTail DEF ReceiveFD
  <2>2. Head(box[c]).fd \in OFDs /\ Head(box[c]).fd \in FDOrNone
    BY <1>9, <2>1 DEF ReceiveFD, Datagram, FDOrNone
  <2>3. QED BY <1>0, <1>9, <2>1, <2>2 DEF ReceiveFD, Return
<1>10. CASE ProcessEnds(c)
  <2>1. [k \in Keys |-> NoFD] \in [Keys -> FDOrNone]
    BY DEF FDOrNone
  <2>2. sock' \in [Clients -> [Keys -> FDOrNone]] /\ priv' \in [Clients -> [Keys -> FDOrNone]]
    BY <1>10, <2>1 DEF ProcessEnds
  <2>3. box' \in [Clients -> Seq(Datagram)] /\ alive' \subseteq Clients
    BY <1>10, MessageTypes DEF ProcessEnds
  <2>4. ClientTypeOK'
    BY <1>10, <2>2, BoundsAssumption DEF ProcessEnds
  <2>5. QED BY <1>0, <1>10, <2>3, <2>4 DEF ProcessEnds
<1>11. CASE Interrupted(c)
  BY <1>0, <1>11 DEF Interrupted, Return, kernelVars
<1>12. QED
  BY <1>1, <1>2, <1>3, <1>4, <1>5, <1>6, <1>7, <1>8, <1>9, <1>10, <1>11
     DEF ClientNext, ClientCall, ClientProgress, ReceiveFDNoControlMessage, ClientExit

-------------------------------------------------------------------------------
(* A socket is in use as long as some descriptor refers to it. *)
LEMMA LiveSockets ==
    ASSUME TypeOK
    PROVE  /\ \A k \in Keys : tableS[k] \in Live
           /\ \A c \in Clients : fds[c] \subseteq Live
           /\ \A c \in Clients : \A i \in DOMAIN box[c] : box[c][i].fd \in Live
  BY DEF Live, InFlight

(* Only a socket that nothing refers to is bound to another key. *)
LEMMA NodesStep ==
    ASSUME TypeOK, NodesWellFormed, [Next]_vars
    PROVE  NodesWellFormed'
<1> USE DEF TypeOK, DaemonTypeOK, NodesWellFormed
<1>1. CASE UNCHANGED vars
  BY <1>1 DEF vars, kernelVars, daemonVars
<1>2. CASE HandleRequest(Free)
  <2>1. PICK c \in Clients, k \in Keys, open \in BOOLEAN : Handles(c, k, open)
    BY <1>2, Handled
  <2>2. CASE FoundOpen(k)
    BY <2>2 DEF FoundOpen, Found
  <2>3. ASSUME NEW o \in Free, OpenSocketConnection(k, o) PROVE NodesWellFormed'
    BY <2>3, LiveSockets, NoFDAssumption DEF OpenSocketConnection, Free
  <2>4. CASE OpenSocketError(k)
    BY <2>4 DEF OpenSocketError
  <2>5. CASE CloseSocketConnection(k)
    BY <2>5 DEF CloseSocketConnection, Found
  <2>6. CASE NoSuchSocket(k)
    BY <2>6 DEF NoSuchSocket
  <2>7. QED BY <2>1, <2>2, <2>3, <2>4, <2>5, <2>6 DEF Handles
<1>3. CASE SendReply \/ SendReplyFails \/ DaemonExit \/ DaemonStart
  BY <1>3 DEF SendReply, SendReplyFails, DaemonExit, DaemonStart, kernelVars, daemonVars
<1>4. ASSUME NEW c \in Clients, ClientNext(c) PROVE NodesWellFormed'
  <2>1. UNCHANGED <<tableS, refcount>>
    BY <1>4 DEF ClientNext, daemonVars
  <2>2. UNCHANGED bound \/ \E k \in Keys, o \in Free : bound' = [bound EXCEPT ![o] = k]
    BY <1>4 DEF ClientNext, ClientCall, ClientProgress, OpenShared, OpenSharedNoDaemon,
       CloseShared, OpenPrivate, ClosePrivate, Send, SendRefused, RecvResponseCode,
       ReceiveFD, ReceiveFDNoControlMessage, ClientExit, Interrupted, ProcessEnds, kernelVars
  <2>3. \A k \in Keys : tableS[k] \in Live /\ (tableS[k] # NoFD => tableS[k] \in OFDs)
    BY LiveSockets DEF FDOrNone
  <2>4. QED BY <2>1, <2>2, <2>3 DEF Free
<1>5. QED BY <1>1, <1>2, <1>3, <1>4 DEF Next, DaemonNext

(***************************************************************************)
(* Type correctness, with every fault allowed.  The reference count of a   *)
(* node never goes below zero, and the socket of a node is bound to the    *)
(* node's own tuple: closeSocketConnection and the kernel's reuse of       *)
(* closed sockets cannot take it away.                                     *)
(***************************************************************************)
THEOREM NodesTheorem == Spec => [](TypeOK /\ NodesWellFormed)
<1>1. Init => TypeOK /\ NodesWellFormed
  BY TypeInit DEF Init, DaemonInit, NodesWellFormed
<1>2. TypeOK /\ NodesWellFormed /\ [Next]_vars => (TypeOK /\ NodesWellFormed)'
  <2> SUFFICES ASSUME TypeOK, NodesWellFormed, [Next]_vars
               PROVE  TypeOK' /\ NodesWellFormed'
    OBVIOUS
  <2>1. TypeOK'
    <3>1. CASE UNCHANGED vars
      BY <3>1 DEF vars, kernelVars, daemonVars, clientVars, TypeOK, DaemonTypeOK, ClientTypeOK
    <3>2. QED BY <3>1, TypeDaemon, TypeClient DEF Next
  <2>2. QED BY <2>1, NodesStep
<1>3. QED BY <1>1, <1>2, PTL DEF Spec

(* Every variable keeps its type, with every fault allowed. *)
THEOREM TypeTheorem == Spec => []TypeOK
  BY NodesTheorem, PTL

-------------------------------------------------------------------------------
(* The counts still cover the users after a step that adds no user. *)
LEMMA CoversMono ==
    ASSUME TypeOK, RefcountCovers, refcount' = refcount,
           \A k \in Keys : Holders(k)' \subseteq Holders(k)
    PROVE  RefcountCovers'
<1> SUFFICES ASSUME NEW k \in Keys PROVE Cardinality(Holders(k)') <= refcount[k]
  BY DEF RefcountCovers
<1>1. IsFiniteSet(Holders(k))
  BY FS_Subset, ClientsAssumption DEF Holders
<1>2. /\ Cardinality(Holders(k)') <= Cardinality(Holders(k))
      /\ Cardinality(Holders(k)') \in Nat /\ Cardinality(Holders(k)) \in Nat
  BY <1>1, FS_Subset, FS_CardinalityType
<1>3. QED BY <1>2 DEF RefcountCovers, TypeOK, DaemonTypeOK

(* Binding a socket that nothing refers to changes no binding in use. *)
LEMMA BoundStable ==
    ASSUME Inv, NEW o \in Free, NEW k \in Keys, bound' = [bound EXCEPT ![o] = k]
    PROVE  /\ \A c \in Clients, j \in Keys :
                 /\ sock[c][j] # NoFD => bound'[sock[c][j]] = bound[sock[c][j]]
                 /\ priv[c][j] # NoFD => bound'[priv[c][j]] = bound[priv[c][j]]
           /\ \A c \in Clients : \A i \in DOMAIN box[c] :
                 box[c][i].fd # NoFD => bound'[box[c][i].fd] = bound[box[c][i].fd]
           /\ \A c \in alive : pc[c] \in {"recv", "recvfd"} =>
                 \A i \in DOMAIN OutTo(c) :
                    OutTo(c)[i].fd # NoFD => bound'[OutTo(c)[i].fd] = bound[OutTo(c)[i].fd]
<1>0. TypeOK /\ FdsInv /\ ReplyInv /\ DownInv
  BY DEF Inv
<1>1. \A p \in Live : p # NoFD => bound'[p] = bound[p]
  BY <1>0 DEF Free, TypeOK
<1>2. \A c \in Clients : \A i \in DOMAIN box[c] : box[c][i].fd \in Live
  BY <1>0, LiveSockets
<1>3. \A c \in Clients, j \in Keys :
         /\ sock[c][j] # NoFD => sock[c][j] \in Live
         /\ priv[c][j] # NoFD => priv[c][j] \in Live
  BY <1>0, LiveSockets DEF FdsInv
<1>4. \A c \in alive : pc[c] \in {"recv", "recvfd"} =>
         \A i \in DOMAIN OutTo(c) : OutTo(c)[i].fd # NoFD => OutTo(c)[i].fd \in Live
  <2> SUFFICES ASSUME NEW c \in alive, pc[c] \in {"recv", "recvfd"},
                      NEW i \in DOMAIN OutTo(c), OutTo(c)[i].fd # NoFD
               PROVE  OutTo(c)[i].fd \in Live
    OBVIOUS
  <2>1. Linked(c)
    BY <1>0 DEF ReplyInv, ReplyTo, Linked, DownInv, OutTo
  <2>2. OutTo(c)[i].fd = tableS[req[c].key]
    BY <1>0, <2>1 DEF ReplyInv, ReplyTo, FDLast
  <2>3. req[c].key \in Keys
    BY <1>0 DEF TypeOK, ClientTypeOK
  <2>4. QED BY <1>0, <2>2, <2>3, LiveSockets
<1>5. QED BY <1>1, <1>2, <1>3, <1>4

(* What is on its way to a process stays as it was when its own state does. *)
LEMMA ReplyKept ==
    ASSUME NEW d, ReplyTo(d), box'[d] = box[d], pc'[d] = pc[d], req'[d] = req[d],
           conn'[d] = conn[d], Linked(d)' => Linked(d),
           UNCHANGED <<tableS, bound, epoch, caddr, out>>
    PROVE  ReplyTo(d)'
<1>1. OutTo(d)' = OutTo(d)
  BY DEF OutTo
<1>2. /\ CodeFirst(d, box[d], OutTo(d))' /\ CodeFirst(d, OutTo(d), << >>)'
  BY <1>1 DEF ReplyTo, CodeFirst
<1>3. /\ FDLast(d, box[d], OutTo(d))' /\ FDLast(d, OutTo(d), << >>)'
  BY <1>1 DEF ReplyTo, FDLast
<1>4. QED BY <1>1, <1>2, <1>3 DEF ReplyTo

(* OBDIIOpenSocket begins a request: nothing is on its way to the process yet. *)
LEMMA InvOpenShared ==
    ASSUME Inv, NEW c \in Clients, NEW k \in Keys, OpenShared(c, k),
           UNCHANGED <<tableS, refcount, caddr, out>>
    PROVE  /\ QuietInv' /\ QueuedInv' /\ ReplyInv' /\ FdsInv' /\ CallInv'
           /\ ConnInv' /\ DownInv' /\ RightTuple'
           /\ RefcountCovers' /\ SharersShareOneSocket'
<1> USE DEF TypeOK, DaemonTypeOK, ClientTypeOK
<1>0. TypeOK /\ QuietInv /\ QueuedInv /\ ReplyInv /\ FdsInv /\ CallInv
      /\ ConnInv /\ DownInv /\ NodesWellFormed /\ RightTuple
      /\ RefcountCovers /\ SharersShareOneSocket
  BY DEF Inv
<1>1. QuietInv'
  BY <1>0 DEF OpenShared, BeginRequest, SetupDaemonCommunication, kernelVars, QuietInv, OutTo
<1>2. QueuedInv'
  BY <1>0 DEF OpenShared, BeginRequest, SetupDaemonCommunication, kernelVars, QueuedInv, QuietInv, OutTo
<1>3. ReplyInv'
  <2>1. ASSUME NEW d \in alive', pc'[d] \in {"recv", "recvfd"} PROVE ReplyTo(d)'
    <3>1. /\ d # c /\ d \in alive /\ box'[d] = box[d] /\ pc'[d] = pc[d]
          /\ req'[d] = req[d] /\ conn'[d] = conn[d] /\ (Linked(d)' => Linked(d))
          /\ UNCHANGED <<bound, epoch>>
      BY <1>0, <2>1 DEF OpenShared, BeginRequest, SetupDaemonCommunication, kernelVars, Linked
    <3>2. QED BY <1>0, <2>1, <3>1, ReplyKept DEF ReplyInv
  <2>2. QED BY <2>1 DEF ReplyInv
<1>4. FdsInv'
  BY <1>0 DEF OpenShared, BeginRequest, SetupDaemonCommunication, kernelVars, FdsInv, CallInv, RightTuple, NotOpen
<1>5. CallInv'
  BY <1>0 DEF OpenShared, BeginRequest, SetupDaemonCommunication, kernelVars, CallInv, NotOpen
<1>6. ConnInv'
  BY <1>0 DEF OpenShared, BeginRequest, SetupDaemonCommunication, kernelVars, ConnInv
<1>7. DownInv'
  BY <1>0 DEF OpenShared, BeginRequest, SetupDaemonCommunication, kernelVars, DownInv
<1>8. RightTuple'
  BY <1>0 DEF OpenShared, BeginRequest, SetupDaemonCommunication, kernelVars, RightTuple
<1>9. \A j \in Keys : Holders(j)' \subseteq Holders(j)
  BY <1>0 DEF OpenShared, BeginRequest, SetupDaemonCommunication, kernelVars, Holders, Holds, ClosePending, FDOnItsWay, CarriesFD, Linked, ConnInv
<1>10. SharersShareOneSocket'
  BY <1>0 DEF OpenShared, BeginRequest, SetupDaemonCommunication, kernelVars, SharersShareOneSocket, Linked, ConnInv
<1>11. RefcountCovers'
  BY <1>0, <1>9, CoversMono
<1>12. QED BY <1>1, <1>2, <1>3, <1>4, <1>5, <1>6, <1>7, <1>8, <1>10, <1>11

(* OBDIICloseSocket begins a request: the process stays a user of the node. *)
LEMMA InvCloseShared ==
    ASSUME Inv, NEW c \in Clients, NEW k \in Keys, CloseShared(c, k),
           UNCHANGED <<tableS, refcount, caddr, out>>
    PROVE  /\ QuietInv' /\ QueuedInv' /\ ReplyInv' /\ FdsInv' /\ CallInv'
           /\ ConnInv' /\ DownInv' /\ RightTuple'
           /\ RefcountCovers' /\ SharersShareOneSocket'
<1> USE DEF TypeOK, DaemonTypeOK, ClientTypeOK
<1>0. TypeOK /\ QuietInv /\ QueuedInv /\ ReplyInv /\ FdsInv /\ CallInv
      /\ ConnInv /\ DownInv /\ NodesWellFormed /\ RightTuple
      /\ RefcountCovers /\ SharersShareOneSocket
  BY DEF Inv
<1>1. QuietInv'
  BY <1>0 DEF CloseShared, BeginRequest, SetupDaemonCommunication, kernelVars, QuietInv, OutTo
<1>2. QueuedInv'
  BY <1>0 DEF CloseShared, BeginRequest, SetupDaemonCommunication, kernelVars, QueuedInv, QuietInv, OutTo
<1>3. ReplyInv'
  <2>1. ASSUME NEW d \in alive', pc'[d] \in {"recv", "recvfd"} PROVE ReplyTo(d)'
    <3>1. /\ d # c /\ d \in alive /\ box'[d] = box[d] /\ pc'[d] = pc[d]
          /\ req'[d] = req[d] /\ conn'[d] = conn[d] /\ (Linked(d)' => Linked(d))
          /\ UNCHANGED <<bound, epoch>>
      BY <1>0, <2>1 DEF CloseShared, BeginRequest, SetupDaemonCommunication, kernelVars, Linked
    <3>2. QED BY <1>0, <2>1, <3>1, ReplyKept DEF ReplyInv
  <2>2. QED BY <2>1 DEF ReplyInv
<1>4. FdsInv'
  BY <1>0 DEF CloseShared, BeginRequest, SetupDaemonCommunication, kernelVars, FdsInv, CallInv, RightTuple, NotOpen
<1>5. CallInv'
  BY <1>0 DEF CloseShared, BeginRequest, SetupDaemonCommunication, kernelVars, CallInv, NotOpen
<1>6. ConnInv'
  BY <1>0 DEF CloseShared, BeginRequest, SetupDaemonCommunication, kernelVars, ConnInv
<1>7. DownInv'
  BY <1>0 DEF CloseShared, BeginRequest, SetupDaemonCommunication, kernelVars, DownInv
<1>8. RightTuple'
  BY <1>0 DEF CloseShared, BeginRequest, SetupDaemonCommunication, kernelVars, RightTuple
<1>9. \A j \in Keys : Holders(j)' \subseteq Holders(j)
  BY <1>0 DEF CloseShared, BeginRequest, SetupDaemonCommunication, kernelVars, Holders, Holds, ClosePending, FDOnItsWay, CarriesFD, Linked, ConnInv
<1>10. SharersShareOneSocket'
  BY <1>0 DEF CloseShared, BeginRequest, SetupDaemonCommunication, kernelVars, SharersShareOneSocket, Linked, ConnInv
<1>11. RefcountCovers'
  BY <1>0, <1>9, CoversMono
<1>12. QED BY <1>1, <1>2, <1>3, <1>4, <1>5, <1>6, <1>7, <1>8, <1>10, <1>11

(* An unshared open binds a socket that no descriptor refers to. *)
LEMMA InvOpenPrivate ==
    ASSUME Inv, NEW c \in Clients, NEW k \in Keys, NEW o \in Free, OpenPrivate(c, k, o),
           UNCHANGED <<tableS, refcount, caddr, out>>
    PROVE  /\ QuietInv' /\ QueuedInv' /\ ReplyInv' /\ FdsInv' /\ CallInv'
           /\ ConnInv' /\ DownInv' /\ RightTuple'
           /\ RefcountCovers' /\ SharersShareOneSocket'
<1> USE DEF TypeOK, DaemonTypeOK, ClientTypeOK
<1>0. TypeOK /\ QuietInv /\ QueuedInv /\ ReplyInv /\ FdsInv /\ CallInv
      /\ ConnInv /\ DownInv /\ NodesWellFormed /\ RightTuple
      /\ RefcountCovers /\ SharersShareOneSocket
  BY DEF Inv
<1>a. bound' = [bound EXCEPT ![o] = k]
  BY DEF OpenPrivate
<1>b. /\ \A d \in Clients, j \in Keys :
            /\ sock[d][j] # NoFD => bound'[sock[d][j]] = bound[sock[d][j]]
            /\ priv[d][j] # NoFD => bound'[priv[d][j]] = bound[priv[d][j]]
      /\ \A d \in Clients : \A i \in DOMAIN box[d] :
            box[d][i].fd # NoFD => bound'[box[d][i].fd] = bound[box[d][i].fd]
      /\ \A d \in alive : pc[d] \in {"recv", "recvfd"} =>
            \A i \in DOMAIN OutTo(d) :
               OutTo(d)[i].fd # NoFD => bound'[OutTo(d)[i].fd] = bound[OutTo(d)[i].fd]
  BY <1>a, BoundStable
<1>1. QuietInv'
  BY <1>0 DEF OpenPrivate, Free, QuietInv, OutTo
<1>2. QueuedInv'
  BY <1>0 DEF OpenPrivate, Free, QueuedInv, QuietInv, OutTo
<1>3. ReplyInv'
  BY <1>0, <1>b DEF OpenPrivate, ReplyInv, ReplyTo, CodeFirst, FDLast, OutTo, Linked
<1>4. FdsInv'
  BY <1>0 DEF OpenPrivate, Free, FdsInv, CallInv, RightTuple, NotOpen
<1>5. CallInv'
  BY <1>0 DEF OpenPrivate, Free, CallInv, NotOpen
<1>6. ConnInv'
  BY <1>0 DEF OpenPrivate, Free, ConnInv
<1>7. DownInv'
  BY <1>0 DEF OpenPrivate, Free, DownInv
<1>8. RightTuple'
  <2>1. o \in OFDs
    BY DEF Free
  <2>2. QED BY <1>0, <1>b, <2>1 DEF OpenPrivate, RightTuple
<1>9. \A j \in Keys : Holders(j)' \subseteq Holders(j)
  BY <1>0 DEF OpenPrivate, Free, Holders, Holds, ClosePending, FDOnItsWay, CarriesFD, Linked, ConnInv
<1>10. SharersShareOneSocket'
  BY <1>0 DEF OpenPrivate, Free, SharersShareOneSocket, Linked, ConnInv
<1>11. RefcountCovers'
  BY <1>0, <1>9, CoversMono
<1>12. QED BY <1>1, <1>2, <1>3, <1>4, <1>5, <1>6, <1>7, <1>8, <1>10, <1>11

(* An unshared close touches no socket that is in use for another key. *)
LEMMA InvClosePrivate ==
    ASSUME Inv, NEW c \in Clients, NEW k \in Keys, ClosePrivate(c, k),
           UNCHANGED <<tableS, refcount, caddr, out>>
    PROVE  /\ QuietInv' /\ QueuedInv' /\ ReplyInv' /\ FdsInv' /\ CallInv'
           /\ ConnInv' /\ DownInv' /\ RightTuple'
           /\ RefcountCovers' /\ SharersShareOneSocket'
<1> USE DEF TypeOK, DaemonTypeOK, ClientTypeOK
<1>0. TypeOK /\ QuietInv /\ QueuedInv /\ ReplyInv /\ FdsInv /\ CallInv
      /\ ConnInv /\ DownInv /\ NodesWellFormed /\ RightTuple
      /\ RefcountCovers /\ SharersShareOneSocket
  BY DEF Inv
<1>1. QuietInv'
  BY <1>0 DEF ClosePrivate, kernelVars, QuietInv, OutTo
<1>2. QueuedInv'
  BY <1>0 DEF ClosePrivate, kernelVars, QueuedInv, QuietInv, OutTo
<1>3. ReplyInv'
  BY <1>0 DEF ClosePrivate, kernelVars, ReplyInv, ReplyTo, QuietInv, CodeFirst, FDLast, OutTo, Linked
<1>4. FdsInv'
  BY <1>0 DEF ClosePrivate, kernelVars, FdsInv, CallInv, RightTuple, NotOpen
<1>5. CallInv'
  BY <1>0 DEF ClosePrivate, kernelVars, CallInv, NotOpen
<1>6. ConnInv'
  BY <1>0 DEF ClosePrivate, kernelVars, ConnInv
<1>7. DownInv'
  BY <1>0 DEF ClosePrivate, kernelVars, DownInv
<1>8. RightTuple'
  BY <1>0 DEF ClosePrivate, kernelVars, RightTuple
<1>9. \A j \in Keys : Holders(j)' \subseteq Holders(j)
  BY <1>0 DEF ClosePrivate, kernelVars, Holders, Holds, ClosePending, FDOnItsWay, CarriesFD, Linked, ConnInv
<1>10. SharersShareOneSocket'
  BY <1>0 DEF ClosePrivate, kernelVars, SharersShareOneSocket, Linked, ConnInv
<1>11. RefcountCovers'
  BY <1>0, <1>9, CoversMono
<1>12. QED BY <1>1, <1>2, <1>3, <1>4, <1>5, <1>6, <1>7, <1>8, <1>10, <1>11

(* The request is queued: it is the only one of its sender. *)
LEMMA InvSend ==
    ASSUME Inv, NEW c \in Clients, Send(c),
           UNCHANGED <<tableS, refcount, caddr, out>>
    PROVE  /\ QuietInv' /\ QueuedInv' /\ ReplyInv' /\ FdsInv' /\ CallInv'
           /\ ConnInv' /\ DownInv' /\ RightTuple'
           /\ RefcountCovers' /\ SharersShareOneSocket'
<1> USE DEF TypeOK, DaemonTypeOK, ClientTypeOK
<1>0. TypeOK /\ QuietInv /\ QueuedInv /\ ReplyInv /\ FdsInv /\ CallInv
      /\ ConnInv /\ DownInv /\ NodesWellFormed /\ RightTuple
      /\ RefcountCovers /\ SharersShareOneSocket
  BY DEF Inv
<1> DEFINE r == [from |-> c, open |-> req[c].open, key |-> req[c].key]
<1>b. /\ DOMAIN inbox' = 1..(Len(inbox) + 1) /\ DOMAIN inbox = 1..Len(inbox)
      /\ \A i \in DOMAIN inbox : inbox'[i] = inbox[i]
      /\ inbox'[Len(inbox) + 1].from = c
      /\ inbox'[Len(inbox) + 1].open = req[c].open
      /\ inbox'[Len(inbox) + 1].key = req[c].key
      /\ inbox'[Len(inbox) + 1] = r
      /\ Len(inbox) \in Nat
      /\ \A i \in DOMAIN inbox' : i \in DOMAIN inbox \/ i = Len(inbox) + 1
  <2>1. r \in Request /\ inbox \in Seq(Request) /\ inbox' = Append(inbox, r)
    BY <1>0 DEF Request, Send
  <2>2. QED BY <2>1, AppendProps, LenProperties
<1>c. req[c] = [open |-> req[c].open, key |-> req[c].key]
  BY <1>0
<1> HIDE DEF r
<1>d. /\ c \in alive /\ pc[c] = "send" /\ Linked(c)
      /\ pc' = [pc EXCEPT ![c] = "recv"]
      /\ UNCHANGED <<up, epoch, box, alive, req, conn, sock, caddr, out>>
  BY DEF Send
<1>e. /\ QueuedInv /\ QuietInv
      /\ pc \in [Clients -> {"idle", "send", "recv", "recvfd"}]
  BY <1>0
<1>1. QuietInv'
  BY <1>0, <1>b DEF Send, QuietInv, OutTo
<1>2. QueuedInv'
  <2>1. conn[c] = epoch /\ pc'[c] = "recv" /\ \A d \in Clients : d # c => pc'[d] = pc[d]
    BY <1>d, <1>e DEF Linked
  <2>2. \A i \in DOMAIN inbox : inbox[i].from # c
    BY <1>d, <1>e DEF QuietInv
  <2>3. ASSUME NEW i \in DOMAIN inbox', NEW j \in DOMAIN inbox',
               inbox'[j].from = inbox'[i].from
        PROVE  j = i
    <3>1. CASE i \in DOMAIN inbox /\ j \in DOMAIN inbox
      BY <1>b, <1>e, <2>3, <3>1 DEF QueuedInv
    <3>2. CASE i \in DOMAIN inbox /\ j = Len(inbox) + 1
      BY <1>b, <2>2, <2>3, <3>2
    <3>3. CASE i = Len(inbox) + 1 /\ j \in DOMAIN inbox
      BY <1>b, <2>2, <2>3, <3>3
    <3>4. QED BY <1>b, <3>1, <3>2, <3>3
  <2>4. ASSUME NEW i \in DOMAIN inbox', inbox'[i].from \in alive'
        PROVE  /\ pc'[inbox'[i].from] = "recv"
               /\ req'[inbox'[i].from] = [open |-> inbox'[i].open, key |-> inbox'[i].key]
               /\ conn'[inbox'[i].from] = epoch'
               /\ box'[inbox'[i].from] = << >>
               /\ caddr' = inbox'[i].from => out' = << >>
    <3>1. CASE i \in DOMAIN inbox
      <4>1. inbox'[i] = inbox[i] /\ inbox[i].from # c
        BY <1>b, <2>2, <3>1
      <4>2. inbox[i].from \in Clients
        BY <1>d, <2>4, <4>1, <1>0
      <4>3. QED BY <1>d, <1>e, <2>1, <2>4, <3>1, <4>1, <4>2 DEF QueuedInv, OutTo
    <3>2. CASE i = Len(inbox) + 1
      BY <1>b, <1>c, <1>d, <1>e, <2>1, <3>2 DEF QuietInv, OutTo
    <3>3. QED BY <1>b, <3>1, <3>2
  <2>5. QED BY <2>3, <2>4 DEF QueuedInv, OutTo
<1>3. ReplyInv'
  BY <1>0 DEF Send, ReplyInv, ReplyTo, QuietInv, CodeFirst, FDLast, OutTo, Linked
<1>4. FdsInv'
  BY <1>0 DEF Send, FdsInv, CallInv, RightTuple, NotOpen
<1>5. CallInv'
  BY <1>0 DEF Send, CallInv, NotOpen
<1>6. ConnInv'
  BY <1>0 DEF Send, ConnInv
<1>7. DownInv'
  BY <1>0 DEF Send, DownInv, Linked
<1>8. RightTuple'
  BY <1>0 DEF Send, RightTuple
<1>9. \A j \in Keys : Holders(j)' \subseteq Holders(j)
  <2> SUFFICES ASSUME NEW j \in Keys, NEW d \in Clients, Holds(d, j)' PROVE Holds(d, j)
    BY DEF Holders
  <2>1. CASE ClosePending(d, j)'
    <3>1. PICK i \in DOMAIN inbox' : inbox'[i] = [from |-> d, open |-> FALSE, key |-> j]
      BY <2>1 DEF ClosePending
    <3>2. CASE i \in DOMAIN inbox
      BY <1>b, <3>1, <3>2 DEF Holds, ClosePending
    <3>3. CASE i = Len(inbox) + 1
      <4>1. d = c /\ req[c] = [open |-> FALSE, key |-> j]
        <5>1. inbox'[i].from = d /\ ~inbox'[i].open /\ inbox'[i].key = j
          BY <3>1
        <5>2. d = c /\ ~req[c].open /\ req[c].key = j /\ req[c].open \in BOOLEAN
          BY <1>0, <1>b, <3>3, <5>1
        <5>3. QED BY <1>c, <5>2
      <4>2. QED BY <1>d, <4>1 DEF Holds
    <3>4. QED BY <1>b, <3>1, <3>2, <3>3
  <2>2. CASE ~ClosePending(d, j)'
    <3>1. d # c => pc'[d] = pc[d]
      BY <1>d, <1>e
    <3>2. d = c => box[c] = << >> /\ OutTo(c) = << >>
      BY <1>d, <1>e DEF QuietInv
    <3>3. QED
      BY <1>d, <1>e, <2>2, <3>1, <3>2 DEF Holds, FDOnItsWay, CarriesFD, Linked, OutTo
  <2>3. QED BY <2>1, <2>2
<1>10. SharersShareOneSocket'
  BY <1>0 DEF Send, SharersShareOneSocket, Linked, ConnInv
<1>11. RefcountCovers'
  BY <1>0, <1>9, CoversMono
<1>12. QED BY <1>1, <1>2, <1>3, <1>4, <1>5, <1>6, <1>7, <1>8, <1>10, <1>11

(* A refused send ends the call of a process that the daemon does not know. *)
LEMMA InvSendRefused ==
    ASSUME Inv, NEW c \in Clients, SendRefused(c),
           UNCHANGED <<tableS, refcount, caddr, out>>
    PROVE  /\ QuietInv' /\ QueuedInv' /\ ReplyInv' /\ FdsInv' /\ CallInv'
           /\ ConnInv' /\ DownInv' /\ RightTuple'
           /\ RefcountCovers' /\ SharersShareOneSocket'
<1> USE DEF TypeOK, DaemonTypeOK, ClientTypeOK
<1>0. TypeOK /\ QuietInv /\ QueuedInv /\ ReplyInv /\ FdsInv /\ CallInv
      /\ ConnInv /\ DownInv /\ NodesWellFormed /\ RightTuple
      /\ RefcountCovers /\ SharersShareOneSocket
  BY DEF Inv
<1>1. QuietInv'
  BY <1>0 DEF SendRefused, Return, kernelVars, QuietInv, OutTo
<1>2. QueuedInv'
  BY <1>0 DEF SendRefused, Return, kernelVars, QueuedInv, QuietInv, OutTo
<1>3. ReplyInv'
  BY <1>0 DEF SendRefused, Return, kernelVars, ReplyInv, ReplyTo, QuietInv, CodeFirst, FDLast, OutTo, Linked
<1>4. FdsInv'
  BY <1>0 DEF SendRefused, Return, kernelVars, FdsInv, CallInv, RightTuple, NotOpen
<1>5. CallInv'
  BY <1>0 DEF SendRefused, Return, kernelVars, CallInv, NotOpen
<1>6. ConnInv'
  BY <1>0 DEF SendRefused, Return, kernelVars, ConnInv
<1>7. DownInv'
  BY <1>0 DEF SendRefused, Return, kernelVars, DownInv
<1>8. RightTuple'
  BY <1>0 DEF SendRefused, Return, kernelVars, RightTuple
<1>9. \A j \in Keys : Holders(j)' \subseteq Holders(j)
  BY <1>0 DEF SendRefused, Return, kernelVars, Holders, Holds, ClosePending, FDOnItsWay, CarriesFD, Linked, ConnInv
<1>10. SharersShareOneSocket'
  BY <1>0 DEF SendRefused, Return, kernelVars, SharersShareOneSocket, Linked, ConnInv
<1>11. RefcountCovers'
  BY <1>0, <1>9, CoversMono
<1>12. QED BY <1>1, <1>2, <1>3, <1>4, <1>5, <1>6, <1>7, <1>8, <1>10, <1>11

(* The response code is read: after Success a descriptor is still to come. *)
LEMMA InvRecvResponseCode ==
    ASSUME Inv, NEW c \in Clients, RecvResponseCode(c),
           UNCHANGED <<tableS, refcount, caddr, out>>
    PROVE  /\ QuietInv' /\ QueuedInv' /\ ReplyInv' /\ FdsInv' /\ CallInv'
           /\ ConnInv' /\ DownInv' /\ RightTuple'
           /\ RefcountCovers' /\ SharersShareOneSocket'
<1> USE DEF TypeOK, DaemonTypeOK, ClientTypeOK
<1>0. TypeOK /\ QuietInv /\ QueuedInv /\ ReplyInv /\ FdsInv /\ CallInv
      /\ ConnInv /\ DownInv /\ NodesWellFormed /\ RightTuple
      /\ RefcountCovers /\ SharersShareOneSocket
  BY DEF Inv
<1>a. /\ 1 \in DOMAIN box[c] /\ Head(box[c]) = box[c][1]
      /\ Len(box[c]) = 1 => Tail(box[c]) = << >>
  BY <1>0, HeadTail DEF RecvResponseCode
<1>1. QuietInv'
  <2>1. pc'[c] = "idle" => Tail(box[c]) = << >> /\ OutTo(c) = << >>
    <3>1. /\ CodeFirst(c, box[c], OutTo(c)) /\ FDLast(c, box[c], OutTo(c))
          /\ pc'[c] = "idle" => ~(box[c][1].code = "Success" /\ req[c].open)
      BY <1>0, <1>a DEF RecvResponseCode, ReplyInv, ReplyTo
    <3>2. QED BY <1>a, <3>1 DEF CodeFirst, FDLast
  <2>2. \A i \in DOMAIN inbox : inbox[i].from # c
    BY <1>0 DEF RecvResponseCode, QueuedInv
  <2>3. QED BY <1>0, <2>1, <2>2 DEF RecvResponseCode, QuietInv, OutTo
<1>2. QueuedInv'
  BY <1>0 DEF RecvResponseCode, QueuedInv, QuietInv, OutTo
<1>3. ReplyInv'
  <2>1. ASSUME NEW d \in alive', d # c, pc'[d] \in {"recv", "recvfd"} PROVE ReplyTo(d)'
    <3>1. /\ d \in alive /\ box'[d] = box[d] /\ pc'[d] = pc[d]
          /\ (Linked(d)' => Linked(d)) /\ UNCHANGED <<req, conn, bound, epoch>>
      BY <1>0, <2>1 DEF RecvResponseCode, Linked
    <3>2. QED BY <1>0, <2>1, <3>1, ReplyKept DEF ReplyInv
  <2>2. ASSUME pc'[c] = "recvfd" PROVE ReplyTo(c)'
    <3>1. /\ ReplyTo(c) /\ box[c][1].code = "Success" /\ req[c].open
          /\ UNCHANGED <<req, conn, bound, epoch>> /\ Linked(c)' = Linked(c)
          /\ box'[c] = Tail(box[c]) /\ OutTo(c)' = OutTo(c)
      BY <1>0, <1>a, <2>2 DEF RecvResponseCode, ReplyInv, Linked, OutTo
    <3>2. \A i \in DOMAIN box'[c] :
             /\ i + 1 \in DOMAIN box[c] /\ box'[c][i] = box[c][i + 1] /\ i + 1 # 1
             /\ Len(box'[c]) + 1 = Len(box[c]) /\ (i + 1 = Len(box[c]) => i = Len(box'[c]))
      <4>1. box[c] \in Seq(Datagram) /\ box[c] # << >>
        BY <1>0 DEF RecvResponseCode
      <4>2. /\ Len(box[c]) \in Nat /\ DOMAIN box[c] = 1..Len(box[c])
            /\ Len(Tail(box[c])) = Len(box[c]) - 1
            /\ DOMAIN Tail(box[c]) = 1..Len(Tail(box[c]))
            /\ \A i \in DOMAIN Tail(box[c]) : Tail(box[c])[i] = box[c][i + 1]
        BY <4>1, HeadTail
      <4>3. QED BY <3>1, <4>2
    <3>3. \A i \in DOMAIN OutTo(c) : OutTo(c)[i].fd # NoFD
      BY <1>0, <3>1 DEF RecvResponseCode, ReplyTo
    <3>4. CodeFirst(c, box[c], OutTo(c))' /\ CodeFirst(c, OutTo(c), << >>)'
      BY <3>1, <3>2, <3>3 DEF ReplyTo, CodeFirst
    <3>5. FDLast(c, box[c], OutTo(c))' /\ FDLast(c, OutTo(c), << >>)'
      BY <3>1, <3>2 DEF ReplyTo, FDLast
    <3>6. QED BY <3>1, <3>3, <3>4, <3>5 DEF ReplyTo
  <2>3. pc'[c] # "recv"
    BY <1>0 DEF RecvResponseCode
  <2>4. QED BY <2>1, <2>2, <2>3 DEF ReplyInv
<1>4. FdsInv'
  BY <1>0 DEF RecvResponseCode, FdsInv, CallInv, RightTuple, NotOpen
<1>5. CallInv'
  BY <1>0 DEF RecvResponseCode, CallInv, NotOpen
<1>6. ConnInv'
  BY <1>0 DEF RecvResponseCode, ConnInv
<1>7. DownInv'
  BY <1>0 DEF RecvResponseCode, DownInv
<1>8. RightTuple'
  BY <1>0 DEF RecvResponseCode, RightTuple
<1>9. \A j \in Keys : Holders(j)' \subseteq Holders(j)
  <2>1. /\ \A d \in Clients : Linked(d)' = Linked(d)
        /\ \A d \in Clients, j \in Keys : ClosePending(d, j)' = ClosePending(d, j)
    BY DEF RecvResponseCode, Linked, ClosePending
  <2>2. \A d \in Clients : CarriesFD(box'[d]) => CarriesFD(box[d])
    <3>1. CarriesFD(Tail(box[c])) => CarriesFD(box[c])
      BY <1>0, HeadTail DEF RecvResponseCode, CarriesFD
    <3>2. \A d \in Clients : box'[d] = IF d = c THEN Tail(box[c]) ELSE box[d]
      BY <1>0 DEF RecvResponseCode
    <3>3. QED BY <3>1, <3>2
  <2>3. \A d \in Clients, j \in Keys : FDOnItsWay(d, j)' => FDOnItsWay(d, j)
    BY <1>0, <2>2 DEF RecvResponseCode, FDOnItsWay, CarriesFD
  <2>4. QED BY <1>0, <2>1, <2>3 DEF RecvResponseCode, Holders, Holds
<1>10. SharersShareOneSocket'
  BY <1>0 DEF RecvResponseCode, SharersShareOneSocket, Linked, ConnInv
<1>11. RefcountCovers'
  BY <1>0, <1>9, CoversMono
<1>12. QED BY <1>1, <1>2, <1>3, <1>4, <1>5, <1>6, <1>7, <1>8, <1>10, <1>11

(* The descriptor received is that of the node of the requested key. *)
LEMMA InvReceiveFD ==
    ASSUME Inv, NEW c \in Clients, ReceiveFD(c),
           UNCHANGED <<tableS, refcount, caddr, out>>
    PROVE  /\ QuietInv' /\ QueuedInv' /\ ReplyInv' /\ FdsInv' /\ CallInv'
           /\ ConnInv' /\ DownInv' /\ RightTuple'
           /\ RefcountCovers' /\ SharersShareOneSocket'
<1> USE DEF TypeOK, DaemonTypeOK, ClientTypeOK
<1>0. TypeOK /\ QuietInv /\ QueuedInv /\ ReplyInv /\ FdsInv /\ CallInv
      /\ ConnInv /\ DownInv /\ NodesWellFormed /\ RightTuple
      /\ RefcountCovers /\ SharersShareOneSocket
  BY DEF Inv
<1> DEFINE m == Head(box[c])
<1>a. /\ 1 \in DOMAIN box[c] /\ m = box[c][1] /\ m \in Datagram
      /\ Len(box[c]) = 1 => Tail(box[c]) = << >>
  BY <1>0, HeadTail DEF ReceiveFD
<1>b. /\ c \in alive /\ pc[c] = "recvfd" /\ m.fd # NoFD /\ m.fd \in OFDs
      /\ req[c].key \in Keys
  BY <1>0, <1>a DEF ReceiveFD, Datagram, FDOrNone
<1>c. /\ Tail(box[c]) = << >> /\ OutTo(c) = << >>
      /\ req[c].open /\ bound[m.fd] = req[c].key
      /\ Linked(c) => m.fd = tableS[req[c].key]
  BY <1>0, <1>a, <1>b DEF ReplyInv, ReplyTo, FDLast
<1>d. \A i \in DOMAIN inbox : inbox[i].from # c
  BY <1>0, <1>b DEF QueuedInv
<1>e. /\ sock' = [sock EXCEPT ![c][req[c].key] = m.fd]
      /\ fds' = [fds EXCEPT ![c] = @ \cup {m.fd}]
      /\ UNCHANGED <<req, priv, bound, alive, up, conn, epoch>>
  BY DEF ReceiveFD
<1> HIDE DEF m
<1>1. QuietInv'
  BY <1>0, <1>c, <1>d DEF ReceiveFD, Return, QuietInv, OutTo
<1>2. QueuedInv'
  BY <1>0 DEF ReceiveFD, Return, QueuedInv, QuietInv, OutTo
<1>3. ReplyInv'
  <2>1. ASSUME NEW d \in alive', pc'[d] \in {"recv", "recvfd"} PROVE ReplyTo(d)'
    <3>1. /\ d # c /\ d \in alive /\ box'[d] = box[d] /\ pc'[d] = pc[d]
          /\ req'[d] = req[d] /\ conn'[d] = conn[d] /\ (Linked(d)' => Linked(d))
          /\ UNCHANGED <<bound, epoch>>
      BY <1>0, <2>1 DEF ReceiveFD, Return, Linked
    <3>2. QED BY <1>0, <2>1, <3>1, ReplyKept DEF ReplyInv
  <2>2. QED BY <2>1 DEF ReplyInv
<1>4. FdsInv'
  BY <1>0, <1>b, <1>c, <1>e DEF FdsInv, CallInv
<1>5. CallInv'
  BY <1>0 DEF ReceiveFD, Return, CallInv, NotOpen
<1>6. ConnInv'
  BY <1>0 DEF ReceiveFD, Return, ConnInv
<1>7. DownInv'
  BY <1>0 DEF ReceiveFD, Return, DownInv
<1>8. RightTuple'
  BY <1>0, <1>b, <1>c, <1>e DEF RightTuple
<1>9. \A j \in Keys : Holders(j)' \subseteq Holders(j)
  <2>1. CarriesFD(box[c]) /\ req[c] = [open |-> TRUE, key |-> req[c].key]
    BY <1>0, <1>a, <1>b, <1>c DEF CarriesFD
  <2>2. FDOnItsWay(c, req[c].key)
    BY <1>b, <2>1 DEF FDOnItsWay
  <2>3. QED
    <3>1. /\ \A d \in Clients : Linked(d)' = Linked(d)
          /\ \A d \in Clients, j \in Keys : ClosePending(d, j)' = ClosePending(d, j)
      BY DEF ReceiveFD, Linked, ClosePending
    <3>2. /\ pc' = [pc EXCEPT ![c] = "idle"]
          /\ \A d \in Clients \ {c} : box'[d] = box[d]
      BY <1>0 DEF ReceiveFD, Return
    <3>3. \A d \in Clients, j \in Keys : FDOnItsWay(d, j)' => FDOnItsWay(d, j)
      BY <1>0, <1>e, <3>2 DEF FDOnItsWay, CarriesFD
    <3>4. QED BY <1>0, <1>b, <1>e, <2>2, <3>1, <3>2, <3>3 DEF Holders, Holds
<1>10. SharersShareOneSocket'
  BY <1>0, <1>b, <1>c, <1>e DEF SharersShareOneSocket, Linked
<1>11. RefcountCovers'
  BY <1>0, <1>9, CoversMono
<1>12. QED BY <1>1, <1>2, <1>3, <1>4, <1>5, <1>6, <1>7, <1>8, <1>10, <1>11

(* A process that ends is no user any more, save for a queued close. *)
LEMMA InvProcessEnds ==
    ASSUME Inv, NEW c \in Clients, ProcessEnds(c),
           UNCHANGED <<tableS, refcount, caddr, out>>
    PROVE  /\ QuietInv' /\ QueuedInv' /\ ReplyInv' /\ FdsInv' /\ CallInv'
           /\ ConnInv' /\ DownInv' /\ RightTuple'
           /\ RefcountCovers' /\ SharersShareOneSocket'
<1> USE DEF TypeOK, DaemonTypeOK, ClientTypeOK
<1>0. TypeOK /\ QuietInv /\ QueuedInv /\ ReplyInv /\ FdsInv /\ CallInv
      /\ ConnInv /\ DownInv /\ NodesWellFormed /\ RightTuple
      /\ RefcountCovers /\ SharersShareOneSocket
  BY DEF Inv
<1>1. QuietInv'
  BY <1>0 DEF ProcessEnds, QuietInv, OutTo
<1>2. QueuedInv'
  BY <1>0 DEF ProcessEnds, QueuedInv, QuietInv, OutTo
<1>3. ReplyInv'
  BY <1>0 DEF ProcessEnds, ReplyInv, ReplyTo, QuietInv, CodeFirst, FDLast, OutTo, Linked
<1>4. FdsInv'
  BY <1>0 DEF ProcessEnds, FdsInv, CallInv, RightTuple, NotOpen
<1>5. CallInv'
  BY <1>0 DEF ProcessEnds, CallInv, NotOpen
<1>6. ConnInv'
  BY <1>0 DEF ProcessEnds, ConnInv
<1>7. DownInv'
  BY <1>0 DEF ProcessEnds, DownInv
<1>8. RightTuple'
  BY <1>0 DEF ProcessEnds, RightTuple
<1>9. \A j \in Keys : Holders(j)' \subseteq Holders(j)
  BY <1>0 DEF ProcessEnds, Holders, Holds, ClosePending, FDOnItsWay, CarriesFD, Linked, ConnInv
<1>10. SharersShareOneSocket'
  BY <1>0 DEF ProcessEnds, SharersShareOneSocket, Linked, ConnInv
<1>11. RefcountCovers'
  BY <1>0, <1>9, CoversMono
<1>12. QED BY <1>1, <1>2, <1>3, <1>4, <1>5, <1>6, <1>7, <1>8, <1>10, <1>11

-------------------------------------------------------------------------------
(* Two processes that hold the same key need two references. *)
LEMMA TwoHolders ==
    ASSUME TypeOK, RefcountCovers, NEW k \in Keys,
           NEW c \in Holders(k), NEW d \in Holders(k), c # d
    PROVE  refcount[k] >= 2
<1>1. IsFiniteSet(Holders(k)) /\ {c, d} \subseteq Holders(k)
  BY FS_Subset, ClientsAssumption DEF Holders
<1>2. IsFiniteSet({c}) /\ Cardinality({c}) = 1 /\ {c} \cup {d} = {c, d} /\ d \notin {c}
  BY FS_Singleton
<1>3. Cardinality({c, d}) = 2
  <2>1. Cardinality({c} \cup {d}) = Cardinality({c}) + 1
    BY <1>2, FS_AddElement
  <2>2. QED BY <1>2, <2>1
<1>4. Cardinality(Holders(k)) >= 2
  BY <1>1, <1>3, FS_Subset, FS_CardinalityType
<1>5. QED
  BY <1>1, <1>4, FS_CardinalityType DEF RefcountCovers, TypeOK, DaemonTypeOK

(* A key without references has no holder. *)
LEMMA NoHolders ==
    ASSUME TypeOK, RefcountCovers, NEW k \in Keys, refcount[k] = 0
    PROVE  Holders(k) = {}
<1>1. IsFiniteSet(Holders(k))
  BY FS_Subset, ClientsAssumption DEF Holders
<1>2. Cardinality(Holders(k)) \in Nat /\ Cardinality(Holders(k)) <= 0
  BY <1>1, FS_CardinalityType DEF RefcountCovers
<1>3. QED BY <1>1, <1>2, FS_EmptySet

(* The daemon handles a request: the reply and the count belong together. *)
LEMMA InvHandleRequest ==
    ASSUME Inv, HandleRequest(Free), UNCHANGED clientVars
    PROVE  /\ QuietInv' /\ QueuedInv' /\ ReplyInv' /\ FdsInv' /\ CallInv'
           /\ ConnInv' /\ DownInv' /\ RightTuple'
           /\ RefcountCovers' /\ SharersShareOneSocket'
<1>0. TypeOK /\ QuietInv /\ QueuedInv /\ ReplyInv /\ FdsInv /\ CallInv
      /\ ConnInv /\ DownInv /\ NodesWellFormed /\ RightTuple
      /\ RefcountCovers /\ SharersShareOneSocket
  BY DEF Inv
<1>1. PICK c \in Clients, k \in Keys, open \in BOOLEAN : Handles(c, k, open)
  BY <1>0, Handled
<1>2. /\ up /\ out = << >> /\ caddr' = c
      /\ UNCHANGED <<up, epoch, box, alive, pc, req, conn, sock, priv, fds>>
  BY <1>1 DEF Handles, clientVars
<1>3. /\ 1 \in DOMAIN inbox
      /\ inbox[1] = [from |-> c, open |-> open, key |-> k]
      /\ \A i \in DOMAIN inbox' :
            i \in Nat \ {0} /\ i + 1 \in DOMAIN inbox /\ inbox'[i] = inbox[i + 1]
  BY <1>0, <1>1, HeadTail DEF Handles, TypeOK
<1>4. c \in alive => /\ pc[c] = "recv" /\ req[c] = [open |-> open, key |-> k]
                     /\ conn[c] = epoch /\ box[c] = << >>
  BY <1>0, <1>3 DEF QueuedInv
<1>5. \A i \in DOMAIN inbox' : inbox'[i].from # c
  <2> SUFFICES ASSUME NEW i \in DOMAIN inbox', inbox[i + 1].from = c PROVE FALSE
    BY <1>3
  <2>1. \A p, q \in DOMAIN inbox : inbox[q].from = inbox[p].from => q = p
    BY <1>0 DEF QueuedInv
  <2>2. /\ i + 1 \in DOMAIN inbox /\ 1 \in DOMAIN inbox /\ i \in Nat \ {0}
        /\ inbox[1].from = c
    BY <1>3
  <2>3. i + 1 = 1
    BY <2>1, <2>2
  <2>4. QED BY <2>2, <2>3
<1>6. /\ \A d \in Clients, j \in Keys :
            /\ sock[d][j] # NoFD => bound'[sock[d][j]] = bound[sock[d][j]]
            /\ priv[d][j] # NoFD => bound'[priv[d][j]] = bound[priv[d][j]]
      /\ \A d \in Clients : \A i \in DOMAIN box[d] :
            box[d][i].fd # NoFD => bound'[box[d][i].fd] = bound[box[d][i].fd]
  <2>1. CASE UNCHANGED bound
    BY <2>1
  <2>2. ASSUME NEW o \in Free, bound' = [bound EXCEPT ![o] = k]
        PROVE  <1>6!1 /\ <1>6!2
    BY <2>2, BoundStable
  <2>3. QED
    BY <1>1, <2>1, <2>2 DEF Handles, FoundOpen, OpenSocketConnection, OpenSocketError,
       CloseSocketConnection, NoSuchSocket
<1>7. ~open => c \in Holders(k)
  BY <1>3 DEF Holders, Holds, ClosePending
(* No other holder's node changes its socket. *)
<1>8. \A d \in Clients, j \in Keys : d # c /\ Holds(d, j) => tableS'[j] = tableS[j]
  <2> SUFFICES ASSUME NEW d \in Clients, NEW j \in Keys, d # c, Holds(d, j)
               PROVE  tableS'[j] = tableS[j]
    OBVIOUS
  <2>1. d \in Holders(j)
    BY DEF Holders
  <2>2. ASSUME NEW o \in Free, OpenSocketConnection(k, o) PROVE tableS'[j] = tableS[j]
    <3>1. refcount[k] = 0
      BY <1>0, <2>2 DEF OpenSocketConnection, Found, NodesWellFormed
    <3>2. j # k
      BY <1>0, <2>1, <3>1, NoHolders
    <3>3. QED BY <1>0, <2>2, <3>2 DEF OpenSocketConnection, TypeOK, DaemonTypeOK
  <2>3. CASE ~open /\ CloseSocketConnection(k)
    <3>1. j = k => refcount[k] >= 2
      BY <1>0, <1>7, <2>1, <2>3, TwoHolders
    <3>2. QED BY <1>0, <2>3, <3>1 DEF CloseSocketConnection, TypeOK, DaemonTypeOK
  <2>4. QED
    BY <1>1, <2>2, <2>3 DEF Handles, FoundOpen, OpenSocketError, NoSuchSocket
<1>9. QuietInv'
  BY <1>0, <1>2, <1>3, <1>4 DEF QuietInv, OutTo
<1>10. QueuedInv'
  <2>1. ASSUME NEW i \in DOMAIN inbox', NEW j \in DOMAIN inbox',
               inbox'[j].from = inbox'[i].from
        PROVE  j = i
    <3>1. /\ i + 1 \in DOMAIN inbox /\ inbox'[i] = inbox[i + 1] /\ i \in Nat
          /\ j + 1 \in DOMAIN inbox /\ inbox'[j] = inbox[j + 1] /\ j \in Nat
      BY <1>3
    <3>2. \A p, q \in DOMAIN inbox : inbox[q].from = inbox[p].from => q = p
      BY <1>0 DEF QueuedInv
    <3>3. j + 1 = i + 1
      BY <2>1, <3>1, <3>2
    <3>4. QED BY <3>1, <3>3
  <2>2. ASSUME NEW i \in DOMAIN inbox', inbox'[i].from \in alive
        PROVE  /\ pc[inbox'[i].from] = "recv"
               /\ req[inbox'[i].from] = [open |-> inbox'[i].open, key |-> inbox'[i].key]
               /\ conn[inbox'[i].from] = epoch
               /\ box[inbox'[i].from] = << >>
               /\ caddr' # inbox'[i].from
    <3>1. i + 1 \in DOMAIN inbox /\ inbox'[i] = inbox[i + 1]
      BY <1>3
    <3>2. QED BY <1>0, <1>2, <1>5, <2>2, <3>1 DEF QueuedInv
  <2>3. QED BY <1>2, <2>1, <2>2 DEF QueuedInv, OutTo
<1>11. ReplyInv'
  <2> SUFFICES ASSUME NEW d \in alive, pc[d] \in {"recv", "recvfd"}
               PROVE  /\ CodeFirst(d, box[d], OutTo(d))' /\ CodeFirst(d, OutTo(d), << >>)'
                      /\ FDLast(d, box[d], OutTo(d))' /\ FDLast(d, OutTo(d), << >>)'
                      /\ \A i \in DOMAIN OutTo(d)' :
                            /\ OutTo(d)'[i].fd = NoFD => box[d] = << >>
                            /\ conn[d] = epoch
                      /\ pc[d] = "recvfd" => req[d].open
    BY <1>2 DEF ReplyInv, ReplyTo
  <2>1. pc[d] = "recvfd" => req[d].open
    BY <1>0 DEF ReplyInv, ReplyTo
  <2>2. CASE d # c
    <3>1. OutTo(d) = << >> /\ OutTo(d)' = << >>
      BY <1>2, <2>2 DEF OutTo
    <3>2. CodeFirst(d, box[d], << >>) /\ FDLast(d, box[d], << >>)
      BY <1>0, <3>1 DEF ReplyInv, ReplyTo
    <3>3. CodeFirst(d, box[d], OutTo(d))' /\ CodeFirst(d, OutTo(d), << >>)'
      BY <1>2, <3>1, <3>2 DEF CodeFirst
    <3>4. FDLast(d, OutTo(d), << >>)'
      BY <3>1 DEF FDLast
    <3>5. FDLast(d, box[d], OutTo(d))'
      <4> SUFFICES ASSUME NEW i \in DOMAIN box[d], box[d][i].fd # NoFD
                   PROVE  /\ i = Len(box[d]) /\ box[d][i].code = "none" /\ req[d].open
                          /\ bound'[box[d][i].fd] = req[d].key
                          /\ Linked(d) => box[d][i].fd = tableS'[req[d].key]
        BY <1>2, <3>1 DEF FDLast, Linked
      <4>1. /\ i = Len(box[d]) /\ box[d][i].code = "none" /\ req[d].open
            /\ bound[box[d][i].fd] = req[d].key
            /\ Linked(d) => box[d][i].fd = tableS[req[d].key]
        BY <3>2 DEF FDLast
      <4>2. d \in Clients /\ req[d].key \in Keys /\ req[d] = [open |-> TRUE, key |-> req[d].key]
        BY <1>0, <4>1 DEF TypeOK, ClientTypeOK
      <4>3. Linked(d) => Holds(d, req[d].key)
        BY <4>2 DEF Holds, FDOnItsWay, CarriesFD
      <4>4. QED BY <1>6, <1>8, <2>2, <4>1, <4>2, <4>3
    <3>6. QED BY <2>1, <3>1, <3>3, <3>4, <3>5
  <2>3. CASE d = c
    <3>1. /\ box[c] = << >> /\ conn[c] = epoch /\ pc[c] = "recv"
          /\ req[c].open = open /\ req[c].key = k /\ OutTo(c)' = out'
      BY <1>2, <1>4, <2>3 DEF OutTo
    <3>2. CodeFirst(c, box[c], OutTo(c))' /\ FDLast(c, box[c], OutTo(c))'
      BY <1>2, <3>1 DEF CodeFirst, FDLast
    <3>3. \/ \E code \in ResponseCodes : out' = <<CodeMsg(code)>>
          \/ open /\ \E o \in OFDs : /\ out' = <<CodeMsg("Success"), FDMsg(o)>>
                                     /\ tableS'[k] = o /\ bound'[o] = k
      <4>1. CASE FoundOpen(k) /\ open
        BY <1>0, <4>1 DEF FoundOpen, Found, NodesWellFormed, TypeOK, DaemonTypeOK, FDOrNone
      <4>2. ASSUME NEW o \in Free, OpenSocketConnection(k, o), open PROVE <3>3
        BY <1>0, <4>2 DEF OpenSocketConnection, Free, TypeOK, DaemonTypeOK
      <4>3. CASE OpenSocketError(k) \/ CloseSocketConnection(k) \/ NoSuchSocket(k)
        BY <4>3 DEF OpenSocketError, CloseSocketConnection, NoSuchSocket, ResponseCodes
      <4>4. QED BY <1>1, <4>1, <4>2, <4>3 DEF Handles
    <3>4. CodeFirst(c, OutTo(c), << >>)'
      BY <1>2, <3>1, <3>3, NoFDAssumption DEF CodeFirst, CodeMsg, FDMsg
    <3>5. FDLast(c, OutTo(c), << >>)'
      <4>1. ASSUME NEW code \in ResponseCodes, out' = <<CodeMsg(code)>>
            PROVE  FDLast(c, OutTo(c), << >>)'
        BY <3>1, <4>1 DEF FDLast, CodeMsg
      <4>2. ASSUME open, NEW o \in OFDs, out' = <<CodeMsg("Success"), FDMsg(o)>>,
                   tableS'[k] = o, bound'[o] = k
            PROVE  FDLast(c, OutTo(c), << >>)'
        <5>1. \A i \in DOMAIN out' : out'[i].fd # NoFD =>
                 i = 2 /\ Len(out') = 2 /\ out'[i].fd = o /\ out'[i].code = "none"
          BY <4>2, NoFDAssumption DEF CodeMsg, FDMsg
        <5>2. req'[c].open /\ req'[c].key = k
          BY <1>2, <3>1, <4>2
        <5>3. QED BY <3>1, <4>2, <5>1, <5>2 DEF FDLast
      <4>3. QED BY <3>3, <4>1, <4>2
    <3>6. QED BY <2>1, <2>3, <3>1, <3>2, <3>4, <3>5
  <2>4. QED BY <2>2, <2>3
<1>12. FdsInv' /\ CallInv' /\ ConnInv' /\ DownInv'
  BY <1>0, <1>2 DEF FdsInv, CallInv, ConnInv, DownInv
<1>13. RightTuple'
  BY <1>0, <1>2, <1>6 DEF RightTuple
(* Only the process whose open is granted becomes a holder. *)
<1>a. \A d \in Clients, j \in Keys :
         Holds(d, j)' => Holds(d, j) \/ (d = c /\ j = k /\ open /\ CarriesFD(out'))
  <2> SUFFICES ASSUME NEW d \in Clients, NEW j \in Keys, Holds(d, j)'
               PROVE  Holds(d, j) \/ (d = c /\ j = k /\ open /\ CarriesFD(out'))
    OBVIOUS
  <2>1. ClosePending(d, j)' => ClosePending(d, j)
    BY <1>3 DEF ClosePending
  <2>2. Linked(d) /\ FDOnItsWay(d, j)' =>
            FDOnItsWay(d, j) \/ (d = c /\ j = k /\ open /\ CarriesFD(out'))
    BY <1>2, <1>4 DEF FDOnItsWay, CarriesFD, Linked
  <2>3. QED BY <1>2, <2>1, <2>2 DEF Holds, Linked
<1>14. RefcountCovers'
  <2> SUFFICES ASSUME NEW j \in Keys PROVE Cardinality(Holders(j)') <= refcount'[j]
    BY DEF RefcountCovers
  <2>1. IsFiniteSet(Holders(j)) /\ Cardinality(Holders(j)) \in Nat
    BY FS_Subset, FS_CardinalityType, ClientsAssumption DEF Holders
  <2>2. Cardinality(Holders(j)) <= refcount[j] /\ refcount[j] \in Nat
    BY <1>0 DEF RefcountCovers, TypeOK, DaemonTypeOK
  <2>3. ASSUME Holders(j)' \subseteq Holders(j), refcount'[j] >= refcount[j], refcount'[j] \in Nat
        PROVE  Cardinality(Holders(j)') <= refcount'[j]
    <3>1. Cardinality(Holders(j)') <= Cardinality(Holders(j)) /\ Cardinality(Holders(j)') \in Nat
      BY <2>1, <2>3, FS_Subset, FS_CardinalityType
    <3>2. QED BY <2>1, <2>2, <2>3, <3>1
  <2>4. CASE j # k
    <3>1. refcount'[j] = refcount[j]
      BY <1>0, <1>1, <2>4 DEF Handles, FoundOpen, OpenSocketConnection, OpenSocketError,
         CloseSocketConnection, NoSuchSocket, TypeOK, DaemonTypeOK
    <3>2. Holders(j)' \subseteq Holders(j)
      BY <1>a, <2>4 DEF Holders
    <3>3. QED BY <2>2, <2>3, <3>1, <3>2
  <2>5. CASE j = k /\ open
    <3>1. CASE refcount'[k] = refcount[k] + 1
      <4>1. Holders(k)' \subseteq Holders(k) \cup {c}
        BY <1>a DEF Holders
      <4>2. /\ IsFiniteSet(Holders(k) \cup {c})
            /\ Cardinality(Holders(k) \cup {c}) <= Cardinality(Holders(k)) + 1
            /\ Cardinality(Holders(k) \cup {c}) \in Nat
        <5>1. IsFiniteSet(Holders(k)) /\ Cardinality(Holders(k)) \in Nat
          BY <2>1, <2>5
        <5>2. /\ IsFiniteSet(Holders(k) \cup {c})
              /\ Cardinality(Holders(k) \cup {c}) =
                    IF c \in Holders(k) THEN Cardinality(Holders(k))
                                        ELSE Cardinality(Holders(k)) + 1
          BY <5>1, FS_AddElement
        <5>3. QED BY <5>1, <5>2
      <4>3. /\ Cardinality(Holders(k)') <= Cardinality(Holders(k) \cup {c})
            /\ Cardinality(Holders(k)') \in Nat
        BY <4>1, <4>2, FS_Subset, FS_CardinalityType
      <4>4. QED BY <2>1, <2>2, <2>5, <3>1, <4>2, <4>3
    <3>2. CASE OpenSocketError(k)
      <4>1. ~CarriesFD(out')
        BY <3>2 DEF OpenSocketError, CarriesFD, CodeMsg
      <4>2. QED BY <1>a, <2>2, <2>3, <2>5, <3>2, <4>1 DEF Holders, OpenSocketError
    <3>3. FoundOpen(k) => refcount'[k] = refcount[k] + 1
      BY <1>0 DEF FoundOpen, TypeOK, DaemonTypeOK
    <3>4. ASSUME NEW o \in Free, OpenSocketConnection(k, o)
          PROVE  refcount'[k] = refcount[k] + 1
      BY <1>0, <3>4
         DEF OpenSocketConnection, Found, NodesWellFormed, TypeOK, DaemonTypeOK
    <3>5. QED BY <1>1, <2>5, <3>1, <3>2, <3>3, <3>4 DEF Handles
  <2>6. CASE j = k /\ ~open
    <3>1. CASE CloseSocketConnection(k)
      <4>1. ~Holds(c, k)'
        <5>1. ~ClosePending(c, k)'
          BY <1>5 DEF ClosePending
        <5>2. Linked(c)' => /\ sock'[c][k] = NoFD /\ pc'[c] = "recv"
                            /\ req'[c] # [open |-> TRUE, key |-> k]
          BY <1>0, <1>2, <1>4, <2>6 DEF CallInv, Linked
        <5>3. QED BY <5>1, <5>2 DEF Holds, FDOnItsWay
      <4>2. Holders(k)' \subseteq Holders(k) \ {c}
        BY <1>a, <2>6, <4>1 DEF Holders
      <4>3. /\ IsFiniteSet(Holders(k) \ {c})
            /\ Cardinality(Holders(k) \ {c}) = Cardinality(Holders(k)) - 1
        BY <1>7, <2>1, <2>6, FS_RemoveElement
      <4>4. /\ Cardinality(Holders(k)') <= Cardinality(Holders(k) \ {c})
            /\ Cardinality(Holders(k)') \in Nat
        BY <4>2, <4>3, FS_Subset, FS_CardinalityType
      <4>5. refcount'[k] = refcount[k] - 1
        BY <1>0, <3>1 DEF CloseSocketConnection, TypeOK, DaemonTypeOK
      <4>6. QED BY <2>1, <2>2, <2>6, <4>3, <4>4, <4>5
    <3>2. CASE NoSuchSocket(k)
      BY <1>a, <2>2, <2>3, <2>6, <3>2 DEF Holders, NoSuchSocket
    <3>3. QED BY <1>1, <2>6, <3>1, <3>2 DEF Handles
  <2>7. QED BY <2>4, <2>5, <2>6
<1>15. SharersShareOneSocket'
  <2> SUFFICES ASSUME NEW d \in Clients, NEW j \in Keys, Linked(d), sock[d][j] # NoFD
               PROVE  sock[d][j] = tableS'[j]
    BY <1>2 DEF SharersShareOneSocket, Linked
  <2>1. sock[d][j] = tableS[j] /\ Holds(d, j)
    BY <1>0 DEF SharersShareOneSocket, Holds
  <2>2. CASE d # c
    BY <1>8, <2>1, <2>2
  <2>3. CASE d = c
    <3>1. j # k
      BY <1>0, <1>4, <2>3 DEF CallInv, Linked
    <3>2. QED
      BY <1>0, <1>1, <2>1, <3>1 DEF Handles, FoundOpen, OpenSocketConnection,
         OpenSocketError, CloseSocketConnection, NoSuchSocket, TypeOK, DaemonTypeOK
  <2>4. QED BY <2>2, <2>3
<1>16. QED BY <1>9, <1>10, <1>11, <1>12, <1>13, <1>14, <1>15

(* A datagram moves from the daemon to the queue of the client it answers. *)
LEMMA InvSendReply ==
    ASSUME Inv, SendReply, UNCHANGED clientVars
    PROVE  /\ QuietInv' /\ QueuedInv' /\ ReplyInv' /\ FdsInv' /\ CallInv'
           /\ ConnInv' /\ DownInv' /\ RightTuple'
           /\ RefcountCovers' /\ SharersShareOneSocket'
<1>0. TypeOK /\ QuietInv /\ QueuedInv /\ ReplyInv /\ FdsInv /\ CallInv
      /\ ConnInv /\ DownInv /\ NodesWellFormed /\ RightTuple
      /\ RefcountCovers /\ SharersShareOneSocket
  BY DEF Inv
<1>1. /\ up /\ out # << >> /\ caddr \in alive /\ caddr \in Clients
      /\ UNCHANGED <<up, epoch, inbox, alive, bound, tableS, refcount, caddr,
                     pc, req, conn, sock, priv, fds>>
      /\ \A d \in Clients : d # caddr => box'[d] = box[d]
      /\ box'[caddr] = Append(box[caddr], Head(out)) /\ out' = Tail(out)
  BY <1>0 DEF SendReply, clientVars, TypeOK, DaemonTypeOK
<1> DEFINE c == caddr
           b == box[c]
           m == out[1]
<1>2. /\ 1 \in DOMAIN out /\ Len(out) \in Nat /\ Len(out') = Len(out) - 1
      /\ \A i \in DOMAIN out' : i \in Nat \ {0} /\ i + 1 \in DOMAIN out /\ out'[i] = out[i + 1]
      /\ Len(out) = 1 => out' = << >>
  BY <1>0, <1>1, HeadTail DEF TypeOK, DaemonTypeOK
<1>3. /\ DOMAIN b = 1..Len(b) /\ Len(b) \in Nat
      /\ Len(box'[c]) = Len(b) + 1 /\ DOMAIN box'[c] = 1..(Len(b) + 1)
      /\ \A i \in DOMAIN b : box'[c][i] = b[i]
      /\ box'[c][Len(b) + 1] = m
  <2>1. b \in Seq(Datagram) /\ Head(out) \in Datagram /\ Head(out) = m
    BY <1>0, <1>1, HeadTail DEF TypeOK, DaemonTypeOK
  <2>2. QED BY <1>1, <2>1, AppendProps, LenProperties
<1>4. pc[c] \in {"recv", "recvfd"} /\ OutTo(c) = out
  BY <1>0, <1>1 DEF QuietInv, OutTo, TypeOK, ClientTypeOK
<1>5. /\ CodeFirst(c, b, out) /\ CodeFirst(c, out, << >>)
      /\ FDLast(c, b, out) /\ FDLast(c, out, << >>)
      /\ \A i \in DOMAIN out : (out[i].fd = NoFD => b = << >>) /\ conn[c] = epoch
      /\ pc[c] = "recvfd" => req[c].open
  BY <1>0, <1>1, <1>4 DEF ReplyInv, ReplyTo
<1>6. \A d \in Clients : d # c => OutTo(d)' = << >> /\ OutTo(d) = << >>
  BY <1>1 DEF OutTo
<1>7. OutTo(c)' = out'
  BY <1>1 DEF OutTo
<1> HIDE DEF c, b, m
<1>8. QuietInv'
  BY <1>0, <1>1, <1>4, <1>6 DEF QuietInv, TypeOK, c
<1>9. QueuedInv'
  <2>1. \A i \in DOMAIN inbox : inbox[i].from # c
    BY <1>0, <1>1, <1>4 DEF QueuedInv, c
  <2>2. \A i \in DOMAIN inbox : inbox[i].from \in alive =>
            box'[inbox[i].from] = << >> /\ OutTo(inbox[i].from)' = << >>
    BY <1>0, <1>1, <1>6, <2>1 DEF QueuedInv, c, TypeOK
  <2>3. QED BY <1>0, <1>1, <2>1, <2>2 DEF QueuedInv, OutTo, c
<1>a. UNCHANGED c /\ c \in Clients /\ c \in alive
  BY <1>1 DEF c
(* A code leaves an empty queue behind it, a descriptor is the last one. *)
<1>b. /\ m.fd = NoFD => b = << >>
      /\ m.fd # NoFD => out' = << >>
      /\ \A i \in DOMAIN b : b[i].fd = NoFD /\ i = 1 /\ b[i].code = "Success" /\ req[c].open
      /\ \A i \in DOMAIN out' : out'[i].fd # NoFD
  BY <1>1, <1>2, <1>5 DEF CodeFirst, FDLast, m
<1>10. /\ CodeFirst(c, box[c], OutTo(c))' /\ CodeFirst(c, OutTo(c), << >>)'
       /\ FDLast(c, box[c], OutTo(c))' /\ FDLast(c, OutTo(c), << >>)'
  <2>1. CodeFirst(c, OutTo(c), << >>)'
    BY <1>7, <1>b DEF CodeFirst
  <2>2. FDLast(c, OutTo(c), << >>)'
    <3>1. ASSUME NEW i \in DOMAIN out'
          PROVE  /\ i = Len(out') /\ out'[i].code = "none" /\ req[c].open
                 /\ bound[out'[i].fd] = req[c].key
                 /\ Linked(c) => out'[i].fd = tableS[req[c].key]
      <4>1. i + 1 \in DOMAIN out /\ out'[i] = out[i + 1] /\ out[i + 1].fd # NoFD /\ i \in Nat
        BY <1>2, <1>b
      <4>2. i + 1 = Len(out)
        BY <1>5, <4>1 DEF FDLast
      <4>3. QED BY <1>2, <1>5, <4>1, <4>2 DEF FDLast
    <3>2. QED BY <1>1, <1>7, <1>a, <3>1 DEF FDLast, Linked
  <2>3. CodeFirst(c, box[c], OutTo(c))'
    <3>1. ASSUME NEW i \in DOMAIN box'[c], box'[c][i].fd = NoFD
          PROVE  /\ i = 1 /\ pc[c] = "recv"
                 /\ box'[c][i].code # "Success" \/ ~req[c].open =>
                        Len(box'[c]) = 1 /\ out' = << >>
      <4>1. CASE i \in DOMAIN b
        BY <1>3, <1>5, <1>b, <4>1 DEF CodeFirst
      <4>2. CASE i = Len(b) + 1
        <5>1. m.fd = NoFD /\ box'[c][i] = m
          BY <1>3, <3>1, <4>2
        <5>2. b = << >> /\ Len(b) = 0
          BY <1>b, <5>1
        <5>3. /\ pc[c] = "recv"
              /\ m.code # "Success" \/ ~req[c].open => Len(out) = 1
          BY <1>2, <1>5, <5>1 DEF CodeFirst, m
        <5>4. QED BY <1>2, <1>3, <4>2, <5>1, <5>2, <5>3
      <4>3. QED BY <1>3, <4>1, <4>2
    <3>2. QED BY <1>1, <1>7, <1>a, <3>1 DEF CodeFirst
  <2>4. FDLast(c, box[c], OutTo(c))'
    <3>1. ASSUME NEW i \in DOMAIN box'[c], box'[c][i].fd # NoFD
          PROVE  /\ i = Len(box'[c]) /\ out' = << >>
                 /\ box'[c][i].code = "none" /\ req[c].open
                 /\ bound[box'[c][i].fd] = req[c].key
                 /\ Linked(c) => box'[c][i].fd = tableS[req[c].key]
      <4>1. i = Len(b) + 1
        BY <1>3, <1>b, <3>1
      <4>2. box'[c][i] = m /\ m.fd # NoFD /\ m = out[1] /\ 1 \in DOMAIN out
        BY <1>2, <1>3, <3>1, <4>1 DEF m
      <4>3. QED BY <1>3, <1>5, <1>b, <4>1, <4>2 DEF FDLast
    <3>2. QED BY <1>1, <1>7, <1>a, <3>1 DEF FDLast, Linked
  <2>5. QED BY <2>1, <2>2, <2>3, <2>4
<1>11. ReplyInv'
  <2> SUFFICES ASSUME NEW d \in alive', pc'[d] \in {"recv", "recvfd"}
               PROVE  /\ CodeFirst(d, box[d], OutTo(d))' /\ CodeFirst(d, OutTo(d), << >>)'
                      /\ FDLast(d, box[d], OutTo(d))' /\ FDLast(d, OutTo(d), << >>)'
                      /\ \A i \in DOMAIN OutTo(d)' :
                            /\ OutTo(d)'[i].fd = NoFD => box'[d] = << >>
                            /\ conn'[d] = epoch'
                      /\ pc'[d] = "recvfd" => req'[d].open
    BY DEF ReplyInv, ReplyTo
  <2>0. d \in alive /\ d \in Clients /\ pc[d] \in {"recv", "recvfd"}
    BY <1>0, <1>1 DEF TypeOK
  <2>1. CASE d = c
    <3>1. \A i \in DOMAIN OutTo(c)' : OutTo(c)'[i].fd # NoFD
      BY <1>7, <1>b
    <3>2. conn'[c] = epoch'
      BY <1>1, <1>2, <1>5
    <3>3. pc'[c] = "recvfd" => req'[c].open
      BY <1>1, <1>5
    <3>4. /\ CodeFirst(d, box[d], OutTo(d))' /\ CodeFirst(d, OutTo(d), << >>)'
          /\ FDLast(d, box[d], OutTo(d))' /\ FDLast(d, OutTo(d), << >>)'
      BY <1>10, <1>a, <2>1
    <3>5. \A i \in DOMAIN OutTo(d)' : OutTo(d)'[i].fd # NoFD
      BY <1>a, <2>1, <3>1
    <3>6. QED BY <1>a, <2>1, <3>2, <3>3, <3>4, <3>5
  <2>2. CASE d # c
    <3>1. OutTo(d)' = << >> /\ OutTo(d) = << >> /\ box'[d] = box[d]
      BY <1>1, <1>6, <2>0, <2>2 DEF c
    <3>2. /\ CodeFirst(d, box[d], << >>) /\ FDLast(d, box[d], << >>)
          /\ pc[d] = "recvfd" => req[d].open
      BY <1>0, <2>0, <3>1 DEF ReplyInv, ReplyTo
    <3>3. QED BY <1>1, <3>1, <3>2 DEF CodeFirst, FDLast, Linked
  <2>3. QED BY <2>1, <2>2
<1>12. FdsInv' /\ CallInv' /\ ConnInv' /\ DownInv' /\ RightTuple'
  BY <1>0, <1>1 DEF FdsInv, CallInv, ConnInv, DownInv, RightTuple
<1>13. \A k \in Keys : Holders(k)' \subseteq Holders(k)
  <2> SUFFICES ASSUME NEW k \in Keys, NEW d \in Clients, Holds(d, k)' PROVE Holds(d, k)
    BY DEF Holders
  <2>1. CarriesFD(box[c])' => CarriesFD(b) \/ CarriesFD(out)
    BY <1>2, <1>3, <1>a DEF CarriesFD, m
  <2>2. CarriesFD(out)' => CarriesFD(out)
    BY <1>2 DEF CarriesFD
  <2>3. d # c => (CarriesFD(box[d])' => CarriesFD(box[d]))
    BY <1>1 DEF CarriesFD, c
  <2>4. FDOnItsWay(d, k)' => FDOnItsWay(d, k)
    BY <1>1, <2>1, <2>2, <2>3 DEF FDOnItsWay, c, b
  <2>5. QED BY <1>1, <2>4 DEF Holds, ClosePending, Linked
<1>14. RefcountCovers'
  BY <1>0, <1>1, <1>13, CoversMono
<1>15. SharersShareOneSocket'
  BY <1>0, <1>1 DEF SharersShareOneSocket, Linked
<1>16. QED BY <1>8, <1>9, <1>11, <1>12, <1>14, <1>15

(* A datagram that could not be sent is gone. *)
LEMMA InvSendReplyFails ==
    ASSUME Inv, SendReplyFails, UNCHANGED clientVars
    PROVE  /\ QuietInv' /\ QueuedInv' /\ ReplyInv' /\ FdsInv' /\ CallInv'
           /\ ConnInv' /\ DownInv' /\ RightTuple'
           /\ RefcountCovers' /\ SharersShareOneSocket'
<1>0. TypeOK /\ QuietInv /\ QueuedInv /\ ReplyInv /\ FdsInv /\ CallInv
      /\ ConnInv /\ DownInv /\ NodesWellFormed /\ RightTuple
      /\ RefcountCovers /\ SharersShareOneSocket
  BY DEF Inv
<1>1. /\ up /\ out # << >> /\ out' = Tail(out)
      /\ UNCHANGED <<up, epoch, inbox, box, alive, bound, tableS, refcount, caddr,
                     pc, req, conn, sock, priv, fds>>
  BY DEF SendReplyFails, kernelVars, clientVars
<1>2. /\ Len(out) \in Nat /\ Len(out') = Len(out) - 1
      /\ \A i \in DOMAIN out' : i \in Nat \ {0} /\ i + 1 \in DOMAIN out /\ out'[i] = out[i + 1]
      /\ Len(out) = 1 => out' = << >>
  BY <1>0, <1>1, HeadTail DEF TypeOK, DaemonTypeOK
<1>3. \A d \in Clients : OutTo(d) = << >> => OutTo(d)' = << >>
  BY <1>1 DEF OutTo
<1>4. QuietInv'
  BY <1>0, <1>1, <1>3 DEF QuietInv, TypeOK
<1>5. QueuedInv'
  BY <1>0, <1>1 DEF QueuedInv, OutTo
<1>6. ReplyInv'
  <2> SUFFICES ASSUME NEW d \in alive, pc[d] \in {"recv", "recvfd"}
               PROVE  /\ CodeFirst(d, box[d], OutTo(d))' /\ CodeFirst(d, OutTo(d), << >>)'
                      /\ FDLast(d, box[d], OutTo(d))' /\ FDLast(d, OutTo(d), << >>)'
                      /\ \A i \in DOMAIN OutTo(d)' :
                            /\ OutTo(d)'[i].fd = NoFD => box[d] = << >>
                            /\ conn[d] = epoch
                      /\ pc[d] = "recvfd" => req[d].open
    BY <1>1 DEF ReplyInv, ReplyTo
  <2>1. /\ CodeFirst(d, box[d], OutTo(d)) /\ CodeFirst(d, OutTo(d), << >>)
        /\ FDLast(d, box[d], OutTo(d)) /\ FDLast(d, OutTo(d), << >>)
        /\ \A i \in DOMAIN OutTo(d) : conn[d] = epoch
        /\ pc[d] = "recvfd" => req[d].open
    BY <1>0 DEF ReplyInv, ReplyTo
  <2>2. d \in Clients
    BY <1>0 DEF TypeOK
  <2>3. CASE d # caddr
    <3>1. OutTo(d)' = << >> /\ OutTo(d) = << >>
      BY <1>1, <2>3 DEF OutTo
    <3>2. QED BY <1>1, <2>1, <3>1 DEF CodeFirst, FDLast, Linked
  <2>4. CASE d = caddr
    <3>1. OutTo(d) = out /\ OutTo(d)' = out'
      BY <1>1, <2>4 DEF OutTo
    <3>2. \A i \in DOMAIN out' : out'[i].fd # NoFD
      BY <1>2, <2>1, <3>1 DEF CodeFirst
    <3>3. CodeFirst(d, box[d], OutTo(d))' /\ FDLast(d, box[d], OutTo(d))'
      BY <1>1, <1>3, <2>1, <2>2 DEF CodeFirst, FDLast, Linked
    <3>4. ASSUME NEW i \in DOMAIN out'
          PROVE  /\ i = Len(out') /\ out'[i].code = "none" /\ req[d].open
                 /\ bound[out'[i].fd] = req[d].key
                 /\ Linked(d) => out'[i].fd = tableS[req[d].key]
      <4>1. i + 1 \in DOMAIN out /\ out'[i] = out[i + 1] /\ out[i + 1].fd # NoFD /\ i \in Nat
        BY <1>2, <3>2
      <4>2. i + 1 = Len(out)
        BY <2>1, <3>1, <4>1 DEF FDLast
      <4>3. QED BY <1>2, <2>1, <3>1, <4>1, <4>2 DEF FDLast
    <3>5. FDLast(d, OutTo(d), << >>)'
      BY <1>1, <3>1, <3>4 DEF FDLast, Linked
    <3>6. CodeFirst(d, OutTo(d), << >>)'
      BY <3>1, <3>2 DEF CodeFirst
    <3>7. QED BY <1>2, <2>1, <3>1, <3>2, <3>3, <3>5, <3>6
  <2>5. QED BY <2>3, <2>4
<1>7. FdsInv' /\ CallInv' /\ ConnInv' /\ DownInv' /\ RightTuple'
  BY <1>0, <1>1 DEF FdsInv, CallInv, ConnInv, DownInv, RightTuple
<1>8. \A k \in Keys : Holders(k)' \subseteq Holders(k)
  BY <1>1, <1>2 DEF Holders, Holds, ClosePending, FDOnItsWay, CarriesFD, Linked
<1>9. RefcountCovers'
  BY <1>0, <1>1, <1>8, CoversMono
<1>10. SharersShareOneSocket'
  BY <1>0, <1>1 DEF SharersShareOneSocket, Linked
<1>11. QED BY <1>4, <1>5, <1>6, <1>7, <1>9, <1>10

(* The daemon ends, and its table and its queue with it. *)
LEMMA InvDaemonExit ==
    ASSUME Inv, DaemonExit, UNCHANGED clientVars
    PROVE  /\ QuietInv' /\ QueuedInv' /\ ReplyInv' /\ FdsInv' /\ CallInv'
           /\ ConnInv' /\ DownInv' /\ RightTuple'
           /\ RefcountCovers' /\ SharersShareOneSocket'
<1>0. TypeOK /\ QuietInv /\ QueuedInv /\ ReplyInv /\ FdsInv /\ CallInv
      /\ ConnInv /\ DownInv /\ NodesWellFormed /\ RightTuple
      /\ RefcountCovers /\ SharersShareOneSocket
  BY DEF Inv
<1>1. /\ ~up' /\ inbox' = << >> /\ out' = << >>
      /\ tableS' = [k \in Keys |-> NoFD] /\ refcount' = [k \in Keys |-> 0]
      /\ UNCHANGED <<epoch, box, alive, bound, caddr, pc, req, conn, sock, priv, fds>>
  BY DEF DaemonExit, clientVars
<1>2. \A d \in Clients : OutTo(d)' = << >>
  BY <1>1 DEF OutTo
<1>3. QuietInv' /\ QueuedInv'
  BY <1>0, <1>1, <1>2 DEF QuietInv, QueuedInv, TypeOK
<1>4. ReplyInv'
  BY <1>0, <1>1, <1>2 DEF ReplyInv, ReplyTo, CodeFirst, FDLast, Linked, TypeOK
<1>5. FdsInv' /\ CallInv' /\ ConnInv' /\ DownInv' /\ RightTuple'
  BY <1>0, <1>1 DEF FdsInv, CallInv, ConnInv, DownInv, RightTuple
<1>6. \A k \in Keys : Holders(k)' = {}
  BY <1>1 DEF Holders, Holds, ClosePending, Linked
<1>7. RefcountCovers'
  BY <1>1, <1>6, FS_EmptySet DEF RefcountCovers
<1>8. SharersShareOneSocket'
  BY <1>1 DEF SharersShareOneSocket, Linked
<1>9. QED BY <1>3, <1>4, <1>5, <1>7, <1>8

(* A new incarnation: nobody is connected to it yet. *)
LEMMA InvDaemonStart ==
    ASSUME Inv, DaemonStart, UNCHANGED clientVars
    PROVE  /\ QuietInv' /\ QueuedInv' /\ ReplyInv' /\ FdsInv' /\ CallInv'
           /\ ConnInv' /\ DownInv' /\ RightTuple'
           /\ RefcountCovers' /\ SharersShareOneSocket'
<1>0. TypeOK /\ QuietInv /\ QueuedInv /\ ReplyInv /\ FdsInv /\ CallInv
      /\ ConnInv /\ DownInv /\ NodesWellFormed /\ RightTuple
      /\ RefcountCovers /\ SharersShareOneSocket
  BY DEF Inv
<1>1. /\ ~up /\ epoch' = epoch + 1
      /\ UNCHANGED <<inbox, box, alive, bound, tableS, refcount, caddr, out,
                     pc, req, conn, sock, priv, fds>>
  BY DEF DaemonStart, clientVars, daemonVars
<1>2. epoch \in Nat /\ \A c \in Clients : conn[c] \in Nat /\ conn[c] <= epoch
  BY <1>0 DEF TypeOK, ClientTypeOK, ConnInv
<1>3. inbox = << >> /\ out = << >>
  BY <1>0, <1>1 DEF DownInv
<1>4. \A c \in Clients : ~Linked(c)' /\ OutTo(c)' = << >> /\ OutTo(c) = << >>
  BY <1>1, <1>2, <1>3 DEF Linked, OutTo
<1>5. QuietInv' /\ QueuedInv'
  BY <1>0, <1>1, <1>3, <1>4 DEF QuietInv, QueuedInv, TypeOK
<1>6. ReplyInv'
  BY <1>0, <1>1, <1>4 DEF ReplyInv, ReplyTo, CodeFirst, FDLast, TypeOK
<1>7. FdsInv' /\ CallInv' /\ ConnInv' /\ DownInv' /\ RightTuple'
  BY <1>0, <1>1, <1>2 DEF FdsInv, CallInv, ConnInv, DownInv, RightTuple
<1>8. \A k \in Keys : Holders(k)' \subseteq Holders(k)
  BY <1>1, <1>4 DEF Holders, Holds, ClosePending
<1>9. RefcountCovers'
  BY <1>0, <1>1, <1>8, CoversMono
<1>10. SharersShareOneSocket'
  BY <1>4 DEF SharersShareOneSocket
<1>11. QED BY <1>5, <1>6, <1>7, <1>9, <1>10

-------------------------------------------------------------------------------
(* The inductive invariant holds initially. *)
LEMMA InvInit == Init => Inv
<1> SUFFICES ASSUME Init PROVE Inv
  OBVIOUS
<1>1. TypeOK
  BY TypeInit
<1>2. \A c \in Clients : OutTo(c) = << >>
  BY DEF OutTo, Init, DaemonInit
<1>3. QuietInv /\ QueuedInv /\ ReplyInv
  BY <1>1, <1>2 DEF QuietInv, QueuedInv, ReplyInv, ReplyTo, Init, ClientInit, TypeOK
<1>4. FdsInv /\ CallInv /\ ConnInv /\ DownInv
  BY DEF FdsInv, CallInv, ConnInv, DownInv, Init, DaemonInit, ClientInit
<1>5. NodesWellFormed /\ RightTuple /\ SharersShareOneSocket
  BY DEF NodesWellFormed, RightTuple, SharersShareOneSocket, Init, DaemonInit, ClientInit
<1>6. \A k \in Keys : Holders(k) = {}
  BY DEF Holders, Holds, ClosePending, Linked, Init
<1>7. RefcountCovers
  <2>1. ASSUME NEW k \in Keys PROVE Cardinality(Holders(k)) = 0 /\ refcount[k] = 0
    BY <1>6, FS_EmptySet DEF Init, DaemonInit
  <2>2. QED BY <2>1 DEF RefcountCovers
<1>8. QED BY <1>1, <1>3, <1>4, <1>5, <1>7 DEF Inv

(* A stuttering step keeps the inductive invariant. *)
LEMMA InvUnchanged ==
    ASSUME Inv, UNCHANGED vars
    PROVE  Inv'
<1>1. UNCHANGED <<up, epoch, inbox, box, alive, bound>>
  BY DEF vars, kernelVars
<1>2. UNCHANGED <<tableS, refcount, caddr, out>>
  BY DEF vars, daemonVars
<1>3. UNCHANGED <<pc, req, conn, sock, priv, fds>>
  BY DEF vars, clientVars
<1>4. TypeOK'
  BY <1>1, <1>2, <1>3 DEF Inv, TypeOK, DaemonTypeOK, ClientTypeOK
<1>5. QuietInv' /\ QueuedInv'
  BY <1>1, <1>2, <1>3 DEF Inv, QuietInv, QueuedInv, OutTo
<1>6. ReplyInv'
  BY <1>1, <1>2, <1>3 DEF Inv, ReplyInv, ReplyTo, CodeFirst, FDLast, OutTo, Linked
<1>7. FdsInv' /\ CallInv' /\ ConnInv' /\ DownInv'
  BY <1>1, <1>2, <1>3 DEF Inv, FdsInv, CallInv, ConnInv, DownInv
<1>8. NodesWellFormed' /\ RightTuple' /\ SharersShareOneSocket'
  BY <1>1, <1>2, <1>3 DEF Inv, NodesWellFormed, RightTuple, SharersShareOneSocket, Linked
<1>9. \A k \in Keys : Holders(k)' \subseteq Holders(k)
  BY <1>1, <1>2, <1>3 DEF Holders, Holds, ClosePending, FDOnItsWay, CarriesFD, Linked
<1>10. RefcountCovers'
  BY <1>2, <1>9, CoversMono DEF Inv
<1>11. QED BY <1>4, <1>5, <1>6, <1>7, <1>8, <1>10 DEF Inv

(* Every step that is no interruption of a call keeps the inductive invariant. *)
LEMMA InvStep ==
    ASSUME "interrupt" \notin Faults, Inv, [Next]_vars
    PROVE  Inv'
<1> DEFINE Rest == /\ QuietInv' /\ QueuedInv' /\ ReplyInv' /\ FdsInv' /\ CallInv'
                   /\ ConnInv' /\ DownInv' /\ RightTuple'
                   /\ RefcountCovers' /\ SharersShareOneSocket'
<1>0. TypeOK /\ NodesWellFormed
  BY DEF Inv
<1>1. CASE UNCHANGED vars
  BY <1>1, InvUnchanged
<1>2. NodesWellFormed'
  BY <1>0, NodesStep
<1>3. CASE DaemonNext
  <2>1. TypeOK'
    BY <1>0, <1>3, TypeDaemon
  <2>2. Rest
    BY <1>3, InvHandleRequest, InvSendReply, InvSendReplyFails, InvDaemonExit, InvDaemonStart
       DEF DaemonNext
  <2>3. QED BY <1>2, <2>1, <2>2 DEF Inv
<1>4. ASSUME NEW c \in Clients, ClientNext(c) PROVE Inv'
  <2>1. TypeOK'
    BY <1>0, <1>4, TypeClient
  <2>2. UNCHANGED <<tableS, refcount, caddr, out>>
    BY <1>4 DEF ClientNext, daemonVars
  <2>3. CASE ClientCall(c)
    <3>1. PICK k \in Keys :
             \/ OpenShared(c, k) \/ OpenSharedNoDaemon(c, k) \/ CloseShared(c, k)
             \/ \E o \in Free : OpenPrivate(c, k, o)
             \/ ClosePrivate(c, k)
      BY <2>3 DEF ClientCall
    <3>2. CASE OpenSharedNoDaemon(c, k)
      <4>1. UNCHANGED vars
        BY <2>2, <3>2 DEF OpenSharedNoDaemon, vars, daemonVars
      <4>2. QED BY <4>1, InvUnchanged
    <3>3. CASE ~OpenSharedNoDaemon(c, k)
      <4>1. Rest
        BY <2>2, <3>1, <3>3, InvOpenShared, InvCloseShared, InvOpenPrivate, InvClosePrivate
      <4>2. QED BY <1>2, <2>1, <4>1 DEF Inv
    <3>4. QED BY <3>2, <3>3
  <2>4. CASE ClientProgress(c) \/ ClientExit(c)
    <3>1. Rest
      BY <2>2, <2>4, InvSend, InvSendRefused, InvRecvResponseCode, InvReceiveFD, InvProcessEnds
         DEF ClientProgress, ReceiveFDNoControlMessage, ClientExit
    <3>2. QED BY <1>2, <2>1, <3>1 DEF Inv
  <2>5. ~Interrupted(c)
    BY DEF Interrupted
  <2>6. QED BY <1>4, <2>3, <2>4, <2>5 DEF ClientNext
<1>5. QED BY <1>1, <1>3, <1>4 DEF Next

(***************************************************************************)
(* The inductive invariant holds unless a blocked call of a client is      *)
(* interrupted: the daemon and its clients may end at any step, sends may  *)
(* fail, and the daemon may start anew.                                    *)
(***************************************************************************)
THEOREM InvTheorem ==
    ASSUME "interrupt" \notin Faults
    PROVE  Spec => []Inv
<1>1. Inv /\ [Next]_vars => Inv'
  BY InvStep
<1>2. QED BY InvInit, <1>1, PTL DEF Spec

(***************************************************************************)
(* Every process that uses a node's socket has a reference in the node, so *)
(* that closeSocketConnection never closes a socket in use.                *)
(***************************************************************************)
THEOREM RefcountTheorem ==
    ASSUME "interrupt" \notin Faults
    PROVE  Spec => []RefcountCovers
<1>1. Inv => RefcountCovers
  BY DEF Inv
<1>2. QED BY InvTheorem, <1>1, PTL

(* Processes that share a key through the daemon share one socket. *)
THEOREM SharingTheorem ==
    ASSUME "interrupt" \notin Faults
    PROVE  Spec => []SharersShareOneSocket
<1>1. Inv => SharersShareOneSocket
  BY DEF Inv
<1>2. QED BY InvTheorem, <1>1, PTL

(***************************************************************************)
(* A socket that a process has open, shared or not, is bound to the tuple  *)
(* it was opened for, also when the daemon that handed it out has ended.   *)
(***************************************************************************)
THEOREM RightTupleTheorem ==
    ASSUME "interrupt" \notin Faults
    PROVE  Spec => []RightTuple
<1>1. Inv => RightTuple
  BY DEF Inv
<1>2. QED BY InvTheorem, <1>1, PTL

(***************************************************************************)
(* receiveFD never meets a datagram without a control message.             *)
(***************************************************************************)
THEOREM ControlMessageTheorem ==
    ASSUME "interrupt" \notin Faults
    PROVE  Spec => []ControlMessagePresent
<1>1. Inv => ControlMessagePresent
  <2> SUFFICES ASSUME Inv, NEW c \in alive, pc[c] = "recvfd", box[c] # << >>
               PROVE  Head(box[c]).fd # NoFD
    BY DEF ControlMessagePresent
  <2>1. TypeOK /\ QuietInv /\ ReplyInv /\ box[c] \in Seq(Datagram)
    BY DEF Inv, TypeOK
  <2>2. 1 \in DOMAIN box[c] /\ Head(box[c]) = box[c][1]
    BY <2>1, HeadTail
  <2>3. QED BY <2>1, <2>2 DEF ReplyInv, ReplyTo, CodeFirst
<1>2. QED BY InvTheorem, <1>1, PTL

(***************************************************************************)
(* The single-threaded daemon never waits for a client to read its queue,  *)
(* if the queue has room for the two datagrams of one reply.               *)
(***************************************************************************)
THEOREM NeverBlockedTheorem ==
    ASSUME "interrupt" \notin Faults, QLen >= 2
    PROVE  Spec => []DaemonNeverBlocked
<1>1. Inv => DaemonNeverBlocked
  <2> SUFFICES ASSUME Inv, out # << >>, caddr \in alive PROVE Len(box[caddr]) < QLen
    BY DEF DaemonNeverBlocked
  <2>1. TypeOK /\ QuietInv /\ ReplyInv
    BY DEF Inv
  <2>2. OutTo(caddr) = out /\ pc[caddr] \in {"recv", "recvfd"}
    BY <2>1 DEF OutTo, QuietInv, TypeOK, ClientTypeOK, DaemonTypeOK
  <2>3. \A i \in DOMAIN box[caddr] : i = 1
    BY <2>1, <2>2 DEF ReplyInv, ReplyTo, CodeFirst, FDLast
  <2>4. DOMAIN box[caddr] = 1..Len(box[caddr]) /\ Len(box[caddr]) \in Nat
    BY <2>1, LenProperties DEF TypeOK, DaemonTypeOK
  <2>5. QED BY <2>3, <2>4, BoundsAssumption
<1>2. QED BY InvTheorem, <1>1, PTL

(* A step of the running daemon takes a node away only if nobody has its socket. *)
LEMMA TeardownStep ==
    ASSUME Inv, Next, NEW k \in Keys, tableS[k] # NoFD, tableS'[k] = NoFD, up',
           NEW c \in Clients, Linked(c)
    PROVE  sock[c][k] = NoFD
<1> SUFFICES ASSUME sock[c][k] # NoFD PROVE FALSE
  OBVIOUS
<1>0. TypeOK /\ QueuedInv /\ CallInv /\ RefcountCovers /\ NodesWellFormed
  BY DEF Inv
<1>1. HandleRequest(Free)
  BY <1>0 DEF Next, DaemonNext, ClientNext, daemonVars, SendReply, SendReplyFails,
     DaemonExit, DaemonStart
<1>2. PICK d \in Clients, j \in Keys, open \in BOOLEAN : Handles(d, j, open)
  BY <1>0, <1>1, Handled
<1>3. j = k /\ ~open /\ refcount[k] = 1
  BY <1>0, <1>2, NoFDAssumption DEF Handles, FoundOpen, OpenSocketConnection, Free,
     OpenSocketError, CloseSocketConnection, NoSuchSocket, TypeOK, DaemonTypeOK
<1>4. 1 \in DOMAIN inbox /\ inbox[1] = [from |-> d, open |-> FALSE, key |-> k]
  BY <1>0, <1>2, <1>3, HeadTail DEF Handles, TypeOK
<1>5. d \in Holders(k) /\ c \in Holders(k)
  BY <1>4 DEF Holders, Holds, ClosePending
<1>6. ASSUME d = c PROVE FALSE
  <2>1. c \in alive
    BY DEF Linked
  <2>2. inbox[1].from = c /\ inbox[1].key = k
    BY <1>4, <1>6
  <2>a. /\ pc[inbox[1].from] = "recv"
        /\ req[inbox[1].from] = [open |-> inbox[1].open, key |-> inbox[1].key]
    <3>1. 1 \in DOMAIN inbox /\ inbox[1].from \in alive
      BY <1>4, <2>1, <2>2
    <3>2. QED BY <1>0, <3>1, Zenon DEF QueuedInv
  <2>3. pc[c] = "recv" /\ req[c].key = k
    BY <2>2, <2>a
  <2>4. QED BY <1>0, <2>3 DEF CallInv
<1>7. QED BY <1>0, <1>3, <1>5, <1>6, TwoHolders

(***************************************************************************)
(* The running daemon tears a node down only when no process that it       *)
(* serves has the socket open.                                             *)
(***************************************************************************)
THEOREM TeardownTheorem ==
    ASSUME "interrupt" \notin Faults
    PROVE  Spec => TeardownOnlyWhenUnused
<1>1. Inv /\ [Next]_vars =>
         [\A k \in Keys :
            tableS[k] # NoFD /\ tableS'[k] = NoFD /\ up' =>
               \A c \in Clients : Linked(c) => sock[c][k] = NoFD]_vars
  BY TeardownStep
<1>2. QED BY InvTheorem, <1>1, PTL DEF Spec, TeardownOnlyWhenUnused
===============================================================================
