---------------------------- MODULE RefcountProofs ----------------------------
(***************************************************************************)
(* No reference is leaked: SharedSocketsProofs shows that every user of a  *)
(* node has a reference in it, and this module that every reference has a  *)
(* user, as long as all processes run and no send fails.                   *)
(***************************************************************************)
EXTENDS SharedSocketsProofs

(* The first element of a queue stays the first. *)
LEMMA AppendHead ==
    ASSUME NEW S, NEW s \in Seq(S), NEW e \in S
    PROVE  /\ Append(s, e) # << >>
           /\ Head(Append(s, e)) = IF s = << >> THEN e ELSE Head(s)
<1> DEFINE t == Append(s, e)
<1>1. /\ t \in Seq(S) /\ Len(t) = Len(s) + 1 /\ Len(s) \in Nat
      /\ \A i \in DOMAIN s : t[i] = s[i]
      /\ t[Len(s) + 1] = e
  BY AppendProps
<1> HIDE DEF t
<1>2. t # << >> /\ Head(t) = t[1]
  <2>1. Len(t) # 0
    BY <1>1
  <2>2. t # << >>
    BY <2>1
  <2>3. QED BY <1>1, <2>2, HeadTail
<1>3. CASE s = << >>
  <2>1. Len(s) = 0
    BY <1>3
  <2>2. t[1] = e
    BY <1>1, <2>1
  <2>3. QED BY <1>2, <1>3, <2>2 DEF t
<1>4. CASE s # << >>
  <2>1. 1 \in DOMAIN s /\ Head(s) = s[1]
    BY <1>4, HeadTail
  <2>2. QED BY <1>1, <1>2, <1>4, <2>1 DEF t
<1>5. QED BY <1>3, <1>4

(* The response code is on its way first, whatever the others do. *)
LEMMA CodeFirstKept ==
    ASSUME CodeComesFirst, NEW c \in Clients, alive' \subseteq alive,
           \A d \in alive' : d # c => pc'[d] = pc[d] /\ box'[d] = box[d],
           c \in alive' => pc'[c] # "recv",
           UNCHANGED <<caddr, out>>
    PROVE  CodeComesFirst'
  BY DEF CodeComesFirst, OutTo

LEMMA CodeFirstDaemon ==
    ASSUME "sendFails" \notin Faults, Inv, CodeComesFirst, DaemonNext
    PROVE  CodeComesFirst'
<1>0. TypeOK /\ QueuedInv
  BY DEF Inv
<1>1. UNCHANGED pc
  BY DEF DaemonNext, clientVars
<1>2. CASE HandleRequest(Free)
  <2>1. PICK c \in Clients, k \in Keys, open \in BOOLEAN : Handles(c, k, open)
    BY <1>0, <1>2, Handled
  <2>2. UNCHANGED <<box, alive>> /\ caddr' = c
    BY <2>1 DEF Handles
  <2>3. out' # << >> /\ Head(out').fd = NoFD
    BY <2>1 DEF Handles, FoundOpen, OpenSocketConnection, OpenSocketError,
       CloseSocketConnection, NoSuchSocket, CodeMsg
  <2>4. QED BY <1>1, <2>2, <2>3 DEF CodeComesFirst, OutTo
<1>3. CASE SendReply
  <2>1. /\ out # << >> /\ out' = Tail(out) /\ caddr \in alive
        /\ box' = [box EXCEPT ![caddr] = Append(@, Head(out))]
        /\ UNCHANGED <<alive, caddr>>
    BY <1>3 DEF SendReply
  <2>2. Head(out) \in Datagram /\ box[caddr] \in Seq(Datagram)
    BY <1>0, <2>1, HeadTail DEF TypeOK, DaemonTypeOK
  <2>3. box'[caddr] = Append(box[caddr], Head(out))
    BY <1>0, <2>1 DEF TypeOK
  <2>4. /\ box'[caddr] # << >>
        /\ Head(box'[caddr]) = IF box[caddr] = << >> THEN Head(out) ELSE Head(box[caddr])
    BY <2>2, <2>3, AppendHead
  <2>5. \A d \in Clients : d # caddr => box'[d] = box[d]
    BY <1>0, <2>1 DEF TypeOK
  <2>6. ASSUME NEW d \in alive, pc[d] = "recv"
        PROVE  /\ box'[d] # << >> => Head(box'[d]).fd = NoFD
               /\ box'[d] = << >> /\ OutTo(d)' # << >> => Head(OutTo(d)').fd = NoFD
    <3>1. CASE d = caddr
      BY <2>1, <2>4, <2>6, <3>1 DEF CodeComesFirst, OutTo
    <3>2. CASE d # caddr
      BY <1>0, <2>1, <2>5, <2>6, <3>2 DEF CodeComesFirst, OutTo, TypeOK
    <3>3. QED BY <3>1, <3>2
  <2>7. QED BY <1>1, <2>1, <2>6 DEF CodeComesFirst
<1>4. CASE SendReplyFails
  <2>1. caddr \notin alive /\ UNCHANGED <<box, alive, caddr>>
    BY <1>4 DEF SendReplyFails, kernelVars
  <2>2. QED BY <1>1, <2>1 DEF CodeComesFirst, OutTo
<1>5. CASE DaemonExit
  BY <1>1, <1>5 DEF DaemonExit, CodeComesFirst, OutTo
<1>6. CASE DaemonStart
  BY <1>1, <1>6 DEF DaemonStart, daemonVars, CodeComesFirst, OutTo
<1>7. QED BY <1>2, <1>3, <1>4, <1>5, <1>6 DEF DaemonNext

LEMMA CodeFirstClient ==
    ASSUME "interrupt" \notin Faults, Inv, CodeComesFirst, NEW c \in Clients, ClientNext(c)
    PROVE  CodeComesFirst'
<1> USE DEF TypeOK, ClientTypeOK
<1>0. TypeOK /\ QuietInv
  BY DEF Inv
<1>1. UNCHANGED <<caddr, out>>
  BY DEF ClientNext, daemonVars
<1>2. CASE Send(c)
  <2>1. /\ pc' = [pc EXCEPT ![c] = "recv"] /\ UNCHANGED <<box, alive>>
        /\ c \in alive /\ pc[c] = "send"
    BY <1>2 DEF Send
  <2>2. box[c] = << >> /\ OutTo(c) = << >>
    BY <1>0, <2>1 DEF QuietInv
  <2>3. OutTo(c)' = OutTo(c)
    BY <1>1 DEF OutTo
  <2>4. QED BY <1>0, <1>1, <2>1, <2>2, <2>3 DEF CodeComesFirst, OutTo
<1>3. ASSUME NEW k \in Keys, OpenShared(c, k) \/ CloseShared(c, k) PROVE CodeComesFirst'
  BY <1>0, <1>1, <1>3, CodeFirstKept DEF OpenShared, CloseShared, BeginRequest, kernelVars
<1>4. ASSUME NEW k \in Keys, OpenSharedNoDaemon(c, k) \/ ClosePrivate(c, k)
                             \/ \E o \in Free : OpenPrivate(c, k, o)
      PROVE CodeComesFirst'
  BY <1>1, <1>4
     DEF OpenSharedNoDaemon, ClosePrivate, OpenPrivate, kernelVars, clientVars,
         CodeComesFirst, OutTo
<1>5. CASE SendRefused(c)
  BY <1>0, <1>1, <1>5, CodeFirstKept DEF SendRefused, Return, kernelVars
<1>6. CASE RecvResponseCode(c)
  BY <1>0, <1>1, <1>6, CodeFirstKept DEF RecvResponseCode
<1>7. CASE ReceiveFD(c)
  BY <1>0, <1>1, <1>7, CodeFirstKept DEF ReceiveFD, Return
<1>8. CASE ProcessEnds(c)
  BY <1>0, <1>1, <1>8, CodeFirstKept DEF ProcessEnds
<1>9. ~Interrupted(c)
  BY DEF Interrupted
<1>10. QED
  BY <1>2, <1>3, <1>4, <1>5, <1>6, <1>7, <1>8, <1>9
     DEF ClientNext, ClientCall, ClientProgress, ReceiveFDNoControlMessage, ClientExit

LEMMA CodeFirstStep ==
    ASSUME "interrupt" \notin Faults, "sendFails" \notin Faults,
           Inv, CodeComesFirst, [Next]_vars
    PROVE  CodeComesFirst'
<1>1. CASE UNCHANGED vars
  BY <1>1 DEF vars, kernelVars, daemonVars, clientVars, CodeComesFirst, OutTo
<1>2. QED BY <1>1, CodeFirstDaemon, CodeFirstClient DEF Next

-------------------------------------------------------------------------------
(* Every reference has a user, as long as no process has ended. *)
NoneLeaked == alive = Clients => \A k \in Keys : refcount[k] <= Cardinality(Holders(k))

LEMMA ExactIffNoneLeaked ==
    ASSUME TypeOK, RefcountCovers
    PROVE  RefcountExact <=> NoneLeaked
<1>1. ASSUME NEW k \in Keys
      PROVE  /\ Cardinality(Holders(k)) \in Nat /\ refcount[k] \in Nat
             /\ Cardinality(Holders(k)) <= refcount[k]
  <2>1. IsFiniteSet(Holders(k))
    BY FS_Subset, ClientsAssumption DEF Holders
  <2>2. QED BY <2>1, FS_CardinalityType DEF TypeOK, DaemonTypeOK, RefcountCovers
<1>2. ASSUME NEW k \in Keys
      PROVE  Cardinality(Holders(k)) = refcount[k] <=> refcount[k] <= Cardinality(Holders(k))
  BY <1>1
<1>3. QED BY <1>2 DEF RefcountExact, NoneLeaked

(* A set of clients that has all of T has as many at least. *)
LEMMA AtLeast ==
    ASSUME NEW S \in SUBSET Clients, NEW T \in SUBSET S
    PROVE  /\ IsFiniteSet(S) /\ IsFiniteSet(T)
           /\ Cardinality(S) \in Nat /\ Cardinality(T) \in Nat
           /\ Cardinality(T) <= Cardinality(S)
<1>1. IsFiniteSet(S)
  BY FS_Subset, ClientsAssumption
<1>2. IsFiniteSet(T) /\ Cardinality(T) <= Cardinality(S)
  BY <1>1, FS_Subset
<1>3. QED BY <1>1, <1>2, FS_CardinalityType

LEMMA HolderSets == \A k : Holders(k) \in SUBSET Clients /\ Holders(k)' \in SUBSET Clients
  BY DEF Holders

(* A step that takes no user away and no reference. *)
LEMMA UsersKept ==
    ASSUME TypeOK, NoneLeaked, alive' = Clients => alive = Clients,
           alive' = Clients => \A k \in Keys : Holders(k) \subseteq Holders(k)',
           refcount' = refcount
    PROVE  NoneLeaked'
<1> SUFFICES ASSUME alive' = Clients, NEW k \in Keys
             PROVE  refcount[k] <= Cardinality(Holders(k)')
  BY DEF NoneLeaked
<1>1. Holders(k) \subseteq Holders(k)' /\ refcount[k] <= Cardinality(Holders(k))
  BY DEF NoneLeaked
<1>2. /\ Cardinality(Holders(k)) \in Nat /\ Cardinality(Holders(k)') \in Nat
      /\ Cardinality(Holders(k)) <= Cardinality(Holders(k)')
  BY <1>1, HolderSets, AtLeast
<1>3. QED BY <1>1, <1>2 DEF TypeOK, DaemonTypeOK

-------------------------------------------------------------------------------
(* The request the daemon handles is the only one of a process that waits  *)
(* for its answer.  An open makes the process a user, a close takes it off *)
(* the users, and the other users stay.                                    *)
LEMMA LeakHandleRequest ==
    ASSUME Inv, NoneLeaked, HandleRequest(Free), UNCHANGED clientVars
    PROVE  NoneLeaked'
<1>0. /\ TypeOK /\ QueuedInv /\ CallInv /\ NodesWellFormed
      /\ tableS \in [Keys -> FDOrNone] /\ refcount \in [Keys -> Nat]
  BY DEF Inv, TypeOK, DaemonTypeOK
<1>1. PICK c \in Clients, k \in Keys, open \in BOOLEAN : Handles(c, k, open)
  BY <1>0, Handled
<1>2. /\ up /\ out = << >> /\ caddr' = c
      /\ UNCHANGED <<up, epoch, box, alive, pc, req, conn, sock, priv, fds>>
  BY <1>1 DEF Handles, clientVars
<1> SUFFICES ASSUME alive = Clients PROVE NoneLeaked'
  BY <1>2 DEF NoneLeaked
<1>3. \A j \in Keys : refcount[j] <= Cardinality(Holders(j))
  BY DEF NoneLeaked
<1>4. /\ 1 \in DOMAIN inbox
      /\ inbox[1] = [from |-> c, open |-> open, key |-> k]
      /\ \A i \in DOMAIN inbox : i # 1 => i - 1 \in DOMAIN inbox' /\ inbox'[i - 1] = inbox[i]
  <2>1. inbox \in Seq(Request) /\ inbox # << >> /\ inbox' = Tail(inbox)
        /\ Head(inbox) = [from |-> c, open |-> open, key |-> k]
    BY <1>0, <1>1 DEF Handles, TypeOK
  <2>2. 1 \in DOMAIN inbox /\ Head(inbox) = inbox[1]
    BY <2>1, HeadTail
  <2>3. ASSUME NEW i \in DOMAIN inbox, i # 1
        PROVE  i - 1 \in DOMAIN inbox' /\ inbox'[i - 1] = inbox[i]
    BY <2>1, <2>3
  <2>4. QED BY <2>1, <2>2, <2>3
<1>5. /\ pc[c] = "recv" /\ req[c] = [open |-> open, key |-> k]
      /\ conn[c] = epoch /\ box[c] = << >>
      /\ \A i \in DOMAIN inbox : inbox[i].from = c => i = 1
  BY <1>0, <1>4 DEF QueuedInv
(* Nobody but c, and c of another key only, loses what made it a user. *)
<1>6. ASSUME NEW d \in Clients, NEW j \in Keys, Holds(d, j),
             open \/ d # c \/ j # k
      PROVE  Holds(d, j)'
  <2>1. CASE ClosePending(d, j)
    <3>1. PICK i \in DOMAIN inbox : inbox[i] = [from |-> d, open |-> FALSE, key |-> j]
      BY <2>1 DEF ClosePending
    <3>2. i # 1
      BY <1>4, <1>6, <3>1
    <3>3. i - 1 \in DOMAIN inbox' /\ inbox'[i - 1] = [from |-> d, open |-> FALSE, key |-> j]
      BY <1>4, <3>1, <3>2
    <3>4. QED BY <3>3 DEF Holds, ClosePending
  <2>2. CASE ~ClosePending(d, j)
    <3>1. Linked(d)'
      BY <1>2, <1>6, <2>2 DEF Holds, Linked
    <3>2. ~CarriesFD(out)
      BY <1>2 DEF CarriesFD
    <3>3. FDOnItsWay(d, j) => FDOnItsWay(d, j)'
      BY <1>2, <3>2 DEF FDOnItsWay, CarriesFD
    <3>4. QED BY <1>2, <1>6, <2>2, <3>1, <3>3 DEF Holds
  <2>3. QED BY <2>1, <2>2
<1>7. \A j \in Keys : j # k \/ open => Holders(j) \subseteq Holders(j)'
  BY <1>6 DEF Holders
<1>8. Holders(k) \ {c} \subseteq Holders(k)'
  BY <1>6 DEF Holders
(* The keys that the request is not about. *)
<1>9. ASSUME NEW j \in Keys, refcount'[j] = refcount[j], j # k \/ open \/ refcount[k] = 0
      PROVE  refcount'[j] <= Cardinality(Holders(j)')
  <2>1. Cardinality(Holders(j)') \in Nat /\ Cardinality(Holders(j)) \in Nat
    BY HolderSets, AtLeast
  <2>2. CASE j # k \/ open
    <3>1. Holders(j) \subseteq Holders(j)'
      BY <1>7, <2>2
    <3>2. Cardinality(Holders(j)) <= Cardinality(Holders(j)')
      BY <3>1, HolderSets, AtLeast
    <3>3. QED BY <1>0, <1>3, <1>9, <2>1, <3>2
  <2>3. CASE j = k /\ refcount[k] = 0
    BY <1>9, <2>1, <2>3
  <2>4. QED BY <1>9, <2>2, <2>3
(* c becomes a user of k. *)
<1>10. ASSUME open, CarriesFD(out'), refcount' = [refcount EXCEPT ![k] = refcount[k] + 1]
       PROVE  NoneLeaked'
  <2>1. c \notin Holders(k)
    <3>1. ~ClosePending(c, k)
      BY <1>4, <1>5, <1>10 DEF ClosePending
    <3>2. sock[c][k] = NoFD
      BY <1>0, <1>5 DEF CallInv
    <3>3. ~FDOnItsWay(c, k)
      BY <1>2, <1>5 DEF FDOnItsWay, CarriesFD
    <3>4. QED BY <1>5, <3>1, <3>2, <3>3 DEF Holders, Holds
  <2>2. c \in Holders(k)'
    <3>1. Linked(c)'
      BY <1>2, <1>5 DEF Linked
    <3>2. FDOnItsWay(c, k)'
      BY <1>2, <1>5, <1>10 DEF FDOnItsWay
    <3>3. QED BY <3>1, <3>2 DEF Holders, Holds
  <2>3. Holders(k) \cup {c} \subseteq Holders(k)'
    BY <1>7, <1>10, <2>2
  <2>4. /\ Cardinality(Holders(k) \cup {c}) <= Cardinality(Holders(k)')
        /\ Cardinality(Holders(k)') \in Nat /\ Cardinality(Holders(k)) \in Nat
        /\ IsFiniteSet(Holders(k))
    BY <2>3, HolderSets, AtLeast
  <2>5. Cardinality(Holders(k) \cup {c}) = Cardinality(Holders(k)) + 1
    BY <2>1, <2>4, FS_AddElement
  <2>6. refcount'[k] <= Cardinality(Holders(k)')
    BY <1>0, <1>3, <1>10, <2>4, <2>5
  <2>7. \A j \in Keys : j # k => refcount'[j] = refcount[j]
    BY <1>0, <1>10
  <2>8. QED BY <1>9, <2>6, <2>7 DEF NoneLeaked
<1>11. CASE open /\ FoundOpen(k)
  <2>1. refcount' = [refcount EXCEPT ![k] = refcount[k] + 1]
    BY <1>11 DEF FoundOpen
  <2>2. out' = <<CodeMsg("Success"), FDMsg(tableS[k])>> /\ tableS[k] # NoFD
    BY <1>11 DEF FoundOpen, Found
  <2>3. CarriesFD(out')
    BY <2>2 DEF CarriesFD, FDMsg
  <2>4. QED BY <1>10, <1>11, <2>1, <2>3
<1>12. ASSUME open, NEW o \in Free, OpenSocketConnection(k, o) PROVE NoneLeaked'
  <2>1. refcount[k] = 0
    BY <1>0, <1>12 DEF OpenSocketConnection, Found, NodesWellFormed
  <2>2. refcount' = [refcount EXCEPT ![k] = refcount[k] + 1]
    BY <1>12, <2>1 DEF OpenSocketConnection
  <2>3. out' = <<CodeMsg("Success"), FDMsg(o)>> /\ o # NoFD
    BY <1>12, NoFDAssumption DEF OpenSocketConnection, Free
  <2>4. CarriesFD(out')
    BY <2>3 DEF CarriesFD, FDMsg
  <2>5. QED BY <1>10, <1>12, <2>2, <2>4
<1>13. CASE open /\ OpenSocketError(k)
  BY <1>9, <1>13 DEF OpenSocketError, NoneLeaked
<1>14. CASE ~open /\ CloseSocketConnection(k)
  <2>1. refcount' = [refcount EXCEPT ![k] = refcount[k] - 1]
    BY <1>14 DEF CloseSocketConnection
  <2>2. /\ Cardinality(Holders(k) \ {c}) <= Cardinality(Holders(k)')
        /\ Cardinality(Holders(k) \ {c}) \in Nat
        /\ Cardinality(Holders(k)') \in Nat
    BY <1>8, HolderSets, AtLeast
  <2>3. IsFiniteSet(Holders(k)) /\ Cardinality(Holders(k)) \in Nat
    BY HolderSets, AtLeast
  <2>4. Cardinality(Holders(k) \ {c}) >= Cardinality(Holders(k)) - 1
    <3>1. Cardinality(Holders(k) \ {c}) = IF c \in Holders(k) THEN Cardinality(Holders(k)) - 1
                                          ELSE Cardinality(Holders(k))
      BY <2>3, FS_RemoveElement
    <3>2. QED BY <2>3, <3>1
  <2>5. refcount'[k] <= Cardinality(Holders(k)')
    BY <1>0, <1>3, <2>1, <2>2, <2>3, <2>4
  <2>6. \A j \in Keys : j # k => refcount'[j] = refcount[j]
    BY <1>0, <2>1
  <2>7. QED BY <1>9, <2>5, <2>6 DEF NoneLeaked
<1>15. CASE ~open /\ NoSuchSocket(k)
  <2>1. refcount[k] = 0 /\ refcount' = refcount
    BY <1>0, <1>15 DEF NoSuchSocket, Found, NodesWellFormed
  <2>2. QED BY <1>9, <2>1 DEF NoneLeaked
<1>16. QED BY <1>1, <1>11, <1>12, <1>13, <1>14, <1>15 DEF Handles

(* The other steps of the daemon take nothing away; when it ends, its      *)
(* references and its users go together.                                   *)
LEMMA LeakDaemon ==
    ASSUME "sendFails" \notin Faults, Inv, NoneLeaked, DaemonNext
    PROVE  NoneLeaked'
<1>0. TypeOK /\ DownInv /\ NodesWellFormed
  BY DEF Inv
<1>1. UNCHANGED <<pc, req, conn, sock>> /\ UNCHANGED clientVars
  BY DEF DaemonNext, clientVars
<1>2. CASE SendReply
  <2>1. /\ out # << >> /\ out' = Tail(out) /\ caddr \in Clients
        /\ box' = [box EXCEPT ![caddr] = Append(@, Head(out))]
        /\ UNCHANGED <<up, epoch, inbox, alive, refcount, caddr>>
    BY <1>0, <1>2 DEF SendReply, TypeOK, DaemonTypeOK
  <2>2. \A d \in Clients : d # caddr => box'[d] = box[d]
    BY <1>0, <2>1 DEF TypeOK
  <2>3. CarriesFD(box[caddr]) \/ CarriesFD(out) => CarriesFD(box'[caddr]) \/ CarriesFD(out')
    <3>1. /\ out \in Seq(Datagram) /\ box[caddr] \in Seq(Datagram)
          /\ box'[caddr] = Append(box[caddr], Head(out))
      BY <1>0, <2>1 DEF TypeOK, DaemonTypeOK
    <3>2. /\ Head(out) \in Datagram /\ Head(out) = out[1]
          /\ DOMAIN out = 1..Len(out) /\ Len(out) \in Nat
      BY <2>1, <3>1, HeadTail
    <3>3. /\ \A i \in DOMAIN box[caddr] :
                i \in DOMAIN box'[caddr] /\ box'[caddr][i] = box[caddr][i]
          /\ Len(box[caddr]) + 1 \in DOMAIN box'[caddr]
          /\ box'[caddr][Len(box[caddr]) + 1] = out[1]
      BY <3>1, <3>2, AppendProps
    <3>4. \A i \in DOMAIN out : i # 1 => i - 1 \in DOMAIN out' /\ out'[i - 1] = out[i]
      <4>1. out' \in Seq(Datagram) /\ Len(out') = Len(out) - 1
            /\ \A i \in 1..Len(out') : out'[i] = out[i + 1]
        BY <2>1, <3>1, HeadTailProperties
      <4>2. DOMAIN out' = 1..(Len(out) - 1)
        BY <4>1, LenProperties
      <4>3. ASSUME NEW i \in DOMAIN out, i # 1
            PROVE  i - 1 \in 1..(Len(out) - 1) /\ (i - 1) + 1 = i
        BY <3>2, <4>3
      <4>4. QED BY <4>1, <4>2, <4>3
    <3>5. QED BY <3>3, <3>4 DEF CarriesFD
  <2>4. \A d \in Clients, j \in Keys : FDOnItsWay(d, j) => FDOnItsWay(d, j)'
    BY <1>1, <2>1, <2>2, <2>3 DEF FDOnItsWay
  <2>5. \A d \in Clients, j \in Keys : Holds(d, j) => Holds(d, j)'
    BY <1>1, <2>1, <2>4 DEF Holds, ClosePending, Linked
  <2>6. \A j \in Keys : Holders(j) \subseteq Holders(j)'
    BY <2>5 DEF Holders
  <2>7. QED BY <1>0, <2>1, <2>6, UsersKept
<1>3. CASE SendReplyFails
  <2>1. caddr \notin alive /\ caddr \in Clients /\ alive' = alive
    BY <1>0, <1>3 DEF SendReplyFails, kernelVars, TypeOK, DaemonTypeOK
  <2>2. QED BY <2>1 DEF NoneLeaked
<1>4. CASE DaemonExit \/ DaemonStart
  <2>1. \A k \in Keys : refcount'[k] = 0
    BY <1>0, <1>4 DEF DaemonExit, DaemonStart, daemonVars, DownInv, NodesWellFormed
  <2>2. \A k \in Keys : Cardinality(Holders(k)') \in Nat
    BY HolderSets, AtLeast
  <2>3. QED BY <2>1, <2>2 DEF NoneLeaked
<1>5. QED BY <1>1, <1>2, <1>3, <1>4, LeakHandleRequest DEF DaemonNext

(* A process stays a user through its whole call, from send to the answer. *)
LEMMA LeakClient ==
    ASSUME "interrupt" \notin Faults, Inv, CodeComesFirst, NoneLeaked,
           NEW c \in Clients, ClientNext(c)
    PROVE  NoneLeaked'
<1> USE DEF TypeOK, ClientTypeOK
<1>0. TypeOK /\ QuietInv /\ ReplyInv /\ ConnInv
  BY DEF Inv
<1>1. UNCHANGED <<tableS, refcount, caddr, out>>
  BY DEF ClientNext, daemonVars
<1>2. ASSUME UNCHANGED alive, \A d \in Clients, j \in Keys : Holds(d, j) => Holds(d, j)'
      PROVE  NoneLeaked'
  <2>1. \A j \in Keys : Holders(j) \subseteq Holders(j)'
    BY <1>2 DEF Holders
  <2>2. QED BY <1>0, <1>1, <1>2, <2>1, UsersKept
<1>3. ASSUME NEW k \in Keys, OpenShared(c, k) PROVE NoneLeaked'
  <2>1. \A d \in Clients, j \in Keys : Holds(d, j) => Holds(d, j)'
    BY <1>0, <1>1, <1>3 DEF OpenShared, BeginRequest, SetupDaemonCommunication, kernelVars,
       Holds, ClosePending, FDOnItsWay, CarriesFD, Linked, ConnInv
  <2>2. QED BY <1>2, <1>3, <2>1 DEF OpenShared, kernelVars
<1>4. ASSUME NEW k \in Keys, CloseShared(c, k) PROVE NoneLeaked'
  <2>1. \A d \in Clients, j \in Keys : Holds(d, j) => Holds(d, j)'
    BY <1>0, <1>1, <1>4 DEF CloseShared, BeginRequest, SetupDaemonCommunication, kernelVars,
       Holds, ClosePending, FDOnItsWay, CarriesFD, Linked, ConnInv
  <2>2. QED BY <1>2, <1>4, <2>1 DEF CloseShared, kernelVars
<1>5. ASSUME NEW k \in Keys, OpenSharedNoDaemon(c, k) \/ ClosePrivate(c, k)
                             \/ \E o \in Free : OpenPrivate(c, k, o)
      PROVE  NoneLeaked'
  <2>1. UNCHANGED <<up, epoch, inbox, box, alive, pc, req, conn, sock>>
    BY <1>5 DEF OpenSharedNoDaemon, ClosePrivate, OpenPrivate, kernelVars, clientVars
  <2>2. \A d \in Clients, j \in Keys : Holds(d, j) => Holds(d, j)'
    BY <1>1, <2>1 DEF Holds, ClosePending, FDOnItsWay, CarriesFD, Linked
  <2>3. QED BY <1>2, <2>1, <2>2
<1>6. CASE Send(c)
  <2> DEFINE r == [from |-> c, open |-> req[c].open, key |-> req[c].key]
  <2>1. /\ pc[c] = "send" /\ pc' = [pc EXCEPT ![c] = "recv"]
        /\ inbox' = Append(inbox, r)
        /\ UNCHANGED <<up, epoch, box, alive, req, conn, sock>>
    BY <1>6 DEF Send
  <2>2. /\ \A i \in DOMAIN inbox : i \in DOMAIN inbox' /\ inbox'[i] = inbox[i]
        /\ Len(inbox) + 1 \in DOMAIN inbox' /\ inbox'[Len(inbox) + 1] = r
    <3>1. r \in Request
      BY <1>0 DEF Request
    <3> HIDE DEF r
    <3>2. inbox \in Seq(Request) /\ Len(inbox) + 1 \in 1..(Len(inbox) + 1)
      BY <1>0
    <3>3. QED BY <2>1, <3>1, <3>2, AppendProps
  <2>3. \A d, j : ClosePending(d, j) => ClosePending(d, j)'
    BY <2>2 DEF ClosePending
  <2>4. ASSUME NEW j \in Keys, req[c] = [open |-> FALSE, key |-> j]
        PROVE  ClosePending(c, j)'
    BY <2>2, <2>4 DEF ClosePending
  <2>5. \A d \in Clients : (d # c => pc'[d] = pc[d]) /\ pc'[c] = "recv"
    BY <1>0, <2>1
  <2>6. \A d \in Clients, j \in Keys : Holds(d, j) => Holds(d, j)'
    BY <1>1, <2>1, <2>3, <2>4, <2>5 DEF Holds, FDOnItsWay, CarriesFD, Linked
  <2>7. QED BY <1>2, <2>1, <2>6
<1>7. CASE SendRefused(c)
  <2>1. ~Linked(c) /\ pc' = [pc EXCEPT ![c] = "idle"]
        /\ UNCHANGED <<up, epoch, inbox, box, alive, req, conn, sock>>
    BY <1>7 DEF SendRefused, Return, kernelVars
  <2>2. \A d \in Clients : d # c => pc'[d] = pc[d]
    BY <1>0, <2>1
  <2>3. \A d \in Clients, j \in Keys : Holds(d, j) => Holds(d, j)'
    BY <1>1, <2>1, <2>2 DEF Holds, ClosePending, FDOnItsWay, CarriesFD, Linked
  <2>4. QED BY <1>2, <2>1, <2>3
<1>8. CASE RecvResponseCode(c)
  <2>1. /\ c \in alive /\ pc[c] = "recv" /\ box[c] # << >>
        /\ box' = [box EXCEPT ![c] = Tail(@)]
        /\ pc' = [pc EXCEPT ![c] = IF Head(box[c]).code = "Success" /\ req[c].open
                                   THEN "recvfd" ELSE "idle"]
        /\ UNCHANGED <<up, epoch, inbox, alive, req, conn, sock>>
    BY <1>8 DEF RecvResponseCode
  <2>2. /\ box[c] \in Seq(Datagram) /\ DOMAIN box[c] = 1..Len(box[c]) /\ Len(box[c]) \in Nat
        /\ 1 \in DOMAIN box[c] /\ Head(box[c]) = box[c][1]
    BY <1>0, <2>1, HeadTail
  <2>3. box[c][1].fd = NoFD
    BY <2>1, <2>2 DEF CodeComesFirst
  (* The descriptor that is on its way comes after the code. *)
  <2>4. CarriesFD(box[c]) => CarriesFD(box'[c]) /\ Len(box[c]) # 1
    <3>1. SUFFICES ASSUME NEW i \in DOMAIN box[c], box[c][i].fd # NoFD
                   PROVE  CarriesFD(box'[c]) /\ Len(box[c]) # 1
      BY DEF CarriesFD
    <3>2. i # 1 /\ i \in 1..Len(box[c])
      BY <2>2, <2>3, <3>1
    <3>3. box'[c] = Tail(box[c])
      BY <1>0, <2>1
    <3>4. /\ Tail(box[c]) \in Seq(Datagram) /\ Len(Tail(box[c])) = Len(box[c]) - 1
          /\ \A n \in 1..Len(Tail(box[c])) : Tail(box[c])[n] = box[c][n + 1]
      BY <2>1, <2>2, HeadTailProperties
    <3>5. DOMAIN Tail(box[c]) = 1..(Len(box[c]) - 1)
      BY <3>4, LenProperties
    <3>6. i - 1 \in 1..(Len(box[c]) - 1) /\ (i - 1) + 1 = i /\ Len(box[c]) # 1
      <4>1. \A len \in Nat : \A n \in 1..len :
               n # 1 => n - 1 \in 1..(len - 1) /\ (n - 1) + 1 = n /\ len # 1
        OBVIOUS
      <4>2. Len(box[c]) \in Nat
        BY <2>2
      <4>3. QED BY <3>2, <4>1, <4>2, Zenon
    <3>7. Tail(box[c])[i - 1].fd # NoFD
      BY <3>1, <3>4, <3>6
    <3>8. QED BY <3>3, <3>5, <3>6, <3>7 DEF CarriesFD
  <2>5. ASSUME NEW j \in Keys, FDOnItsWay(c, j) PROVE FDOnItsWay(c, j)'
    <3>1. req[c].open /\ (CarriesFD(box[c]) \/ (caddr = c /\ CarriesFD(out)))
      BY <2>5 DEF FDOnItsWay
    <3>2. CarriesFD(out) => out # << >>
      BY DEF CarriesFD
    <3>3. Len(box[c]) # 1 \/ OutTo(c) # << >>
      BY <2>4, <3>1, <3>2 DEF OutTo
    <3>4. Head(box[c]).code = "Success"
      <4>1. CodeFirst(c, box[c], OutTo(c))
        BY <1>0, <2>1 DEF ReplyInv, ReplyTo
      <4>2. QED BY <2>2, <2>3, <3>3, <4>1 DEF CodeFirst
    <3>5. pc'[c] = "recvfd"
      BY <1>0, <2>1, <3>1, <3>4
    <3>6. QED BY <1>1, <2>1, <2>4, <2>5, <3>5 DEF FDOnItsWay
  <2>6. \A d \in Clients : d # c => pc'[d] = pc[d] /\ box'[d] = box[d]
    BY <1>0, <2>1
  <2>7. \A d \in Clients, j \in Keys : FDOnItsWay(d, j) => FDOnItsWay(d, j)'
    BY <1>1, <2>1, <2>5, <2>6 DEF FDOnItsWay
  <2>8. \A d \in Clients, j \in Keys : Holds(d, j) => Holds(d, j)'
    BY <2>1, <2>6, <2>7 DEF Holds, ClosePending, Linked
  <2>9. QED BY <1>2, <2>1, <2>8
<1>9. CASE ReceiveFD(c)
  <2>1. /\ pc[c] = "recvfd" /\ Head(box[c]).fd # NoFD
        /\ box' = [box EXCEPT ![c] = Tail(@)]
        /\ sock' = [sock EXCEPT ![c][req[c].key] = Head(box[c]).fd]
        /\ pc' = [pc EXCEPT ![c] = "idle"]
        /\ UNCHANGED <<up, epoch, inbox, alive, req, conn>>
    BY <1>9 DEF ReceiveFD, Return
  <2>2. \A d \in Clients : d # c => pc'[d] = pc[d] /\ box'[d] = box[d] /\ sock'[d] = sock[d]
    BY <1>0, <2>1
  <2>3. \A j \in Keys : /\ sock[c][j] # NoFD => sock'[c][j] # NoFD
                        /\ req[c].key = j => sock'[c][j] # NoFD
    BY <1>0, <2>1
  <2>4. \A d \in Clients, j \in Keys : d # c /\ FDOnItsWay(d, j) => FDOnItsWay(d, j)'
    BY <1>1, <2>1, <2>2 DEF FDOnItsWay
  <2>5. \A j \in Keys : FDOnItsWay(c, j) => req[c].key = j
    BY DEF FDOnItsWay
  <2>6. \A d \in Clients, j \in Keys : Holds(d, j) => Holds(d, j)'
    BY <2>1, <2>2, <2>3, <2>4, <2>5 DEF Holds, ClosePending, Linked
  <2>7. QED BY <1>2, <2>1, <2>6
<1>10. CASE ProcessEnds(c)
  BY <1>10 DEF ProcessEnds, NoneLeaked
<1>11. ~Interrupted(c)
  BY DEF Interrupted
<1>12. QED
  BY <1>3, <1>4, <1>5, <1>6, <1>7, <1>8, <1>9, <1>10, <1>11
     DEF ClientNext, ClientCall, ClientProgress, ReceiveFDNoControlMessage, ClientExit

LEMMA LeakUnchanged ==
    ASSUME Inv, NoneLeaked, UNCHANGED vars
    PROVE  NoneLeaked'
<1>1. UNCHANGED <<up, epoch, inbox, box, alive, refcount, caddr, out, pc, req, conn, sock>>
  BY DEF vars, kernelVars, daemonVars, clientVars
<1>2. \A j \in Keys : Holders(j) \subseteq Holders(j)'
  BY <1>1 DEF Holders, Holds, ClosePending, FDOnItsWay, CarriesFD, Linked
<1>3. QED BY <1>1, <1>2, UsersKept DEF Inv

-------------------------------------------------------------------------------
LEMMA ExactInit == Init => CodeComesFirst /\ NoneLeaked
<1> SUFFICES ASSUME Init PROVE CodeComesFirst /\ NoneLeaked
  OBVIOUS
<1>1. CodeComesFirst
  BY DEF Init, ClientInit, CodeComesFirst
<1>2. \A k \in Keys : refcount[k] = 0 /\ Cardinality(Holders(k)) \in Nat
  BY HolderSets, AtLeast DEF Init, DaemonInit
<1>3. QED BY <1>1, <1>2 DEF NoneLeaked

LEMMA ExactStep ==
    ASSUME "interrupt" \notin Faults, "sendFails" \notin Faults
    PROVE  Inv /\ CodeComesFirst /\ NoneLeaked /\ [Next]_vars
               => Inv' /\ CodeComesFirst' /\ NoneLeaked'
<1> SUFFICES ASSUME Inv, CodeComesFirst, NoneLeaked, [Next]_vars
             PROVE  Inv' /\ CodeComesFirst' /\ NoneLeaked'
  OBVIOUS
<1>1. Inv' /\ CodeComesFirst'
  BY InvStep, CodeFirstStep
<1>2. NoneLeaked'
  BY LeakDaemon, LeakClient, LeakUnchanged DEF Next
<1>3. QED BY <1>1, <1>2

(***************************************************************************)
(* A process that awaits a response code never gets a descriptor in its    *)
(* place, in whatever order the processes and the daemon run and end.      *)
(***************************************************************************)
THEOREM CodeFirstTheorem ==
    ASSUME "interrupt" \notin Faults, "sendFails" \notin Faults
    PROVE  Spec => []CodeComesFirst
<1>1. Inv /\ CodeComesFirst /\ [Next]_vars => Inv' /\ CodeComesFirst'
  BY InvStep, CodeFirstStep
<1>2. QED BY InvInit, ExactInit, <1>1, PTL DEF Spec

(***************************************************************************)
(* The reference count of a node is the number of its users, for any       *)
(* number of processes, tuples and restarts of the daemon, until a process *)
(* ends, which tells the daemon nothing, or a reply is lost.  So that when *)
(* all users have closed, closeSocketConnection has closed the socket.     *)
(***************************************************************************)
THEOREM ExactTheorem ==
    ASSUME "interrupt" \notin Faults, "sendFails" \notin Faults
    PROVE  Spec => []RefcountExact
<1>1. Inv /\ NoneLeaked => RefcountExact
  BY ExactIffNoneLeaked DEF Inv
<1>2. QED BY InvInit, ExactInit, ExactStep, <1>1, PTL DEF Spec
===============================================================================
