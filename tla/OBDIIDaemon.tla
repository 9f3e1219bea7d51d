----------------------------- MODULE OBDIIDaemon ------------------------------
(***************************************************************************)
(* The obdiid process: a single-threaded loop that takes one request off   *)
(* its socket, updates the table of reference-counted ISO-TP sockets and   *)
(* sends one or two datagrams back.  Each sendto/sendmsg is a step of its  *)
(* own, since clients run between them; the table update is one step, as   *)
(* nobody else can see the table.                                          *)
(*                                                                         *)
(* The list obdiiSockets is a function from keys to its node's fields      *)
(* here; ConnList models the pointers and implements this function.        *)
(***************************************************************************)
EXTENDS DaemonProtocol

VARIABLES
    tableS,    \* tableS[k]: the field s of k's node, NoFD if k has no node
    refcount,  \* refcount[k]: the field refcount, 0 if k has no node
    caddr,     \* address the request being handled came from
    out        \* datagrams the handler of that request has still to send

daemonVars == <<tableS, refcount, caddr, out>>

DaemonTypeOK ==
    /\ tableS \in [Keys -> FDOrNone]
    /\ refcount \in [Keys -> Nat]
    /\ caddr \in Clients
    /\ out \in Seq(Datagram)

DaemonInit ==
    /\ tableS = [k \in Keys |-> NoFD]
    /\ refcount = [k \in Keys |-> 0]
    /\ caddr \in Clients
    /\ out = << >>

-------------------------------------------------------------------------------
(* Is there a node for k?  socketConnectionMatchingParams *)
Found(k) == tableS[k] # NoFD

(* A bug: found->refcount++ is missing. *)
FoundOpenNotCounted(k) ==
    /\ Found(k)
    /\ out' = <<CodeMsg("Success"), FDMsg(tableS[k])>>
    /\ UNCHANGED <<tableS, refcount, bound>>

(* A bug: the search stops at a node whatever its parameters are. *)
FoundOpenAnyNode(k) ==
    \E j \in Keys :
        /\ Found(k) /\ Found(j)
        /\ refcount' = [refcount EXCEPT ![k] = @ + 1]
        /\ out' = <<CodeMsg("Success"), FDMsg(tableS[j])>>
        /\ UNCHANGED <<tableS, bound>>

(* A bug: the descriptor is sent before the response code. *)
FoundOpenFDFirst(k) ==
    /\ Found(k)
    /\ refcount' = [refcount EXCEPT ![k] = @ + 1]
    /\ out' = <<FDMsg(tableS[k]), CodeMsg("Success")>>
    /\ UNCHANGED <<tableS, bound>>

(* An open of a key that has a node takes one more reference to it. *)
FoundOpen(k) ==
    /\ Found(k)
    /\ refcount' = [refcount EXCEPT ![k] = @ + 1]
    /\ out' = <<CodeMsg("Success"), FDMsg(tableS[k])>>
    /\ UNCHANGED <<tableS, bound>>

(* A bug: a new node starts without a reference. *)
OpenForgetsReference(k, o) ==
    /\ ~Found(k)
    /\ tableS' = [tableS EXCEPT ![k] = o]
    /\ bound' = [bound EXCEPT ![o] = k]
    /\ out' = <<CodeMsg("Success"), FDMsg(o)>>
    /\ UNCHANGED refcount

(* openSocketConnection: a new ISO-TP socket, bound to k, in a new node. *)
OpenSocketConnection(k, o) ==
    /\ ~Found(k)
    /\ tableS' = [tableS EXCEPT ![k] = o]
    /\ refcount' = [refcount EXCEPT ![k] = 1]
    /\ bound' = [bound EXCEPT ![o] = k]
    /\ out' = <<CodeMsg("Success"), FDMsg(o)>>

(* A bug: the failure is not reported to the client. *)
OpenErrorNotReported(k) ==
    /\ ~Found(k)
    /\ out' = << >>
    /\ UNCHANGED <<tableS, refcount, bound>>

(* socket, bind or malloc failed: openSocketConnection returns NULL. *)
OpenSocketError(k) ==
    /\ ~Found(k)
    /\ out' = <<CodeMsg("OpenSocketError")>>
    /\ UNCHANGED <<tableS, refcount, bound>>

(* A bug: the node is torn down although references remain. *)
CloseDropsLastButOne(k) ==
    /\ Found(k)
    /\ refcount' = [refcount EXCEPT ![k] = IF @ <= 2 THEN 0 ELSE @ - 1]
    /\ tableS' = [tableS EXCEPT ![k] = IF refcount[k] <= 2 THEN NoFD ELSE @]
    /\ out' = <<CodeMsg("Success")>>
    /\ UNCHANGED bound

(* closeSocketConnection: give a reference back, tear down at zero. *)
CloseSocketConnection(k) ==
    /\ Found(k)
    /\ refcount' = [refcount EXCEPT ![k] = @ - 1]
    /\ tableS' = [tableS EXCEPT ![k] = IF refcount[k] = 1 THEN NoFD ELSE @]
    /\ out' = <<CodeMsg("Success")>>
    /\ UNCHANGED bound

NoSuchSocket(k) ==
    /\ ~Found(k)
    /\ out' = <<CodeMsg("NoSuchSocket")>>
    /\ UNCHANGED <<tableS, refcount, bound>>

(***************************************************************************)
(* One iteration of main's loop up to the first send: recvfrom,            *)
(* handleMessage, handleSocketRequest.  free is the set of OFDs that no    *)
(* descriptor refers to.                                                   *)
(***************************************************************************)
HandleRequest(free) ==
    /\ up /\ out = << >> /\ inbox # << >>
    /\ inbox' = Tail(inbox)
    /\ caddr' = Head(inbox).from
    /\ LET k == Head(inbox).key IN
       IF Head(inbox).open
       THEN \/ FoundOpen(k)
            \/ \E o \in free : OpenSocketConnection(k, o)
            \/ OpenSocketError(k)
       ELSE \/ CloseSocketConnection(k)
            \/ NoSuchSocket(k)
    /\ UNCHANGED <<up, epoch, box, alive>>

(***************************************************************************)
(* sendResponseCode and sendFD: the next datagram goes to the client's     *)
(* socket; the daemon blocks while that socket's queue is full.            *)
(***************************************************************************)
SendReply ==
    /\ up /\ out # << >>
    /\ caddr \in alive
    /\ Len(box[caddr]) < QLen
    /\ box' = [box EXCEPT ![caddr] = Append(@, Head(out))]
    /\ out' = Tail(out)
    /\ UNCHANGED <<up, epoch, inbox, alive, bound, tableS, refcount, caddr>>

(* A send that fails is logged, and the handler goes on. *)
SendReplyFails ==
    /\ up /\ out # << >>
    /\ caddr \notin alive \/ "sendFails" \in Faults
    /\ out' = Tail(out)
    /\ UNCHANGED <<kernelVars, tableS, refcount, caddr>>

(* The daemon exits: recvfrom failed, or the process was killed. *)
DaemonExit ==
    /\ "daemonCrash" \in Faults
    /\ up
    /\ up' = FALSE
    /\ inbox' = << >>
    /\ out' = << >>
    /\ tableS' = [k \in Keys |-> NoFD]
    /\ refcount' = [k \in Keys |-> 0]
    /\ UNCHANGED <<epoch, box, alive, bound, caddr>>

(* main up to its loop: the stale path is unlinked, a new socket bound. *)
DaemonStart ==
    /\ ~up /\ epoch < MaxEpoch
    /\ up' = TRUE
    /\ epoch' = epoch + 1
    /\ UNCHANGED <<inbox, box, alive, bound, daemonVars>>
===============================================================================
