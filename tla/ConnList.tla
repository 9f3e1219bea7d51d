------------------------------- MODULE ConnList -------------------------------
(***************************************************************************)
(* The daemon's doubly linked list of OBDIISocketConnection nodes, down to *)
(* its pointers.  A request for a key searches the list, and appends,      *)
(* counts or unlinks a node; the daemon is single-threaded, so that each   *)
(* request is one step.  The list implements the table of OBDIIDaemon.     *)
(***************************************************************************)
EXTENDS Naturals, FiniteSets, Sequences

CONSTANTS
    Addrs,    \* addresses malloc can return
    NULL,
    Keys,     \* (ifindex, tid, rid) tuples
    OFDs,     \* ISO-TP sockets
    NoFD,     \* no descriptor
    MaxRefs   \* bound: references to one node

ASSUME NullAssumption == NULL \notin Addrs
ASSUME HeapAssumption == IsFiniteSet(Addrs) /\ MaxRefs \in Nat
ASSUME NoFDAssumption == NoFD \notin OFDs

VARIABLES
    obdiiSockets,  \* head of the list
    heap,          \* the addresses of nodes that malloc has handed out
    node,          \* node[a]: the memory at a, stale after free
    bound,         \* bound[o]: the key the socket o was last bound to
    out            \* the reply to the last request

vars == <<obdiiSockets, heap, node, bound, out>>

Pointers == Addrs \cup {NULL}

Node == [key: Keys, s: OFDs, refcount: Nat, prev: Pointers, next: Pointers]

TypeOK ==
    /\ obdiiSockets \in Pointers
    /\ heap \subseteq Addrs
    /\ node \in [Addrs -> Node]
    /\ bound \in [OFDs -> Keys]

-------------------------------------------------------------------------------
(* The node that the loop of the search reaches after i steps. *)
Reached[i \in Nat] ==
    IF i = 0 THEN obdiiSockets
    ELSE IF Reached[i - 1] = NULL THEN NULL ELSE node[Reached[i - 1]].next

(* The nodes a search visits; more steps than addresses would be a cycle. *)
OnList == {Reached[i] : i \in 0..Cardinality(Addrs)} \ {NULL}

(* The first node with the parameters of k, NULL if there is none. *)
socketConnectionMatchingParams(k) ==
    LET Hit(i) == Reached[i] # NULL /\ node[Reached[i]].key = k
        Steps == {i \in 0..Cardinality(Addrs) : Hit(i)}
    IN IF Steps = {} THEN NULL
       ELSE Reached[CHOOSE i \in Steps : \A j \in Steps : i <= j]

(***************************************************************************)
(* The table this list stands for, and the daemon that uses the table.     *)
(***************************************************************************)
TableS == [k \in Keys |-> IF \E a \in OnList : node[a].key = k
                          THEN node[socketConnectionMatchingParams(k)].s ELSE NoFD]

TableRefcount == [k \in Keys |->
                    IF \E a \in OnList : node[a].key = k
                    THEN node[socketConnectionMatchingParams(k)].refcount ELSE 0]

Daemon == INSTANCE OBDIIDaemon
    WITH tableS <- TableS, refcount <- TableRefcount, Clients <- {}, QLen <- 1,
         MaxEpoch <- 1, Faults <- {}, up <- TRUE, epoch <- 1, inbox <- << >>,
         box <- << >>, alive <- {}, caddr <- NULL

Init ==
    /\ obdiiSockets = NULL
    /\ heap = {}
    /\ node \in [Addrs -> [key: Keys, s: OFDs, refcount: {0}, prev: {NULL}, next: {NULL}]]
    /\ \A a, b \in Addrs : node[a] = node[b]
    /\ bound \in [OFDs -> Keys]
    /\ \A o, p \in OFDs : bound[o] = bound[p]
    /\ out = << >>

-------------------------------------------------------------------------------
FoundOpen(k) ==
    LET found == socketConnectionMatchingParams(k) IN
    /\ found # NULL
    /\ node[found].refcount < MaxRefs
    /\ node' = [node EXCEPT ![found].refcount = @ + 1]
    /\ out' = <<Daemon!CodeMsg("Success"), Daemon!FDMsg(node[found].s)>>
    /\ UNCHANGED <<obdiiSockets, heap, bound>>

(* A bug: the old head does not learn of its predecessor. *)
openForgetsPrev(k, a, o) ==
    /\ socketConnectionMatchingParams(k) = NULL
    /\ heap' = heap \cup {a}
    /\ node' = [node EXCEPT ![a] = [key |-> k, s |-> o, refcount |-> 1,
                                    prev |-> NULL, next |-> obdiiSockets]]
    /\ obdiiSockets' = a
    /\ bound' = [bound EXCEPT ![o] = k]
    /\ out' = <<Daemon!CodeMsg("Success"), Daemon!FDMsg(o)>>

(* A bug: a new node starts without a reference. *)
openForgetsReference(k, a, o) ==
    /\ socketConnectionMatchingParams(k) = NULL
    /\ heap' = heap \cup {a}
    /\ node' = [b \in Addrs |->
                  CASE b = a -> [key |-> k, s |-> o, refcount |-> 0,
                                 prev |-> NULL, next |-> obdiiSockets]
                    [] b # a /\ b = obdiiSockets -> [node[b] EXCEPT !.prev = a]
                    [] OTHER -> node[b]]
    /\ obdiiSockets' = a
    /\ bound' = [bound EXCEPT ![o] = k]
    /\ out' = <<Daemon!CodeMsg("Success"), Daemon!FDMsg(o)>>

(* The new node, at a, goes before the head of the list. *)
openSocketConnection(k, a, o) ==
    /\ socketConnectionMatchingParams(k) = NULL
    /\ heap' = heap \cup {a}
    /\ node' = [b \in Addrs |->
                  CASE b = a -> [key |-> k, s |-> o, refcount |-> 1,
                                 prev |-> NULL, next |-> obdiiSockets]
                    [] b # a /\ b = obdiiSockets -> [node[b] EXCEPT !.prev = a]
                    [] OTHER -> node[b]]
    /\ obdiiSockets' = a
    /\ bound' = [bound EXCEPT ![o] = k]
    /\ out' = <<Daemon!CodeMsg("Success"), Daemon!FDMsg(o)>>

(* socket, bind or malloc fails; what was acquired is given back. *)
OpenError(k) ==
    /\ socketConnectionMatchingParams(k) = NULL
    /\ out' = <<Daemon!CodeMsg("OpenSocketError")>>
    /\ UNCHANGED <<obdiiSockets, heap, node, bound>>

(* A bug: the successor keeps its pointer to the node that is freed. *)
UnlinkKeepsPrev(conn) ==
    LET prev == node[conn].prev
        next == node[conn].next
    IN /\ node' = [b \in Addrs |->
                     IF b = prev THEN [node[b] EXCEPT !.next = next] ELSE node[b]]
       /\ obdiiSockets' = IF prev = NULL THEN next ELSE obdiiSockets
       /\ heap' = heap \ {conn}

(* A bug: the neighbours are joined and the node is not freed. *)
UnlinkNoFree(conn) ==
    LET prev == node[conn].prev
        next == node[conn].next
    IN /\ node' = [b \in Addrs |->
                     [node[b] EXCEPT !.next = IF b = prev THEN next ELSE @,
                                     !.prev = IF b = next THEN prev ELSE @]]
       /\ obdiiSockets' = IF prev = NULL THEN next ELSE obdiiSockets
       /\ UNCHANGED heap

(* The neighbours, or the head of the list, are joined; free(conn). *)
Unlink(conn) ==
    LET prev == node[conn].prev
        next == node[conn].next
    IN /\ node' = [b \in Addrs |->
                     [node[b] EXCEPT !.next = IF b = prev THEN next ELSE @,
                                     !.prev = IF b = next THEN prev ELSE @]]
       /\ obdiiSockets' = IF prev = NULL THEN next ELSE obdiiSockets
       /\ heap' = heap \ {conn}

closeSocketConnection(k) ==
    LET conn == socketConnectionMatchingParams(k) IN
    /\ conn # NULL
    /\ \/ /\ node[conn].refcount = 1
          /\ Unlink(conn)
       \/ /\ node[conn].refcount # 1
          /\ node' = [node EXCEPT ![conn].refcount = @ - 1]
          /\ UNCHANGED <<obdiiSockets, heap>>
    /\ out' = <<Daemon!CodeMsg("Success")>>
    /\ UNCHANGED bound

NoSuchSocket(k) ==
    /\ socketConnectionMatchingParams(k) = NULL
    /\ out' = <<Daemon!CodeMsg("NoSuchSocket")>>
    /\ UNCHANGED <<obdiiSockets, heap, node, bound>>

Next ==
    \E k \in Keys :
        \/ FoundOpen(k)
        \/ \E a \in Addrs \ heap, o \in OFDs \ {node[b].s : b \in heap} :
              openSocketConnection(k, a, o)
        \/ OpenError(k)
        \/ closeSocketConnection(k)
        \/ NoSuchSocket(k)

Spec == Init /\ [][Next]_vars

-------------------------------------------------------------------------------
(***************************************************************************)
(* A search never follows a pointer to a freed node and ends at NULL; prev *)
(* points back along next.                                                 *)
(***************************************************************************)
PointersValid ==
    /\ Reached[Cardinality(Addrs)] = NULL
    /\ OnList \subseteq heap
    /\ obdiiSockets # NULL => node[obdiiSockets].prev = NULL
    /\ \A a \in OnList : node[a].next # NULL => node[node[a].next].prev = a

(* A node is on the list until it is freed: no node and no socket leaks. *)
NoNodeLost == heap \subseteq OnList

(***************************************************************************)
(* The invariant behind these: the nodes in use stand in a row L, in which *)
(* next leads to the right, prev to the left, and NULL is at both ends; no *)
(* two nodes have the same key, and each has a reference.                  *)
(***************************************************************************)
At(n, L, i) == IF i \in 1..n THEN L[i] ELSE NULL

InARow(n, L) ==
    /\ \A i, j \in 1..n : node[L[i]].key = node[L[j]].key => i = j
    /\ heap = {L[i] : i \in 1..n}
    /\ obdiiSockets = At(n, L, 1)
    /\ \A i \in 1..n :
          /\ node[L[i]].next = At(n, L, i + 1)
          /\ node[L[i]].prev = At(n, L, i - 1)
          /\ node[L[i]].refcount > 0

ListInv == \E n \in 0..Cardinality(Addrs) : \E L \in [1..n -> Addrs] : InARow(n, L)

(***************************************************************************)
(* The list implements the table: every request changes the table, and is  *)
(* answered, as OBDIIDaemon says.                                          *)
(***************************************************************************)
ImplementsTable ==
    [][\E k \in Keys :
          \/ Daemon!FoundOpen(k)
          \/ \E o \in OFDs : Daemon!OpenSocketConnection(k, o)
          \/ Daemon!OpenSocketError(k)
          \/ Daemon!CloseSocketConnection(k)
          \/ Daemon!NoSuchSocket(k)]_<<TableS, TableRefcount, bound, out>>
===============================================================================
