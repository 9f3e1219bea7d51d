-------------------------------- MODULE Query ---------------------------------
(***************************************************************************)
(* OBDIIPerformQuery, run by the processes that have a descriptor of one   *)
(* ISO-TP socket, and the ECU at the other end of it.  Other processes run *)
(* between any two system calls of a query.                                *)
(*                                                                         *)
(* The field to of an answer, which no code reads, says which command the  *)
(* ECU answers.                                                            *)
(***************************************************************************)
EXTENDS Decoders, Sequences

CONSTANTS
    Procs,        \* processes with a descriptor of the socket
    Shared,       \* the field shared of their OBDIISockets
    Commands,     \* commands they query
    Lengths,      \* payload lengths of answers that are not fixed
    NoResponse,   \* a response with success = 0
    OddLengths,   \* may answers have a length other than the expected one?
    EcuLen,       \* requests an ECU takes before it ignores further ones
    RxLen         \* answers the socket queues before it drops further ones

ASSUME SharedAssumption == Shared \in BOOLEAN /\ OddLengths \in BOOLEAN
ASSUME CommandsAssumption ==
    Commands \subseteq Command

(* The tables have one command for each (mode, PID) and one for mode 3. *)
ASSUME DistinctCommands ==
    \A c, d \in Commands : c.mode = d.mode /\ (c.mode # 3 => c.pid = d.pid) => c = d
ASSUME LengthsAssumption == Lengths \subseteq 1..4095
ASSUME QueuesAssumption == EcuLen \in Nat \ {0} /\ RxLen \in Nat \ {0}

VARIABLES
    pc,        \* pc[p]: the next system call of p's query, "idle" in none
    asked,     \* asked[p]: the command of p's present or last query
    response,  \* response[p]: what p's last query read and decoded
    locked,    \* is there an flock on the socket's open file description?
    ecu,       \* requests the ECU has received and not dealt with
    rx         \* answers queued at the socket

queryVars == <<pc, asked, response, locked, ecu, rx>>

Datagram == [sid: Nat, pid: Nat, len: Nat, to: Commands]

TypeOK ==
    /\ pc \in [Procs -> {"idle", "write", "select", "read", "dead"}]
    /\ asked \in [Procs -> Commands]
    /\ response \in [Procs -> Datagram \cup {NoResponse}]
    /\ locked \in BOOLEAN
    /\ ecu \in Seq(Commands)
    /\ rx \in Seq(Datagram)

Init ==
    /\ pc = [p \in Procs |-> "idle"]
    /\ asked \in [Procs -> Commands]
    /\ \A p, q \in Procs : asked[p] = asked[q]
    /\ response = [p \in Procs |-> NoResponse]
    /\ locked = FALSE
    /\ ecu = << >>
    /\ rx = << >>

-------------------------------------------------------------------------------
(***************************************************************************)
(* flock(LOCK_EX).  The lock belongs to the open file description, and all *)
(* descriptors that obdiid hands out for a key refer to the same one: the  *)
(* call never waits for another process, it finds the lock already held.   *)
(***************************************************************************)
LockIfNecessary == locked' = (locked \/ Shared)

UnlockIfNecessary == locked' = (locked /\ ~Shared)

(* A query without success: the lock is given up, the response is empty. *)
Fail(p) ==
    /\ UnlockIfNecessary
    /\ pc' = [pc EXCEPT ![p] = "idle"]
    /\ UNCHANGED <<asked, response>>

Begin(p, c) ==
    /\ pc[p] = "idle"
    /\ asked' = [asked EXCEPT ![p] = c]
    /\ response' = [response EXCEPT ![p] = NoResponse]
    /\ LockIfNecessary
    /\ pc' = [pc EXCEPT ![p] = "write"]
    /\ UNCHANGED <<ecu, rx>>

(* A queue that is full takes no more, and nobody is told. *)
Offer(queue, e, max) == IF Len(queue) < max THEN Append(queue, e) ELSE queue

Write(p) ==
    /\ pc[p] = "write"
    /\ ecu' = Offer(ecu, asked[p], EcuLen)
    /\ pc' = [pc EXCEPT ![p] = "select"]
    /\ UNCHANGED <<asked, response, locked, rx>>

(* A bug: this way out of the query forgets the unlock. *)
WriteFailsStaysLocked(p) ==
    /\ pc[p] = "write"
    /\ pc' = [pc EXCEPT ![p] = "idle"]
    /\ UNCHANGED <<asked, response, locked, ecu, rx>>

WriteFails(p) ==
    /\ pc[p] = "write"
    /\ Fail(p)
    /\ UNCHANGED <<ecu, rx>>

SelectReady(p) ==
    /\ pc[p] = "select" /\ rx # << >>
    /\ pc' = [pc EXCEPT ![p] = "read"]
    /\ UNCHANGED <<asked, response, locked, ecu, rx>>

(* A bug: select is called without a timeout. *)
SelectWaits(p) == UNCHANGED queryVars /\ pc[p] = "select" /\ rx = << >>

(* One second has passed, or a signal has arrived, and there is no answer. *)
SelectFails(p) ==
    /\ pc[p] = "select" /\ rx = << >>
    /\ Fail(p)
    /\ UNCHANGED <<ecu, rx>>

-------------------------------------------------------------------------------
(* read gives at most the number of bytes asked for. *)
BytesRead(c, d) ==
    IF c.len = VARIABLE_RESPONSE_LENGTH \/ d.len < c.len THEN d.len ELSE c.len

(* Does the query for c that read len bytes of d go on to the decoder? *)
Decoded(c, d, len) == LengthExpected(c, len) /\ OBDIIResponseSuccessful(c, d, len)

(***************************************************************************)
(* read blocks while there is no answer.  The first one is taken off the   *)
(* queue and decoded once the lock has been given up.                      *)
(***************************************************************************)
Read(p) ==
    /\ pc[p] = "read" /\ rx # << >>
    /\ rx' = Tail(rx)
    /\ UnlockIfNecessary
    /\ \E mallocFails \in BOOLEAN :
       LET c == asked[p]
           d == Head(rx)
           len == BytesRead(c, d)
           ok == Decoded(c, d, len)
       IN /\ response' = [response EXCEPT ![p] =
                IF ok /\ DTCsComplete(c.decoder, len) THEN [d EXCEPT !.len = len] ELSE NoResponse]
          /\ pc' = [pc EXCEPT ![p] =
                IF ok /\ DecoderFaults(c.decoder, len, mallocFails) THEN "dead" ELSE "idle"]
    /\ UNCHANGED <<asked, ecu>>

(* read returns -1: a signal, or an error of the CAN transport. *)
ReadFails(p) ==
    /\ pc[p] = "read"
    /\ Fail(p)
    /\ UNCHANGED <<ecu, rx>>

-------------------------------------------------------------------------------
(* The ECU answers requests in turn, as late as it likes, or not at all. *)
AnswerLengths(c) ==
    (IF c.len = VARIABLE_RESPONSE_LENGTH THEN {} ELSE {c.len})
        \cup (IF c.len = VARIABLE_RESPONSE_LENGTH \/ OddLengths THEN Lengths ELSE {})

Positive(c, len) == [sid |-> c.mode + 64, pid |-> c.pid, len |-> len, to |-> c]

Negative(c) == [sid |-> 127, pid |-> c.mode, len |-> 3, to |-> c]

Answers(c) == {Negative(c)} \cup {Positive(c, len) : len \in AnswerLengths(c)}

Answer ==
    /\ ecu # << >>
    /\ \E d \in Answers(Head(ecu)) : rx' = Offer(rx, d, RxLen)
    /\ ecu' = Tail(ecu)
    /\ UNCHANGED <<pc, asked, response, locked>>

NoAnswer ==
    /\ ecu # << >>
    /\ ecu' = Tail(ecu)
    /\ UNCHANGED <<pc, asked, response, locked, rx>>

-------------------------------------------------------------------------------
Progress(p) ==
    \/ Write(p)
    \/ SelectReady(p)
    \/ SelectFails(p)
    \/ Read(p)

Next ==
    \/ \E p \in Procs :
        \/ \E c \in Commands : Begin(p, c)
        \/ Progress(p)
        \/ WriteFails(p)
        \/ ReadFails(p)
    \/ Answer
    \/ NoAnswer

Spec == Init /\ [][Next]_queryVars

(* A process runs on unless it is blocked; the ECU owes no answer. *)
FairSpec == Spec /\ \A p \in Procs : WF_queryVars(Progress(p))

-------------------------------------------------------------------------------
InQuery(p) == pc[p] \in {"write", "select", "read"}

(***************************************************************************)
(* Whatever answers are late, lost, negative, of an unexpected length or   *)
(* meant for another process: a response with success = 1 was decoded from *)
(* a positive answer to the command that was queried.                      *)
(***************************************************************************)
AnswerMatchesCommand ==
    \A p \in Procs :
        response[p] # NoResponse =>
            /\ response[p].to = asked[p]
            /\ response[p].sid # 127

(* Every way out of OBDIIPerformQuery gives the lock back. *)
IdleMeansUnlocked ==
    (\A p \in Procs : ~InQuery(p)) => ~locked

(***************************************************************************)
(* OBDIIPerformQuery returns, also when the ECU is silent or answers late: *)
(* what select has seen in the queue is there for the read.                *)
(***************************************************************************)
QueryReturns == \A p \in Procs : InQuery(p) ~> ~InQuery(p)
===============================================================================
