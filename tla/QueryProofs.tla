----------------------------- MODULE QueryProofs ------------------------------
(***************************************************************************)
(* What holds of queries for any number of processes, queries and commands *)
(* and any answers: success means a positive answer to the command, and    *)
(* every query gives its lock back.                                        *)
(***************************************************************************)
EXTENDS Query, SequenceTheorems, TLAPS

(* What Head, Tail and Offer make of the queues at the ECU and the socket. *)
LEMMA QueueFacts ==
    ASSUME NEW S, NEW q \in Seq(S)
    PROVE  /\ \A e \in S, max \in Nat : Offer(q, e, max) \in Seq(S)
           /\ q # << >> => Head(q) \in S /\ Tail(q) \in Seq(S)
  BY DEF Offer

(* The parts of a command that the tables fix. *)
LEMMA CommandFacts ==
    ASSUME NEW c \in Commands
    PROVE  c.mode \in {1, 3, 9} /\ c.pid \in Nat /\ c.len \in Nat
  BY CommandsAssumption DEF Command

(* Every answer the ECU may give to a request is a datagram. *)
LEMMA AnswerTypes ==
    ASSUME NEW c \in Commands, NEW d \in Answers(c)
    PROVE  /\ d \in Datagram
           /\ d.to = c
           /\ d.sid = 127 \/ (d.sid = c.mode + 64 /\ d.pid = c.pid)
<1>1. c.mode \in Nat /\ c.pid \in Nat /\ c.len \in Nat
  BY CommandFacts
<1>2. AnswerLengths(c) \subseteq Nat
  <2>1. Lengths \subseteq Nat
    BY LengthsAssumption
  <2>2. QED BY <1>1, <2>1 DEF AnswerLengths
<1>3. CASE d = Negative(c)
  BY <1>1, <1>3 DEF Negative, Datagram
<1>4. CASE \E len \in AnswerLengths(c) : d = Positive(c, len)
  BY <1>1, <1>2, <1>4 DEF Positive, Datagram
<1>5. QED BY <1>3, <1>4 DEF Answers

(* An answer in the queue of the socket is an answer to its request. *)
Genuine(d) ==
    d.sid = 127 \/ (d.sid = d.to.mode + 64 /\ d.pid = d.to.pid)

(* The inductive invariant *)
QueryInv ==
    /\ TypeOK
    /\ rx \in Seq({d \in Datagram : Genuine(d)})
    /\ AnswerMatchesCommand
    /\ locked => Shared
    /\ IdleMeansUnlocked

(* A genuine answer that is decoded answers the command. *)
LEMMA SuccessMeansMatch ==
    ASSUME NEW c \in Commands, NEW d \in Datagram, Genuine(d), NEW len \in Nat,
           Decoded(c, d, len)
    PROVE  d.to = c /\ d.sid # 127
<1>1. d.to \in Commands
  BY DEF Datagram
<1>2. /\ c.mode \in {1, 3, 9} /\ d.to.mode \in {1, 3, 9}
      /\ d.sid \in Nat
  BY <1>1, CommandFacts DEF Datagram
<1>3. d.sid = c.mode + 64 /\ d.sid # 127
  BY <1>2 DEF Decoded, OBDIIResponseSuccessful
<1>4. d.to.mode = c.mode /\ d.pid = d.to.pid
  BY <1>2, <1>3 DEF Genuine
<1>5. c.mode # 3 => d.to.pid = c.pid
  BY <1>2, <1>4 DEF Decoded, OBDIIResponseSuccessful
<1>6. QED BY <1>1, <1>3, <1>4, <1>5, DistinctCommands

(* A query that fails leaves the socket unlocked and the types intact. *)
LEMMA FailStep ==
    ASSUME QueryInv, NEW p \in Procs, Fail(p), UNCHANGED <<ecu, rx>>
    PROVE  QueryInv'
<1>1. TypeOK'
  BY SharedAssumption DEF QueryInv, TypeOK, Fail, UnlockIfNecessary
<1>2. ~locked'
  BY DEF QueryInv, Fail, UnlockIfNecessary
<1>3. AnswerMatchesCommand'
  BY DEF QueryInv, Fail, AnswerMatchesCommand
<1>4. QED BY <1>1, <1>2, <1>3 DEF QueryInv, IdleMeansUnlocked, InQuery

(* The steps of a query that keep the lock: the process stays in its query. *)
LEMMA LockedStep ==
    ASSUME QueryInv, NEW p \in Procs, NEW next \in {"select", "read"},
           pc' = [pc EXCEPT ![p] = next], UNCHANGED <<asked, response, locked, rx>>,
           ecu' \in Seq(Commands)
    PROVE  QueryInv'
<1>1. TypeOK' /\ pc'[p] \notin {"idle", "dead"}
  BY DEF QueryInv, TypeOK
<1>2. AnswerMatchesCommand'
  BY DEF QueryInv, AnswerMatchesCommand
<1>3. QED BY <1>1, <1>2 DEF QueryInv, IdleMeansUnlocked, InQuery

(* A query begins: there is no response yet, and the process is in it. *)
LEMMA BeginStep ==
    ASSUME QueryInv, NEW p \in Procs, NEW c \in Commands, Begin(p, c)
    PROVE  QueryInv'
<1>1. TypeOK
  BY DEF QueryInv
<1>2. asked' \in [Procs -> Commands]
  BY <1>1 DEF TypeOK, Begin
<1>3. locked' \in BOOLEAN /\ (locked' => Shared)
  BY SharedAssumption DEF QueryInv, TypeOK, Begin, LockIfNecessary
<1>4. TypeOK'
  BY <1>1, <1>2, <1>3 DEF TypeOK, Begin
<1>5. pc'[p] = "write"
  BY <1>1 DEF TypeOK, Begin
<1>6. AnswerMatchesCommand'
  BY <1>1 DEF QueryInv, AnswerMatchesCommand, Begin, TypeOK
<1>7. rx \in Seq({d \in Datagram : Genuine(d)}) /\ rx' = rx
  BY DEF QueryInv, Begin
<1>8. QED BY <1>3, <1>4, <1>5, <1>6, <1>7 DEF QueryInv, IdleMeansUnlocked, InQuery

(* The first answer is decoded; what does not answer the command fails. *)
LEMMA ReadStep ==
    ASSUME QueryInv, NEW p \in Procs, Read(p)
    PROVE  QueryInv'
<1> DEFINE c == asked[p]
           d == Head(rx)
           len == BytesRead(c, d)
           ok == Decoded(c, d, len)
           kept == [d EXCEPT !.len = len]
<1>1. TypeOK /\ rx # << >>
  BY DEF QueryInv, Read
<1>2. d \in Datagram /\ Genuine(d) /\ Tail(rx) \in Seq({e \in Datagram : Genuine(e)})
  <2> DEFINE G == {e \in Datagram : Genuine(e)}
  <2>1. rx \in Seq(G)
    BY DEF QueryInv
  <2>2. d \in G /\ Tail(rx) \in Seq(G)
    <3> HIDE DEF G
    <3>1. QED BY <1>1, <2>1, QueueFacts
  <2>3. QED BY <2>2
<1>3. Tail(rx) \in Seq(Datagram)
  BY <1>1, QueueFacts DEF TypeOK
<1>4. c \in Commands /\ len \in Nat
  <2>1. c \in Commands
    BY <1>1 DEF TypeOK
  <2>2. c.len \in Nat /\ d.len \in Nat
    BY <1>2, <2>1, CommandFacts DEF Datagram
  <2>3. QED BY <2>1, <2>2 DEF BytesRead
<1>5. /\ response' = [response EXCEPT ![p] =
                IF ok /\ DTCsComplete(c.decoder, len) THEN kept ELSE NoResponse]
      /\ \E next \in {"idle", "dead"} : pc' = [pc EXCEPT ![p] = next]
      /\ rx' = Tail(rx) /\ UnlockIfNecessary /\ UNCHANGED <<asked, ecu>>
  BY DEF Read
<1>6. ~locked'
  BY <1>5 DEF QueryInv, UnlockIfNecessary
<1>7. /\ kept \in Datagram /\ kept.to = d.to /\ kept.sid = d.sid
      /\ response' \in [Procs -> Datagram \cup {NoResponse}]
  <2>1. kept \in Datagram /\ kept.to = d.to /\ kept.sid = d.sid
    BY <1>2, <1>4 DEF Datagram
  <2>2. QED BY <1>1, <1>5, <2>1 DEF TypeOK
<1>8. pc' \in [Procs -> {"idle", "write", "select", "read", "dead"}]
  BY <1>1, <1>5 DEF TypeOK
<1>9. TypeOK'
  <2>1. locked' \in BOOLEAN
    BY <1>5 DEF UnlockIfNecessary
  <2>2. QED BY <1>1, <1>3, <1>5, <1>7, <1>8, <2>1 DEF TypeOK
<1>10. response'[p] # NoResponse => response'[p].to = c /\ response'[p].sid # 127
  <2>1. ok => d.to = c /\ d.sid # 127
    BY <1>2, <1>4, SuccessMeansMatch
  <2>2. response'[p] = IF ok /\ DTCsComplete(c.decoder, len) THEN kept ELSE NoResponse
    BY <1>1, <1>5 DEF TypeOK
  <2>3. QED BY <1>7, <2>1, <2>2
<1>11. \A q \in Procs : q # p => response'[q] = response[q]
  BY <1>1, <1>5 DEF TypeOK
<1>12. AnswerMatchesCommand'
  BY <1>5, <1>10, <1>11 DEF QueryInv, AnswerMatchesCommand
<1>13. QED BY <1>2, <1>5, <1>6, <1>9, <1>12 DEF QueryInv, IdleMeansUnlocked, InQuery

(* The ECU answers a request, or drops it. *)
LEMMA ECUStep ==
    ASSUME QueryInv, Answer \/ NoAnswer
    PROVE  QueryInv'
<1> DEFINE G == {d \in Datagram : Genuine(d)}
<1>1. /\ TypeOK /\ ecu \in Seq(Commands) /\ ecu # << >> /\ rx \in Seq(G)
      /\ ecu' = Tail(ecu) /\ UNCHANGED <<pc, asked, response, locked>>
  BY DEF QueryInv, TypeOK, Answer, NoAnswer
<1>2. Head(ecu) \in Commands /\ ecu' \in Seq(Commands)
  BY <1>1, QueueFacts
<1>3. rx' \in Seq(G)
  <2>1. CASE NoAnswer
    BY <1>1, <2>1 DEF NoAnswer
  <2>2. CASE Answer
    <3>1. PICK d \in Answers(Head(ecu)) : rx' = Offer(rx, d, RxLen)
      BY <2>2 DEF Answer
    <3>2. d \in G
      BY <1>2, AnswerTypes DEF Genuine
    <3> HIDE DEF G
    <3>3. QED BY <1>1, <3>1, <3>2, QueueFacts, QueuesAssumption
  <2>3. QED BY <2>1, <2>2
<1>4. rx' \in Seq(Datagram)
  BY <1>3
<1>5. TypeOK'
  BY <1>1, <1>2, <1>4 DEF TypeOK
<1>6. AnswerMatchesCommand' /\ IdleMeansUnlocked'
  BY <1>1 DEF QueryInv, AnswerMatchesCommand, IdleMeansUnlocked, InQuery
<1>7. QED BY <1>1, <1>3, <1>5, <1>6 DEF QueryInv

(* The inductive invariant holds in the beginning and after every step. *)
LEMMA QueryInvInductive ==
    /\ Init => QueryInv
    /\ QueryInv /\ [Next]_queryVars => QueryInv'
<1>1. Init => QueryInv
  <2> SUFFICES ASSUME Init PROVE QueryInv
    OBVIOUS
  <2>1. TypeOK
    <3>1. asked \in [Procs -> Commands]
      BY DEF Init
    <3>2. ecu \in Seq(Commands) /\ rx \in Seq(Datagram)
      BY DEF Init
    <3>3. QED BY <3>1, <3>2 DEF Init, TypeOK
  <2>2. QED BY <2>1 DEF Init, QueryInv, AnswerMatchesCommand, IdleMeansUnlocked, InQuery
<1>2. ASSUME QueryInv, [Next]_queryVars PROVE QueryInv'
  <2>0. TypeOK
    BY <1>2 DEF QueryInv
  <2>1. CASE UNCHANGED queryVars
    BY <1>2, <2>1 DEF queryVars, QueryInv, TypeOK, AnswerMatchesCommand, IdleMeansUnlocked, InQuery
  <2>2. CASE Answer \/ NoAnswer
    BY <1>2, <2>2, ECUStep
  <2>3. ASSUME NEW p \in Procs, NEW c \in Commands, Begin(p, c) PROVE QueryInv'
    BY <1>2, <2>3, BeginStep
  <2>4. ASSUME NEW p \in Procs, Write(p) PROVE QueryInv'
    <3>1. ecu' \in Seq(Commands)
      BY <2>0, <2>4, QueueFacts, QueuesAssumption DEF Write, TypeOK
    <3>2. QED BY <1>2, <2>4, <3>1, LockedStep DEF Write
  <2>5. ASSUME NEW p \in Procs, SelectReady(p) PROVE QueryInv'
    BY <1>2, <2>0, <2>5, LockedStep DEF SelectReady, TypeOK
  <2>6. ASSUME NEW p \in Procs, Read(p) PROVE QueryInv'
    BY <1>2, <2>6, ReadStep
  <2>7. ASSUME NEW p \in Procs, WriteFails(p) \/ SelectFails(p) \/ ReadFails(p) PROVE QueryInv'
    BY <1>2, <2>7, FailStep DEF WriteFails, SelectFails, ReadFails
  <2>8. QED BY <1>2, <2>1, <2>2, <2>3, <2>4, <2>5, <2>6, <2>7 DEF Next, Progress
<1>3. QED BY <1>1, <1>2

(***************************************************************************)
(* A response with success = 1 was decoded from a positive answer to the   *)
(* command that was queried, whatever is late, lost or stolen.             *)
(***************************************************************************)
THEOREM AnswerTheorem == Spec => []AnswerMatchesCommand
<1>1. QueryInv => AnswerMatchesCommand
  BY DEF QueryInv
<1>2. QED BY QueryInvInductive, <1>1, PTL DEF Spec

(***************************************************************************)
(* When no process is in a query, the socket is not locked.                *)
(***************************************************************************)
THEOREM UnlockTheorem == Spec => []IdleMeansUnlocked
<1>1. QueryInv => IdleMeansUnlocked
  BY DEF QueryInv
<1>2. QED BY QueryInvInductive, <1>1, PTL DEF Spec
===============================================================================
