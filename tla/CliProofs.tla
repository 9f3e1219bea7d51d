------------------------------ MODULE CliProofs -------------------------------
(***************************************************************************)
(* What holds of the command line utility, for answers of any lengths and  *)
(* any lists of supported commands: a decoder reads only what was read,    *)
(* the printed member of the union is the one that was written, and memory *)
(* is given back.                                                          *)
(***************************************************************************)
EXTENDS Cli, QueryProofs

-------------------------------------------------------------------------------
(* What the rows of the tables have in common. *)
RowFacts(c) ==
    /\ c.len \in Nat /\ c.decoder.reads \in Nat
    /\ c.len # VARIABLE_RESPONSE_LENGTH =>
          c.decoder.reads < c.len /\ c.decoder.writes \notin Pointers
    /\ c.len = VARIABLE_RESPONSE_LENGTH =>
          c.decoder.writes = "DTCs" \/ (c.decoder.writes = "stringValue" /\ c.mode = 9)
    /\ c.decoder.writes \in Pointers <=> c = OBDIIMode3Command \/ c.type = "String"
    /\ c.decoder.writes \in Pointers => "nothing" \in MembersOf(c.type)
    /\ c.decoder.writes # "NULL" => c.decoder.writes \in MembersOf(c.type)
    /\ c.mode = 1 \/ (c.mode = 9 /\ c.pid = 0) => c.decoder.writes \notin Pointers

LEMMA Mode1Rows ==
    ASSUME NEW i \in 0..78
    PROVE  /\ Mode1Decoder(i).reads \in Nat /\ Mode1Length(i) \in Nat \ {0}
           /\ Mode1Decoder(i).reads < Mode1Length(i)
           /\ Mode1Decoder(i).writes \notin Pointers
           /\ Mode1Decoder(i).writes \in MembersOf(Mode1Type(i))
           /\ Mode1Type(i) # "String"
<1> DEFINE Row(last, written, len, type) ==
              /\ Mode1Decoder(i) = [reads |-> last, writes |-> written]
              /\ Mode1Length(i) = len /\ Mode1Type(i) = type
           OneByte == {4, 5, 6, 7, 8, 9, 10, 11, 13, 14, 15, 17, 44, 45, 46, 47, 48, 51,
                       69, 70, 71, 72, 73, 74, 75, 76}
           TwoBytes == {12, 16, 31, 33, 34, 35, 49, 50, 60, 61, 62, 63, 66, 67, 68, 77, 78}
           Oxygen == 36..43 \cup 52..59
<1>1. CASE i \in {0, 1, 32, 64, 65}
  <2>1. Row(5, "bitfieldValue", 6, "Bitfield")
    BY <1>1 DEF Mode1Decoder, Mode1Length, Mode1Type, Reads, OBDIIDecodeBitfield
  <2>2. QED BY <2>1 DEF Pointers, MembersOf
<1>2. CASE i = 3
  <2>1. Row(3, "bitfieldValue", 4, "Bitfield")
    BY <1>2 DEF Mode1Decoder, Mode1Length, Mode1Type, Reads, OBDIIDecodeTwoByteBitfield
  <2>2. QED BY <2>1 DEF Pointers, MembersOf
<1>3. CASE i \in {18, 19, 28, 29, 30}
  <2>1. Row(2, "bitfieldValue", 3, "Bitfield")
    BY <1>3 DEF Mode1Decoder, Mode1Length, Mode1Type, Reads, OBDIIDecodeSingleByteBitfield
  <2>2. QED BY <2>1 DEF Pointers, MembersOf
<1>4. CASE i = 2
  <2>1. Row(0, "nothing", 4, "Other")
    BY <1>4 DEF Mode1Decoder, Mode1Length, Mode1Type, Reads, OBDIIDecodeNop
  <2>2. QED BY <2>1 DEF Pointers, MembersOf
<1>5. CASE i \in 20..27
  <2>1. Row(3, "oxygenSensorValues", 4, "Other")
    BY <1>5 DEF Mode1Decoder, Mode1Length, Mode1Type, Reads, OBDIIDecodeOxygenSensorValues
  <2>2. QED BY <2>1 DEF Pointers, MembersOf
<1>6. CASE i \in Oxygen
  <2>1. Row(5, "oxygenSensorValues", 6, "Other")
    BY <1>6 DEF Mode1Decoder, Mode1Length, Mode1Type, Reads,
                OBDIIDecodeOxygenSensorValues2, OBDIIDecodeOxygenSensorValues3
  <2>2. QED BY <2>1 DEF Pointers, MembersOf
<1>7. CASE i \in OneByte
  <2>1. Row(2, "numericValue", 3, "Numeric")
    BY <1>7 DEF Mode1Decoder, Mode1Length, Mode1Type, Reads, OBDIIDecodePercentage,
                OBDIIDecodeTemperature, OBDIIDecodeFuelTrim, OBDIIDecodeFuelPressure,
                OBDIIDecodeUInt8, OBDIIDecodeTimingAdvance, OBDIIDecodeThrottlePosition,
                OBDIIDecodeEGRError
  <2>2. QED BY <2>1 DEF Pointers, MembersOf
<1>8. CASE i \in TwoBytes
  <2>1. Row(3, "numericValue", 4, "Numeric")
    BY <1>8 DEF Mode1Decoder, Mode1Length, Mode1Type, Reads, OBDIIDecodeEngineRPMs,
                OBDIIDecodeMAFAirFlowRate, OBDIIDecodeUInt16, OBDIIDecodeFuelRailPressure,
                OBDIIDecodeFuelRailGaugePressure, OBDIIDecodeVaporPressure,
                OBDIIDecodeCatalystTemperature, OBDIIDecodeControlModuleVoltage,
                OBDIIDecodeAbsoluteLoadValue, OBDIIDecodeFuelAirEquivalence
  <2>2. QED BY <2>1 DEF Pointers, MembersOf
<1>9. QED BY <1>1, <1>2, <1>3, <1>4, <1>5, <1>6, <1>7, <1>8

LEMMA Rows == \A c \in Commands : RowFacts(c)
<1> SUFFICES ASSUME NEW c \in OBDIICommands PROVE RowFacts(c)
  BY TableAssumption
<1>1. ASSUME NEW i \in 0..78,
             c = [mode |-> 1, pid |-> i, type |-> Mode1Type(i), len |-> Mode1Length(i),
                  decoder |-> Mode1Decoder(i)]
      PROVE  RowFacts(c)
  <2> DEFINE d == Mode1Decoder(i)
             t == Mode1Type(i)
             l == Mode1Length(i)
  <2>1. /\ c.len = l /\ c.decoder = d /\ c.type = t /\ c.mode = 1
        /\ OBDIIMode3Command.mode = 3
    BY <1>1 DEF OBDIIMode3Command
  <2>2. /\ d.reads \in Nat /\ l \in Nat \ {0} /\ d.reads < l
        /\ d.writes \notin Pointers /\ d.writes \in MembersOf(t) /\ t # "String"
    BY Mode1Rows
  <2> HIDE DEF d, t, l
  <2>3. c # OBDIIMode3Command
    BY <2>1
  <2>4. QED BY <2>1, <2>2, <2>3 DEF RowFacts, VARIABLE_RESPONSE_LENGTH
<1>2. CASE c = OBDIIMode3Command
  <2>1. /\ c.len = 0 /\ c.decoder.reads = 0 /\ c.decoder.writes = "DTCs" /\ c.mode = 3
        /\ c.type = "Other"
    BY <1>2 DEF OBDIIMode3Command, OBDIIDecodeDTCs, Reads, VARIABLE_RESPONSE_LENGTH
  <2>2. QED BY <1>2, <2>1 DEF RowFacts, Pointers, MembersOf, VARIABLE_RESPONSE_LENGTH
<1>3. CASE c \in OBDIIMode9Commands
  <2>1. /\ c.mode = 9 /\ OBDIIMode3Command.mode = 3
        /\ \/ c.pid = 0 /\ c.len = 6 /\ c.decoder.reads = 5 /\ c.type = "Bitfield"
              /\ c.decoder.writes = "bitfieldValue"
           \/ c.pid = 1 /\ c.len = 3 /\ c.decoder.reads = 0 /\ c.type = "Numeric"
              /\ c.decoder.writes = "NULL"
           \/ c.pid = 2 /\ c.len = 0 /\ c.decoder.reads = 0 /\ c.type = "String"
              /\ c.decoder.writes = "stringValue"
    BY <1>3 DEF OBDIIMode9Commands, OBDIIMode3Command, OBDIIDecodeBitfield, NoDecoder,
                OBDIIDecodeVIN, Reads, VARIABLE_RESPONSE_LENGTH
  <2>2. c # OBDIIMode3Command
    BY <2>1
  <2>3. QED BY <2>1, <2>2 DEF RowFacts, Pointers, MembersOf, VARIABLE_RESPONSE_LENGTH
<1>4. QED BY <1>1, <1>2, <1>3 DEF OBDIICommands, OBDIIMode1Commands

-------------------------------------------------------------------------------
(* The inductive invariant.  A process that a decoder has ended stays where it was. *)
Places == {"start", "open", "call", "query", "list", "prompt", "print", "sleep", "end", "done"}

(* A response with success = 1 has a length its command allows. *)
ResponseInv ==
    response[cli] # NoResponse =>
        /\ response[cli].len \in Nat /\ response[cli].len > 0
        /\ LengthExpected(asked[cli], response[cli].len)
        /\ asked[cli].mode \in {1, 9} => response[cli].len >= 2
        /\ pc[cli] # "dead" => asked[cli].decoder.writes # "NULL"

(* What the last query has left in the union and in memory. *)
WrittenInv ==
    IF response[cli] = NoResponse
    THEN member = "nothing" /\ heap \subseteq {"commands"}
    ELSE LET written == asked[cli].decoder.writes IN
         /\ member \in IF written \in Pointers THEN {written, "nothing"} ELSE {written}
         /\ heap \subseteq {"commands"} \cup ({member} \cap Pointers)
         /\ {member} \cap Pointers \subseteq heap

MainInv ==
    /\ at \in Places /\ ret \in {"list", "print"}
    /\ command \in Commands /\ supported \subseteq Commands
    /\ ret = "list" => command.decoder.writes \notin Pointers
    /\ at \in {"query", "list", "print"} => asked[cli] = command
    /\ at = "list" => ret = "list"
    /\ at \in {"start", "open"} => heap = {}
    /\ at = "done" => heap = {}
    /\ at \notin {"query", "list", "print"} => member = "nothing" /\ heap \subseteq {"commands"}
    /\ at = "query" /\ pc[cli] # "dead" => response[cli] = NoResponse
    /\ at \in {"query", "list", "print"} => WrittenInv
    /\ at \in {"list", "print"} => pc[cli] # "dead"

CliInv == QueryInv /\ ResponseInv /\ MainInv

LEMMA OneProcess == cli \in Procs
  BY CliAssumption

(* The first query, and the last one, of OBDIIGetSupportedCommands *)
LEMMA SupportedPIDs ==
    /\ mode1SupportedPIDs_1_to_20 \in Commands /\ mode1SupportedPIDs_1_to_20.mode = 1
    /\ mode9SupportedPIDs \in Commands /\ mode9SupportedPIDs.mode = 9
    /\ mode9SupportedPIDs.pid = 0
<1> DEFINE r1 == [mode |-> 1, pid |-> 0, type |-> Mode1Type(0), len |-> Mode1Length(0),
                  decoder |-> Mode1Decoder(0)]
           r9 == [mode |-> 9, pid |-> 0, type |-> "Bitfield", len |-> 6,
                  decoder |-> OBDIIDecodeBitfield]
<1>1. r1 \in Commands /\ r1.mode = 1 /\ r1.pid = 0
  <2>1. r1 \in OBDIIMode1Commands
    BY DEF OBDIIMode1Commands
  <2>2. QED BY <2>1, TableAssumption DEF OBDIICommands
<1>2. r9 \in Commands /\ r9.mode = 9 /\ r9.pid = 0
  BY TableAssumption DEF OBDIICommands, OBDIIMode9Commands
<1> HIDE DEF r1, r9
<1>3. \E c \in Commands : c.mode = 1 /\ c.pid = 0
  BY <1>1
<1>4. \E c \in Commands : c.mode = 9 /\ c.pid = 0
  BY <1>2
<1>5. QED BY <1>3, <1>4 DEF mode1SupportedPIDs_1_to_20, mode9SupportedPIDs

LEMMA CliInitInv == CliInit => CliInv
<1> SUFFICES ASSUME CliInit PROVE CliInv
  OBVIOUS
<1>1. QueryInv
  BY QueryInvInductive DEF CliInit
<1>2. response[cli] = NoResponse
  BY OneProcess DEF CliInit, Init
<1>3. MainInv
  <2>1. command.decoder.writes \notin Pointers /\ command \in Commands
    BY SupportedPIDs, Rows DEF CliInit, RowFacts
  <2>2. QED BY <2>1 DEF CliInit, MainInv, Places
<1>4. QED BY <1>1, <1>2, <1>3 DEF CliInv, ResponseInv

(* Every step of the program is a step of the query, or leaves it alone. *)
LEMMA QueryOfCli == CliInv /\ [CliNext]_vars => QueryInv'
<1> SUFFICES ASSUME CliInv, [CliNext]_vars PROVE QueryInv'
  OBVIOUS
<1>1. [Next]_queryVars => QueryInv'
  BY QueryInvInductive DEF CliInv
<1>2. CASE UNCHANGED queryVars
  BY <1>1, <1>2
<1>3. CASE Call
  BY <1>1, <1>3, OneProcess DEF Call, Next, CliInv, MainInv
<1>4. CASE QueryStep
  BY <1>1, <1>4, OneProcess DEF QueryStep, Next
<1>5. CASE ECU
  BY <1>1, <1>5 DEF ECU, Next
<1>6. CASE UNCHANGED vars
  BY <1>2, <1>6 DEF vars
<1>7. CASE ParseOptions \/ Open \/ ListMore \/ Listed \/ PrintAndFree \/ SleepThenTest \/ End
  BY <1>2, <1>7 DEF ParseOptions, Open, ListMore, Listed, PrintAndFree, SleepThenTest, End
<1>8. CASE User
  BY <1>2, <1>8 DEF User, Select, InvalidLine, EndOfInput, HandleInterrupted, vars
<1>9. QED BY <1>3, <1>4, <1>5, <1>6, <1>7, <1>8 DEF CliNext, Run

(* The steps of main that leave the query alone. *)
LEMMA MainSteps ==
    ASSUME CliInv, UNCHANGED queryVars,
           ParseOptions \/ Open \/ ListMore \/ Listed \/ PrintAndFree \/ SleepThenTest \/ End
           \/ User
    PROVE  MainInv'
<1>0. MainInv /\ UNCHANGED <<pc, asked, response>>
  BY DEF CliInv, queryVars
<1>1. CASE ParseOptions
  BY <1>0, <1>1 DEF ParseOptions, MainInv, Places
<1>2. CASE Open
  BY <1>0, <1>2 DEF Open, MainInv, Places
<1>3. CASE ListMore
  <2>1. command' \in Commands /\ command'.decoder.writes \notin Pointers
    BY <1>3, SupportedPIDs, Rows DEF ListMore, RowFacts
  <2>2. heap \subseteq {"commands"}
    BY <1>0, <1>3 DEF ListMore, MainInv, WrittenInv
  <2>3. QED BY <1>0, <1>3, <2>1, <2>2 DEF ListMore, MainInv, Places
<1>4. CASE Listed
  <2>1. heap \subseteq {"commands"}
    BY <1>0, <1>4 DEF Listed, MainInv, WrittenInv
  <2>2. supported' \subseteq Commands
    BY <1>4, CliAssumption DEF Listed
  <2>3. QED BY <1>0, <1>4, <2>1, <2>2 DEF Listed, MainInv, Places
<1>5. CASE PrintAndFree
  <2>1. heap' \subseteq {"commands"}
    <3>1. asked[cli] = command /\ command \in Commands /\ WrittenInv
      BY <1>0, <1>5 DEF PrintAndFree, MainInv
    <3>2. RowFacts(command)
      BY <3>1, Rows
    <3>3. QED BY <1>5, <3>1, <3>2 DEF PrintAndFree, WrittenInv, RowFacts, OBDIIResponseFree, Pointers
  <2>2. QED BY <1>0, <1>5, <2>1 DEF PrintAndFree, MainInv, Places
<1>6. CASE SleepThenTest
  BY <1>0, <1>6 DEF SleepThenTest, MainInv, Places
<1>7. CASE End
  BY <1>0, <1>7 DEF End, MainInv, Places
<1>8. ASSUME NEW c \in Commands, NEW repeat \in BOOLEAN, Select(c, repeat) PROVE MainInv'
  BY <1>0, <1>8 DEF Select, MainInv, Places
<1>9. CASE InvalidLine
  BY <1>0, <1>9 DEF InvalidLine, MainInv, Places, vars, cliVars, WrittenInv
<1>10. CASE EndOfInput
  BY <1>0, <1>10 DEF EndOfInput, MainInv, Places
<1>11. CASE HandleInterrupted
  BY <1>0, <1>11 DEF HandleInterrupted, MainInv, Places, WrittenInv
<1>12. QED
  BY <1>1, <1>2, <1>3, <1>4, <1>5, <1>6, <1>7, <1>8, <1>9, <1>10, <1>11 DEF User

(* A call begins with an empty response. *)
LEMMA CallStep ==
    ASSUME CliInv, Call
    PROVE  ResponseInv' /\ MainInv'
<1>1. TypeOK /\ MainInv
  BY DEF CliInv, QueryInv
<1>2. response'[cli] = NoResponse /\ asked'[cli] = command /\ pc'[cli] = "write"
  BY <1>1, OneProcess DEF Call, Begin, TypeOK
<1>3. ResponseInv'
  BY <1>2 DEF ResponseInv
<1>4. WrittenInv'
  BY <1>1, <1>2 DEF Call, MainInv, WrittenInv
<1>5. MainInv'
  BY <1>1, <1>2, <1>4 DEF Call, MainInv, Places
<1>6. QED BY <1>3, <1>5

(* The query goes on, fails, or decodes what it has read. *)
LEMMA QueryStepInv ==
    ASSUME CliInv, QueryStep
    PROVE  ResponseInv' /\ MainInv'
<1>1. TypeOK /\ MainInv /\ QueryInv
  BY DEF CliInv, QueryInv
<1>2. /\ at = "query" /\ asked[cli] = command /\ command \in Commands
      /\ at' = IF pc'[cli] = "idle" THEN ret ELSE "query"
      /\ UNCHANGED <<ret, command, supported>>
  BY <1>1 DEF QueryStep, MainInv
<1>3. pc[cli] \in {"write", "select", "read"}
  BY DEF QueryStep, Progress, Write, SelectReady, SelectFails, Read, WriteFails, ReadFails
<1>4. response[cli] = NoResponse /\ member = "nothing" /\ heap \subseteq {"commands"}
  BY <1>1, <1>2, <1>3 DEF MainInv, WrittenInv
<1>5. asked' = asked
  BY DEF QueryStep, Progress, Write, SelectReady, SelectFails, Read, WriteFails, ReadFails, Fail
<1>6. WrittenInv'
  <2>1. CASE response'[cli] = NoResponse
    BY <1>4, <2>1 DEF QueryStep, WrittenInv
  <2>2. CASE response'[cli] # NoResponse
    <3> DEFINE written == command.decoder.writes
    <3>1. /\ member' \in IF written \in Pointers THEN {written, "nothing"} ELSE {written}
          /\ heap' = heap \cup ({member'} \cap Pointers)
      BY <2>2 DEF QueryStep
    <3>2. asked'[cli].decoder.writes = written
      BY <1>2, <1>5
    <3> HIDE DEF written
    <3>3. QED BY <1>4, <2>2, <3>1, <3>2 DEF WrittenInv
  <2>3. QED BY <2>1, <2>2
<1>7. ResponseInv' /\ (at' = "query" /\ pc'[cli] # "dead" => response'[cli] = NoResponse)
      /\ (at' # "query" => pc'[cli] # "dead")
  <2>1. CASE ~ Read(cli)
    <3>1. response' = response
      BY <2>1 DEF QueryStep, Progress, Write, SelectReady, SelectFails, WriteFails, ReadFails, Fail
    <3>2. response'[cli] = NoResponse
      BY <1>4, <3>1
    <3>3. QED BY <1>2, <3>2 DEF ResponseInv
  <2>2. CASE Read(cli)
    <3> DEFINE c == asked[cli]
               d == Head(rx)
               len == BytesRead(c, d)
               ok == Decoded(c, d, len)
               kept == [d EXCEPT !.len = len]
    <3>1. PICK mallocFails \in BOOLEAN :
             /\ response' = [response EXCEPT ![cli] =
                   IF ok /\ DTCsComplete(c.decoder, len) THEN kept ELSE NoResponse]
             /\ pc' = [pc EXCEPT ![cli] =
                   IF ok /\ DecoderFaults(c.decoder, len, mallocFails) THEN "dead" ELSE "idle"]
      BY <2>2 DEF Read
    <3>2. d \in Datagram /\ len \in Nat
      <4>1. rx \in Seq(Datagram) /\ rx # << >>
        BY <1>1, <2>2 DEF TypeOK, Read
      <4>2. d \in Datagram
        BY <4>1, QueueFacts
      <4>3. d.len \in Nat /\ c.len \in Nat
        BY <1>2, <4>2, CommandFacts DEF Datagram
      <4>4. QED BY <4>2, <4>3 DEF BytesRead
    <3>3. kept.len = len
      BY <3>2 DEF Datagram
    <3>4. /\ response'[cli] = IF ok /\ DTCsComplete(c.decoder, len) THEN kept ELSE NoResponse
          /\ pc'[cli] = IF ok /\ DecoderFaults(c.decoder, len, mallocFails) THEN "dead" ELSE "idle"
      BY <1>1, <3>1, OneProcess DEF TypeOK
    <3>5. ok => len > 0 /\ LengthExpected(c, len) /\ (c.mode \in {1, 9} => len >= 2)
      BY DEF Decoded, OBDIIResponseSuccessful
    <3>6. ok /\ pc'[cli] # "dead" => c.decoder.writes # "NULL"
      BY <3>4 DEF DecoderFaults
    <3>7. asked'[cli] = c
      BY <1>5
    <3> HIDE DEF c, d, len, ok, kept
    <3>8. ResponseInv'
      BY <3>2, <3>3, <3>4, <3>5, <3>6, <3>7 DEF ResponseInv
    <3>9. pc'[cli] \in {"idle", "dead"}
      BY <3>4
    <3>10. QED BY <1>1, <1>2, <3>8, <3>9 DEF MainInv
  <2>3. QED BY <2>1, <2>2
<1>8. MainInv'
  BY <1>1, <1>2, <1>5, <1>6, <1>7 DEF MainInv, Places
<1>9. QED BY <1>7, <1>8

LEMMA CliStep == CliInv /\ [CliNext]_vars => CliInv'
<1> SUFFICES ASSUME CliInv, [CliNext]_vars PROVE CliInv'
  OBVIOUS
<1>1. QueryInv'
  BY QueryOfCli
<1>2. ASSUME UNCHANGED <<pc, asked, response>> PROVE ResponseInv'
  BY <1>2 DEF CliInv, ResponseInv
<1>3. ASSUME UNCHANGED <<pc, asked, response, cliVars>> PROVE ResponseInv' /\ MainInv'
  BY <1>2, <1>3 DEF cliVars, CliInv, MainInv, WrittenInv
<1>4. CASE UNCHANGED vars
  BY <1>1, <1>3, <1>4 DEF vars, queryVars, CliInv
<1>5. CASE ECU
  BY <1>1, <1>3, <1>5 DEF ECU, Answer, NoAnswer, CliInv
<1>6. CASE Call
  BY <1>1, <1>6, CallStep DEF CliInv
<1>7. CASE QueryStep
  BY <1>1, <1>7, QueryStepInv DEF CliInv
<1>8. CASE ParseOptions \/ Open \/ ListMore \/ Listed \/ PrintAndFree \/ SleepThenTest \/ End
           \/ User
  <2>1. UNCHANGED queryVars
    BY <1>8 DEF ParseOptions, Open, ListMore, Listed, PrintAndFree, SleepThenTest, End,
                User, Select, InvalidLine, EndOfInput, HandleInterrupted, vars
  <2>2. MainInv'
    BY <1>8, <2>1, MainSteps
  <2>3. QED BY <1>1, <1>2, <2>1, <2>2 DEF queryVars, CliInv
<1>9. QED BY <1>4, <1>5, <1>6, <1>7, <1>8 DEF CliNext, Run

LEMMA CliAlways == CliSpec => []CliInv
<1>1. QED BY CliInitInv, CliStep, PTL DEF CliSpec

-------------------------------------------------------------------------------
(***************************************************************************)
(* The decoder of any row of the tables reads no byte beyond those that    *)
(* read has returned, whatever the ECU has sent.                           *)
(***************************************************************************)
THEOREM ReadsTheorem == CliSpec => []ReadsOnlyTheAnswer
<1>1. CliInv => ReadsOnlyTheAnswer
  <2> SUFFICES ASSUME CliInv, at = "print", response[cli] # NoResponse
               PROVE  LastByteRead(command.decoder, response[cli].len) < response[cli].len
    BY DEF ReadsOnlyTheAnswer
  <2>1. /\ asked[cli] = command /\ command \in Commands
        /\ response[cli].len \in Nat /\ response[cli].len > 0
        /\ LengthExpected(command, response[cli].len)
        /\ command.mode \in {1, 9} => response[cli].len >= 2
    BY DEF CliInv, MainInv, ResponseInv
  <2>2. RowFacts(command)
    BY <2>1, Rows
  <2>3. CASE command.decoder.writes = "DTCs"
    <3>1. LastByteRead(command.decoder, response[cli].len) = 1 + 2 * ((response[cli].len - 2) \div 2)
      BY <2>3 DEF LastByteRead
    <3>2. \A n \in Nat : 1 + 2 * ((n - 2) \div 2) < n
      OBVIOUS
    <3>3. QED BY <2>1, <3>1, <3>2
  <2>4. CASE command.decoder.writes = "stringValue"
    <3>1. command.mode = 9
      BY <2>2, <2>4 DEF RowFacts, Pointers
    <3>2. response[cli].len >= 2
      BY <2>1, <3>1
    <3>3. QED BY <2>1, <2>4, <3>2 DEF LastByteRead
  <2>5. CASE command.decoder.writes \notin Pointers
    <3>1. command.len # VARIABLE_RESPONSE_LENGTH
      BY <2>2, <2>5 DEF RowFacts, Pointers
    <3>2. command.decoder.reads < response[cli].len
      BY <2>1, <2>2, <3>1 DEF RowFacts, LengthExpected
    <3>3. QED BY <2>5, <3>2 DEF LastByteRead, Pointers
  <2>6. QED BY <2>3, <2>4, <2>5 DEF Pointers
<1>2. QED BY <1>1, CliAlways, PTL

(***************************************************************************)
(* What main prints by the responseType of the command is what the decoder *)
(* of the command has written.                                             *)
(***************************************************************************)
THEOREM MemberTheorem == CliSpec => []MemberMatchesType
<1>1. CliInv => MemberMatchesType
  <2> SUFFICES ASSUME CliInv, at = "print", response[cli] # NoResponse
               PROVE  member \in MembersOf(command.type)
    BY DEF MemberMatchesType
  <2>1. /\ asked[cli] = command /\ command \in Commands /\ WrittenInv
        /\ command.decoder.writes # "NULL"
    BY DEF CliInv, MainInv, ResponseInv
  <2>2. RowFacts(command)
    BY <2>1, Rows
  <2>3. QED BY <2>1, <2>2 DEF RowFacts, WrittenInv
<1>2. QED BY <1>1, CliAlways, PTL

(***************************************************************************)
(* OBDIIResponseFree frees what is allocated, no round of a repeated query *)
(* leaves memory behind, and the program ends with none.                   *)
(***************************************************************************)
THEOREM MemoryTheorem == CliSpec => []MemoryBalanced
<1>1. CliInv => MemoryBalanced
  <2> SUFFICES ASSUME CliInv PROVE MemoryBalanced
    OBVIOUS
  <2>1. MainInv
    BY DEF CliInv
  <2>2. ASSUME at = "print" PROVE OBDIIResponseFree(command, member) \subseteq heap
    <3>1. asked[cli] = command /\ command \in Commands /\ WrittenInv
      BY <2>1, <2>2 DEF MainInv
    <3>2. RowFacts(command)
      BY <3>1, Rows
    <3>3. QED BY <3>1, <3>2 DEF RowFacts, WrittenInv, OBDIIResponseFree
  <2>3. at = "prompt" => heap \subseteq {"commands"}
    BY <2>1 DEF MainInv
  <2>4. at = "done" => heap = {}
    BY <2>1 DEF MainInv
  <2>5. QED BY <2>2, <2>3, <2>4 DEF MemoryBalanced
<1>2. QED BY <1>1, CliAlways, PTL
===============================================================================
