------------------------------- MODULE Decoders -------------------------------
(***************************************************************************)
(* The protocol layer, OBDII.c: the command tables, when an answer is a    *)
(* success for a command, and the decoders.  Of a decoder the module keeps *)
(* the last byte of the answer it reads and the member of the response's   *)
(* union it writes, of an answer its first two bytes and its length.       *)
(***************************************************************************)
EXTENDS Integers

VARIABLE_RESPONSE_LENGTH == 0

Members == {"numericValue", "bitfieldValue", "stringValue", "DTCs", "oxygenSensorValues"}

(* The members that point to memory which the decoder has allocated. *)
Pointers == {"stringValue", "DTCs"}

Decoder == [reads: Nat, writes: Members \cup {"nothing", "NULL"}]

Reads(last, member) == [reads |-> last, writes |-> member]

OBDIIDecodeBitfield              == Reads(5, "bitfieldValue")
OBDIIDecodeSingleByteBitfield    == Reads(2, "bitfieldValue")
OBDIIDecodeTwoByteBitfield       == Reads(3, "bitfieldValue")
OBDIIDecodeEngineRPMs            == Reads(3, "numericValue")
OBDIIDecodeTimingAdvance         == Reads(2, "numericValue")
OBDIIDecodeTemperature           == Reads(2, "numericValue")
OBDIIDecodePercentage            == Reads(2, "numericValue")
OBDIIDecodeFuelTrim              == Reads(2, "numericValue")
OBDIIDecodeFuelPressure          == Reads(2, "numericValue")
OBDIIDecodeThrottlePosition      == Reads(2, "numericValue")
OBDIIDecodeMAFAirFlowRate        == Reads(3, "numericValue")
OBDIIDecodeUInt8                 == Reads(2, "numericValue")
OBDIIDecodeUInt16                == Reads(3, "numericValue")
OBDIIDecodeFuelRailPressure      == Reads(3, "numericValue")
OBDIIDecodeFuelRailGaugePressure == Reads(3, "numericValue")
OBDIIDecodeEGRError              == Reads(2, "numericValue")
OBDIIDecodeVaporPressure         == Reads(3, "numericValue")
OBDIIDecodeCatalystTemperature   == Reads(3, "numericValue")
OBDIIDecodeControlModuleVoltage  == Reads(3, "numericValue")
OBDIIDecodeAbsoluteLoadValue     == Reads(3, "numericValue")
OBDIIDecodeFuelAirEquivalence    == Reads(3, "numericValue")
OBDIIDecodeOxygenSensorValues    == Reads(3, "oxygenSensorValues")
OBDIIDecodeOxygenSensorValues2   == Reads(5, "oxygenSensorValues")
OBDIIDecodeOxygenSensorValues3   == Reads(5, "oxygenSensorValues")
OBDIIDecodeNop                   == Reads(0, "nothing")
NoDecoder                        == Reads(0, "NULL")

(* What these two read depends on the length of the answer. *)
OBDIIDecodeDTCs == Reads(0, "DTCs")
OBDIIDecodeVIN  == Reads(0, "stringValue")

(* The largest size_t, here the largest number TLC has. *)
SIZE_MAX == 2147483647

(* How far the decoder may read.  Both skip the first two bytes; a trouble *)
(* code has two bytes; strncpy takes len - 2 as a size_t.                  *)
LastByteRead(decoder, len) ==
    IF decoder.writes = "DTCs" THEN 1 + 2 * ((len - 2) \div 2)
    ELSE IF decoder.writes # "stringValue" THEN decoder.reads
    ELSE IF len >= 2 THEN 1 + (len - 2) ELSE SIZE_MAX

-------------------------------------------------------------------------------
(* The command tables, by the PIDs that have an entry in common. *)
OBDIIResponseType == {"Bitfield", "Numeric", "String", "Other"}

Command ==
    [mode: {1, 3, 9}, pid: 0..255, type: OBDIIResponseType, len: Nat, decoder: Decoder]

Mode1Decoder(pid) ==
    CASE pid \in {0, 1, 32, 64, 65}            -> OBDIIDecodeBitfield
      [] pid = 2                               -> OBDIIDecodeNop
      [] pid = 3                               -> OBDIIDecodeTwoByteBitfield
      [] pid \in {4, 44, 46, 47, 69} \cup 71..76 -> OBDIIDecodePercentage
      [] pid \in {5, 15, 70}                   -> OBDIIDecodeTemperature
      [] pid \in 6..9                          -> OBDIIDecodeFuelTrim
      [] pid = 10                              -> OBDIIDecodeFuelPressure
      [] pid \in {11, 13, 48, 51}              -> OBDIIDecodeUInt8
      [] pid = 12                              -> OBDIIDecodeEngineRPMs
      [] pid = 14                              -> OBDIIDecodeTimingAdvance
      [] pid = 16                              -> OBDIIDecodeMAFAirFlowRate
      [] pid = 17                              -> OBDIIDecodeThrottlePosition
      [] pid \in {18, 19} \cup 28..30          -> OBDIIDecodeSingleByteBitfield
      [] pid \in 20..27                        -> OBDIIDecodeOxygenSensorValues
      [] pid \in {31, 33, 49, 77, 78}          -> OBDIIDecodeUInt16
      [] pid = 34                              -> OBDIIDecodeFuelRailPressure
      [] pid = 35                              -> OBDIIDecodeFuelRailGaugePressure
      [] pid \in 36..43                        -> OBDIIDecodeOxygenSensorValues2
      [] pid = 45                              -> OBDIIDecodeEGRError
      [] pid = 50                              -> OBDIIDecodeVaporPressure
      [] pid \in 52..59                        -> OBDIIDecodeOxygenSensorValues3
      [] pid \in 60..63                        -> OBDIIDecodeCatalystTemperature
      [] pid = 66                              -> OBDIIDecodeControlModuleVoltage
      [] pid = 67                              -> OBDIIDecodeAbsoluteLoadValue
      [] pid = 68                              -> OBDIIDecodeFuelAirEquivalence

(* A bug: a row has the type of the row before it. *)
Mode1TypeSlip(pid) ==
    CASE pid \in {0, 1, 3, 18, 19, 32, 64, 65} \cup 29..30   -> "Bitfield"
      [] pid \in {2} \cup 20..28 \cup 36..43 \cup 52..59     -> "Other"
      [] OTHER                                               -> "Numeric"

Mode1Type(pid) ==
    CASE pid \in {0, 1, 3, 18, 19, 32, 64, 65} \cup 28..30   -> "Bitfield"
      [] pid \in {2} \cup 20..27 \cup 36..43 \cup 52..59     -> "Other"
      [] OTHER                                               -> "Numeric"

(* A bug: one row has the length of the rows around it. *)
Mode1LengthSlip(pid) ==
    CASE pid \in {0, 1, 32, 64, 65} \cup 36..43 \cup 52..59                 -> 6
      [] pid \in {2, 3, 12, 31, 33, 34, 35, 49, 50, 66, 67, 68, 77, 78}
                 \cup 20..27 \cup 60..63                                    -> 4
      [] OTHER                                                              -> 3

Mode1Length(pid) ==
    CASE pid \in {0, 1, 32, 64, 65} \cup 36..43 \cup 52..59                 -> 6
      [] pid \in {2, 3, 12, 16, 31, 33, 34, 35, 49, 50, 66, 67, 68, 77, 78}
                 \cup 20..27 \cup 60..63                                    -> 4
      [] OTHER                                                              -> 3

OBDIIMode1Commands ==
    {[mode |-> 1, pid |-> i, type |-> Mode1Type(i), len |-> Mode1Length(i),
      decoder |-> Mode1Decoder(i)] : i \in 0..78}

OBDIIMode3Command ==
    [mode |-> 3, pid |-> 0, type |-> "Other", len |-> VARIABLE_RESPONSE_LENGTH,
     decoder |-> OBDIIDecodeDTCs]

OBDIIMode9Commands ==
    {[mode |-> 9, pid |-> 0, type |-> "Bitfield", len |-> 6, decoder |-> OBDIIDecodeBitfield],
     [mode |-> 9, pid |-> 1, type |-> "Numeric", len |-> 3, decoder |-> NoDecoder],
     [mode |-> 9, pid |-> 2, type |-> "String", len |-> VARIABLE_RESPONSE_LENGTH,
      decoder |-> OBDIIDecodeVIN]}

OBDIICommands == OBDIIMode1Commands \cup {OBDIIMode3Command} \cup OBDIIMode9Commands

-------------------------------------------------------------------------------
LengthExpected(c, len) == c.len # VARIABLE_RESPONSE_LENGTH => len = c.len

(* A bug: an answer without a PID is taken for one with the right PID. *)
SuccessfulWithoutPID(c, d, len) ==
    /\ len > 0
    /\ LengthExpected(c, len)
    /\ d.sid = c.mode + 64
    /\ c.mode \in {1, 9} /\ len >= 2 => d.pid = c.pid

(* A bug: the PID in the answer is not looked at. *)
SuccessfulAnyPID(c, d, len) ==
    /\ len > 0
    /\ LengthExpected(c, len)
    /\ d.sid = c.mode + 64

(* Is the answer d, of which len bytes were read, a success for c? *)
OBDIIResponseSuccessful(c, d, len) ==
    /\ len > 0
    /\ LengthExpected(c, len)
    /\ d.sid = c.mode + 64
    /\ c.mode \in {1, 9} => len >= 2 /\ d.pid = c.pid

(* OBDIIDecodeDTCs takes success back when the codes are not two bytes each. *)
DTCsComplete(decoder, len) == decoder.writes = "DTCs" => len >= 2 /\ len % 2 = 0

(***************************************************************************)
(* Does the call of the decoder end the process?  A decoder that is NULL   *)
(* does; that of the trouble codes does when there are codes to store and  *)
(* malloc, whose result is not looked at, fails.                           *)
(***************************************************************************)
DecoderFaults(decoder, len, mallocFails) ==
    \/ decoder.writes = "NULL"
    \/ decoder.writes = "DTCs" /\ mallocFails /\ len > 3 /\ len % 2 = 0

(* A bug: strings are not freed. *)
FreeOnlyDTCs(c, member) == IF c = OBDIIMode3Command THEN {member} \ {"nothing"} ELSE {}

(***************************************************************************)
(* What OBDIIResponseFree frees of a response to c whose union was written *)
(* through member; "nothing" if it is all zeros.                           *)
(***************************************************************************)
OBDIIResponseFree(c, member) ==
    IF c = OBDIIMode3Command \/ c.type = "String" THEN {member} \ {"nothing"} ELSE {}
===============================================================================
