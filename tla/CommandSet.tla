------------------------------ MODULE CommandSet ------------------------------
(***************************************************************************)
(* OBDIIGetSupportedCommands: up to four queries tell which PIDs a vehicle *)
(* supports; the command set is counted from their bitfields, allocated,   *)
(* and filled from the command tables of OBDII.c.                          *)
(*                                                                         *)
(* A bitfield is the set of the numbers of its one bits.  A query returns  *)
(* the vehicle's bitfield or, if it fails, a response of zeros; by         *)
(* AnswerMatchesCommand of Query it returns no other command's bitfield.   *)
(***************************************************************************)
EXTENDS Naturals, FiniteSets

CONSTANT Bitfields    \* the bitfields a vehicle may answer with

ASSUME BitfieldsAssumption == Bitfields \subseteq SUBSET (0..31)

(* The command tables; the index of a command is its PID. *)
OBDIIMode1Commands == {[mode |-> 1, pid |-> i] : i \in 0..78}
OBDIIMode3Command == [mode |-> 3, pid |-> 0]
OBDIIMode9Commands == {[mode |-> 9, pid |-> i] : i \in 0..2}

Queries == {"1_to_20", "21_to_40", "41_to_60", "mode9"}

VARIABLES
    pc,           \* the next query, then "fill" and "done"
    vehicle,      \* vehicle[q]: the bitfield the vehicle has for the query q
    failed,       \* the queries that have returned without success
    mode1,        \* _mode1SupportedPIDs, by the number of its last PID
    mode9,        \* _mode9SupportedPIDs
    numCommands,  \* the fields of that name
    commands      \* the entries of the array that have been written

vars == <<pc, vehicle, failed, mode1, mode9, numCommands, commands>>

TypeOK ==
    /\ pc \in Queries \cup {"fill", "done"}
    /\ vehicle \in [Queries -> Bitfields]
    /\ failed \subseteq Queries
    /\ mode1 \in [{32, 64, 96, 128} -> SUBSET (0..31)]
    /\ mode9 \in SUBSET (0..31)
    /\ numCommands \in Nat
    /\ commands \subseteq OBDIIMode1Commands \cup {OBDIIMode3Command} \cup OBDIIMode9Commands

Init ==
    /\ pc = "1_to_20"
    /\ vehicle \in [Queries -> Bitfields]
    /\ failed = {}
    /\ mode1 = [last \in {32, 64, 96, 128} |-> {}]
    /\ mode9 = {}
    /\ numCommands = 0
    /\ commands = {}

-------------------------------------------------------------------------------
(* OBDIIPerformQuery returns the response bits, zeros without success. *)
PerformQuery(q, bits) ==
    /\ pc = q
    /\ \/ bits = vehicle[q] /\ UNCHANGED failed
       \/ bits = {} /\ failed' = failed \cup {q}
    /\ UNCHANGED <<vehicle, numCommands, commands>>

(* A bug: the first bit is tested in place of the last. *)
NextQueryFirstBit(bits, q) == IF 31 \in bits THEN q ELSE "mode9"

(* If the last PID of a range is supported, the next range is queried. *)
NextQuery(bits, q) == IF 0 \in bits THEN q ELSE "mode9"

Query1To20(bits) ==
    /\ PerformQuery("1_to_20", bits)
    /\ mode1' = [mode1 EXCEPT ![32] = bits]
    /\ pc' = NextQuery(bits, "21_to_40")
    /\ UNCHANGED mode9

Query21To40(bits) ==
    /\ PerformQuery("21_to_40", bits)
    /\ mode1' = [mode1 EXCEPT ![64] = bits]
    /\ pc' = NextQuery(bits, "41_to_60")
    /\ UNCHANGED mode9

(* 0xFFFC0000: the table ends with PID 0x4E. *)
Query41To60(bits) ==
    /\ PerformQuery("41_to_60", bits)
    /\ mode1' = [mode1 EXCEPT ![96] = bits \cap (18..31)]
    /\ pc' = "mode9"
    /\ UNCHANGED mode9

(* 0xE0000000 *)
QueryMode9(bits) ==
    /\ PerformQuery("mode9", bits)
    /\ mode9' = bits \cap (29..31)
    /\ pc' = "fill"
    /\ UNCHANGED mode1

-------------------------------------------------------------------------------
(* OBDIICommandSetContainsCommand *)
Contains(c) ==
    \/ c.mode = 1 /\ c.pid = 0
    \/ c.mode = 1 /\ \E last \in {32, 64, 96, 128} :
           c.pid \in (last - 31)..last /\ last - c.pid \in mode1[last]
    \/ c.mode = 9 /\ (c.pid = 0 \/ 32 - c.pid \in mode9)

BitsSet(bits) == Cardinality(bits)

(* A bug: the two commands with PID 0, which have no bit, are not counted. *)
CountWithoutPID0 ==
    BitsSet(mode1[32]) + BitsSet(mode1[64]) + BitsSet(mode1[96]) + BitsSet(mode1[128])
        + BitsSet(mode9) + 1

(* One for each bit, the commands with PID 0 of modes 1 and 9, and mode 3. *)
Count ==
    BitsSet(mode1[32]) + BitsSet(mode1[64]) + BitsSet(mode1[96]) + BitsSet(mode1[128])
        + BitsSet(mode9) + 2 + 1

(* malloc succeeds, and the loops over the tables fill the array. *)
Fill ==
    /\ pc = "fill"
    /\ numCommands' = Count
    /\ commands' = {c \in OBDIIMode1Commands : Contains(c)}
                   \cup {OBDIIMode3Command}
                   \cup {c \in OBDIIMode9Commands : Contains(c)}
    /\ pc' = "done"
    /\ UNCHANGED <<vehicle, failed, mode1, mode9>>

MallocFails ==
    /\ pc = "fill"
    /\ pc' = "done"
    /\ UNCHANGED <<vehicle, failed, mode1, mode9, numCommands, commands>>

(* The caller has the set; there is nothing left to do. *)
Returned == pc = "done" /\ UNCHANGED vars

Next ==
    \/ \E bits \in Bitfields \cup {{}} :
        \/ Query1To20(bits)
        \/ Query21To40(bits)
        \/ Query41To60(bits)
        \/ QueryMode9(bits)
    \/ Fill
    \/ MallocFails
    \/ Returned

Spec == Init /\ [][Next]_vars

-------------------------------------------------------------------------------
(***************************************************************************)
(* The array is counted from the bitfields and filled from the tables: it  *)
(* is never written beyond its end.                                        *)
(***************************************************************************)
NeverOverflows == Cardinality(commands) <= numCommands

(***************************************************************************)
(* The command set lists a command of the tables if and only if its PID is *)
(* 0 or the vehicle supports it, PID p being bit 31 - ((p-1) % 32) of its  *)
(* range.  A range is known if its query succeeded and the last PID of the *)
(* range before, which tells that there is a next one, is listed.          *)
(***************************************************************************)
Known(q) ==
    /\ q \notin failed
    /\ q \in {"21_to_40", "41_to_60"} => [mode |-> 1, pid |-> 32] \in commands
    /\ q = "41_to_60" => [mode |-> 1, pid |-> 64] \in commands

RangeOf(c) ==
    CASE c.mode = 9 -> "mode9"
      [] c.mode = 1 /\ c.pid <= 32 -> "1_to_20"
      [] c.mode = 1 /\ c.pid \in 33..64 -> "21_to_40"
      [] OTHER -> "41_to_60"

ListsWhatTheVehicleSupports ==
    commands # {} =>
        \A c \in OBDIIMode1Commands \cup OBDIIMode9Commands :
            c \in commands <=>
                \/ c.pid = 0
                \/ /\ Known(RangeOf(c))
                   /\ 31 - ((c.pid - 1) % 32) \in vehicle[RangeOf(c)]

(* numCommands is the number of the commands in the array. *)
AllSlotsFilled == numCommands = Cardinality(commands)
===============================================================================
