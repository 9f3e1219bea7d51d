--------------------------------- MODULE Cli ----------------------------------
(***************************************************************************)
(* The command line utility, cli.c: it opens a socket, lists the commands  *)
(* the vehicle supports, and queries those the user selects, once or until *)
(* SIGINT.  Its queries are those of Query, run by the one process cli,    *)
(* with the ECU at the other end; CommandSet models how the list comes     *)
(* about, and SharedSockets the opening and closing of the socket.         *)
(***************************************************************************)
EXTENDS Query

CONSTANTS
    cli,     \* the process
    Lists    \* the lists of commands the vehicle may turn out to support

ASSUME CliAssumption == Procs = {cli} /\ Lists \subseteq SUBSET Commands
ASSUME TableAssumption == Commands = OBDIICommands

VARIABLES
    at,           \* the next step of main
    ret,          \* where main goes on when the query it calls returns
    command,      \* the command it queries
    supported,    \* the commands of supportedCommands
    repeatQuery,  \* the local variable, as a Boolean
    interrupted,  \* the flag that handleInterrupted sets
    member,       \* the member of the response's union that was written
    heap          \* the blocks of memory that are allocated

cliVars == <<at, ret, command, supported, repeatQuery, interrupted, member, heap>>

vars == <<queryVars, cliVars>>

(* The first query of OBDIIGetSupportedCommands, and the last one. *)
mode1SupportedPIDs_1_to_20 == CHOOSE c \in Commands : c.mode = 1 /\ c.pid = 0
mode9SupportedPIDs == CHOOSE c \in Commands : c.mode = 9 /\ c.pid = 0

CliInit ==
    /\ Init
    /\ asked[cli] = mode1SupportedPIDs_1_to_20
    /\ at = "start"
    /\ ret = "list"
    /\ command = mode1SupportedPIDs_1_to_20
    /\ supported = {}
    /\ repeatQuery = FALSE
    /\ interrupted = FALSE
    /\ member = "nothing"
    /\ heap = {}

-------------------------------------------------------------------------------
(* The options are read, or main prints the usage and exits. *)
ParseOptions ==
    /\ at = "start"
    /\ at' \in {"open", "done"}
    /\ UNCHANGED <<queryVars, ret, command, supported, repeatQuery, interrupted, member, heap>>

Open ==
    /\ at = "open"
    /\ at' \in {"call", "done"}
    /\ UNCHANGED <<queryVars, ret, command, supported, repeatQuery, interrupted, member, heap>>

(***************************************************************************)
(* The queries of OBDIIGetSupportedCommands.  What the bits of an answer   *)
(* say is left open: they are zeros if the query has failed.               *)
(***************************************************************************)
ListMore ==
    /\ at = "list"
    /\ \/ /\ asked[cli].mode = 1 /\ asked[cli].pid < 64 /\ response[cli] # NoResponse
          /\ command' \in {c \in Commands : c.mode = 1 /\ c.pid = asked[cli].pid + 32}
       \/ /\ asked[cli].mode = 1
          /\ command' = mode9SupportedPIDs
    /\ at' = "call"
    /\ member' = "nothing"
    /\ UNCHANGED <<queryVars, ret, supported, repeatQuery, interrupted, heap>>

(* The command set is allocated and filled, unless malloc fails. *)
Listed ==
    /\ at = "list" /\ asked[cli] = mode9SupportedPIDs
    /\ \/ supported' \in Lists /\ heap' = heap \cup {"commands"}
       \/ supported' = {} /\ UNCHANGED heap
    /\ at' = "prompt"
    /\ member' = "nothing"
    /\ UNCHANGED <<queryVars, ret, command, repeatQuery, interrupted>>

-------------------------------------------------------------------------------
(* A line with a command's number; "-p", and nothing after it, repeats it. *)
Select(c, repeat) ==
    /\ at = "prompt" /\ c \in supported
    /\ command' = c
    /\ repeatQuery' = repeat
    /\ ret' = "print"
    /\ at' = "call"
    /\ UNCHANGED <<queryVars, supported, interrupted, member, heap>>

(* A line without a number, or with one that is out of range. *)
InvalidLine == at = "prompt" /\ UNCHANGED vars

(* fgets returns NULL: the end of the input, or a signal while it waited. *)
EndOfInput ==
    /\ at = "prompt"
    /\ at' = "end"
    /\ UNCHANGED <<queryVars, ret, command, supported, repeatQuery, interrupted, member, heap>>

Call ==
    /\ at = "call"
    /\ Begin(cli, command)
    /\ at' = "query"
    /\ UNCHANGED <<ret, command, supported, repeatQuery, interrupted, member, heap>>

(***************************************************************************)
(* A step of OBDIIPerformQuery.  When it returns the decoder has written a *)
(* member of the union, or a pointer that is NULL for want of memory.      *)
(***************************************************************************)
QueryStep ==
    /\ at = "query"
    /\ Progress(cli) \/ WriteFails(cli) \/ ReadFails(cli)
    /\ at' = IF pc'[cli] = "idle" THEN ret ELSE "query"
    /\ IF response'[cli] = NoResponse
       THEN UNCHANGED <<member, heap>>
       ELSE LET written == command.decoder.writes IN
            /\ member' \in IF written \in Pointers THEN {written, "nothing"} ELSE {written}
            /\ heap' = heap \cup ({member'} \cap Pointers)
    /\ UNCHANGED <<ret, command, supported, repeatQuery, interrupted>>

(* The result is printed, and the response freed. *)
PrintAndFree ==
    /\ at = "print"
    /\ heap' = heap \ OBDIIResponseFree(command, member)
    /\ member' = "nothing"
    /\ at' = IF repeatQuery THEN "sleep" ELSE "prompt"
    /\ UNCHANGED <<queryVars, ret, command, supported, repeatQuery, interrupted>>

(* A bug: the flag is cleared before it is looked at. *)
SleepThenClear ==
    /\ at = "sleep"
    /\ interrupted' = FALSE
    /\ at' = IF interrupted' THEN "prompt" ELSE "call"
    /\ UNCHANGED <<queryVars, ret, command, supported, repeatQuery, member, heap>>

(* nanosleep, which a signal cuts short, and the test of the flag. *)
SleepThenTest ==
    /\ at = "sleep"
    /\ interrupted' = FALSE
    /\ at' = IF interrupted THEN "prompt" ELSE "call"
    /\ UNCHANGED <<queryVars, ret, command, supported, repeatQuery, member, heap>>

(* OBDIICommandSetFree, then OBDIICloseSocket, whatever that returns *)
End ==
    /\ at = "end"
    /\ heap' = heap \ {"commands"}
    /\ at' = "done"
    /\ UNCHANGED <<queryVars, ret, command, supported, repeatQuery, interrupted, member>>

(***************************************************************************)
(* SIGINT, at any time.  A system call that it ends fails: WriteFails,     *)
(* SelectFails, ReadFails, EndOfInput, or Open that leads to "done".       *)
(***************************************************************************)
HandleInterrupted ==
    /\ at \notin {"start", "done"} /\ pc[cli] # "dead"
    /\ interrupted' = TRUE
    /\ UNCHANGED <<queryVars, at, ret, command, supported, repeatQuery, member, heap>>

-------------------------------------------------------------------------------
Run ==
    \/ ParseOptions
    \/ Open
    \/ ListMore
    \/ Listed
    \/ Call
    \/ QueryStep
    \/ PrintAndFree
    \/ SleepThenTest
    \/ End

User ==
    \/ \E c \in Commands, repeat \in BOOLEAN : Select(c, repeat)
    \/ InvalidLine
    \/ EndOfInput
    \/ HandleInterrupted

ECU == (Answer \/ NoAnswer) /\ UNCHANGED cliVars

CliNext == Run \/ User \/ ECU

(* The process runs on unless it waits for the user or the ECU. *)
CliSpec == CliInit /\ [][CliNext]_vars /\ WF_vars(Run)

-------------------------------------------------------------------------------
(***************************************************************************)
(* No decoder reads beyond the bytes that read has returned: the length    *)
(* checks, the expectedResponseLength of each row of the tables and the    *)
(* bytes its decoder takes belong together, whatever length an answer has. *)
(***************************************************************************)
ReadsOnlyTheAnswer ==
    at = "print" /\ response[cli] # NoResponse =>
        LastByteRead(command.decoder, response[cli].len) < response[cli].len

(***************************************************************************)
(* What is printed, or left to be used, by the responseType of the command *)
(* is the member of the union that its decoder wrote.                      *)
(***************************************************************************)
MembersOf(type) ==
    CASE type = "Numeric"  -> {"numericValue"}
      [] type = "Bitfield" -> {"bitfieldValue"}
      [] type = "String"   -> {"stringValue", "nothing"}
      [] type = "Other"    -> {"DTCs", "oxygenSensorValues", "nothing"}

MemberMatchesType ==
    at = "print" /\ response[cli] # NoResponse => member \in MembersOf(command.type)

(***************************************************************************)
(* Memory: a block that is freed is allocated, whatever the query came to; *)
(* at the prompt no response has memory left, however often it was         *)
(* repeated; at the end there is none.                                     *)
(***************************************************************************)
MemoryBalanced ==
    /\ at = "print" => OBDIIResponseFree(command, member) \subseteq heap
    /\ at = "prompt" => heap \subseteq {"commands"}
    /\ at = "done" => heap = {}

(***************************************************************************)
(* SIGINT ends a repeated query, whenever in a round it arrives and        *)
(* whatever answers arrive; the program may die of a fault in a decoder.   *)
(***************************************************************************)
Repeating == repeatQuery /\ ret = "print" /\ at \in {"call", "query", "print", "sleep"}

InterruptEndsRepeat ==
    Repeating /\ interrupted ~> at = "prompt" \/ pc[cli] = "dead"
===============================================================================
