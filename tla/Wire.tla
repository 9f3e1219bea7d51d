--------------------------------- MODULE Wire ---------------------------------
(***************************************************************************)
(* The bytes of requests to obdiid: how the communication layer marshals a *)
(* request, and one turn of the daemon's loop, which receives a datagram   *)
(* into the buffer of the turns before, dumps it for the log, checks it    *)
(* and unmarshals it.  What the daemon then does is OBDIIDaemon's part.    *)
(*                                                                         *)
(* A 32-bit number is the pair of its upper and its lower 16 bits.  The    *)
(* host is little-endian.                                                  *)
(***************************************************************************)
EXTENDS Integers, Sequences, SequencesExt, FiniteSetsExt

CONSTANTS
    Tuples,      \* [ifindex, tid, rid] of the sockets that are requested
    Sizes,       \* sizes of the datagrams that other programs send
    MaxSize,     \* OBDII_DAEMON_REQUEST_MAX_SIZE
    CharSigned   \* is char a signed type in the build of the daemon?

UInt16 == 0..65535
UInt32 == UInt16 \X UInt16

ASSUME TuplesAssumption == Tuples \subseteq [ifindex: UInt32, tid: UInt32, rid: UInt32]
ASSUME SizesAssumption == Sizes \subseteq Nat /\ MaxSize \in Nat /\ MaxSize >= 16
ASSUME CharAssumption == CharSigned \in BOOLEAN

OBDII_API_VERSION == 1
OBDII_DAEMON_REQUEST_HEADER_SIZE == 4
RequestTypes == [open |-> 0, close |-> 1]

Request == [type: DOMAIN RequestTypes, tuple: Tuples]

-------------------------------------------------------------------------------
(* pack: memcpy of a number of two or of four bytes. *)
Pack16(n) == <<n % 256, n \div 256>>
Pack32(n) == Pack16(n[2]) \o Pack16(n[1])

(* requestRemoteSocket *)
Marshal(version, type, t) ==
    Pack16(version) \o Pack16(type) \o Pack32(t.ifindex) \o Pack32(t.tid) \o Pack32(t.rid)

(***************************************************************************)
(* The datagrams the daemon may find at its socket, each with the requests *)
(* it stands for, one or none: those of the communication layer, and those *)
(* of other programs: of a later version or an unknown type, too short, or *)
(* with bytes after the request.                                           *)
(***************************************************************************)
OfClient(r) == [bytes |-> Marshal(OBDII_API_VERSION, RequestTypes[r.type], r.tuple), of |-> {r}]

Resized(d, n) ==
    IF n < Len(d.bytes)
    THEN [bytes |-> SubSeq(d.bytes, 1, n), of |-> {}]
    ELSE [bytes |-> d.bytes \o [i \in 1..(n - Len(d.bytes)) |-> 255], of |-> d.of]

ClientDatagrams == {OfClient(r) : r \in Request}

OtherDatagrams ==
    {Resized(d, n) : d \in ClientDatagrams, n \in Sizes}
        \cup [bytes: {Marshal(v, 0, t) : v \in {0, 2, 257}, t \in Tuples}
                     \cup {Marshal(1, type, t) : type \in {2, 256}, t \in Tuples},
              of: {{}}]

-------------------------------------------------------------------------------
VARIABLES
    request,    \* the buffer of that name, with what is left of earlier turns
    requestLen, \* the length of the datagram in it
    formatted,  \* the last index of the buffer formatted that was written
    handled,    \* the requests that the last turn acted on: one or none
    got         \* the datagram that the turn was about

vars == <<request, requestLen, formatted, handled, got>>

(* The buffer is not initialised: its bytes are whatever the stack held. *)
Init ==
    /\ request \in {[i \in 1..MaxSize |-> b] : b \in {0, 255}}
    /\ requestLen = 0
    /\ formatted = 0
    /\ handled = {}
    /\ got = [bytes |-> << >>, of |-> {}]

(* The buffer after recvfrom, which cuts what does not fit. *)
Received(bytes) ==
    [i \in 1..MaxSize |-> IF i <= Len(bytes) THEN bytes[i] ELSE request[i]]

(***************************************************************************)
(* sprintf "%02x" of a char writes two digits, or eight if it is negative, *)
(* and a zero byte.                                                        *)
(***************************************************************************)
Digits(byte) == IF CharSigned /\ byte >= 128 THEN 8 ELSE 2

(* formatted[requestLen * 2] = 0, and dump: the last index written *)
Dump(buf, len) == Max({2 * len} \cup {2 * (i - 1) + Digits(buf[i]) : i \in 1..len})

asuint16(buf, i) == buf[i] + 256 * buf[i + 1]
asuint32(buf, i) == <<asuint16(buf, i + 2), asuint16(buf, i)>>

(* A bug: the length of the payload is not checked. *)
WellFormedHeader(buf, len) ==
    /\ len >= OBDII_DAEMON_REQUEST_HEADER_SIZE
    /\ asuint16(buf, 1) = OBDII_API_VERSION
    /\ \E type \in DOMAIN RequestTypes : RequestTypes[type] = asuint16(buf, 3)

(* The conditions of handleMessage and handleSocketRequest. *)
WellFormed(buf, len) ==
    /\ len >= OBDII_DAEMON_REQUEST_HEADER_SIZE
    /\ asuint16(buf, 1) = OBDII_API_VERSION
    /\ \E type \in DOMAIN RequestTypes : RequestTypes[type] = asuint16(buf, 3)
    /\ len - OBDII_DAEMON_REQUEST_HEADER_SIZE >= 12

Unmarshal(buf) ==
    [type |-> CHOOSE type \in DOMAIN RequestTypes : RequestTypes[type] = asuint16(buf, 3),
     tuple |-> [ifindex |-> asuint32(buf, 5), tid |-> asuint32(buf, 9), rid |-> asuint32(buf, 13)]]

(* A turn of the loop in main *)
Turn(d) ==
    /\ got' = d
    /\ requestLen' = Min({Len(d.bytes), MaxSize})
    /\ request' = Received(d.bytes)
    /\ formatted' = Dump(request', requestLen')
    /\ handled' = IF WellFormed(request', requestLen') THEN {Unmarshal(request')} ELSE {}

Next == \E d \in ClientDatagrams \cup OtherDatagrams : Turn(d)

Spec == Init /\ [][Next]_vars

-------------------------------------------------------------------------------
(***************************************************************************)
(* The daemon acts on the request that was marshalled, byte for byte, and  *)
(* on nothing else: a datagram that is cut short, or of another version or *)
(* type, is never completed from what earlier requests left in the buffer. *)
(***************************************************************************)
ActsOnWhatWasSent == handled = got.of

(* The dump of a request stays within formatted[requestLen * 2 + 1]. *)
DumpFits == formatted <= 2 * requestLen
===============================================================================
