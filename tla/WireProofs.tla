------------------------------ MODULE WireProofs ------------------------------
(***************************************************************************)
(* The daemon unmarshals what the communication layer has marshalled, for  *)
(* all tuples, all sizes of datagrams and all earlier contents of its      *)
(* buffer.                                                                 *)
(***************************************************************************)
EXTENDS Wire, SequenceTheorems, TLAPS

(* A number in two bytes, read back. *)
LEMMA Bytes16 ==
    ASSUME NEW n \in UInt16
    PROVE  /\ Pack16(n) \in Seq(Int) /\ Len(Pack16(n)) = 2
           /\ Pack16(n)[1] + 256 * Pack16(n)[2] = n
<1>1. n \in Int /\ n % 256 \in Int /\ n \div 256 \in Int
  BY DEF UInt16
<1>2. (n % 256) + 256 * (n \div 256) = n
  BY <1>1
<1>3. QED BY <1>1, <1>2 DEF Pack16

(* The elements of s, then those of t. *)
LEMMA Joined ==
    ASSUME NEW s \in Seq(Int), NEW t \in Seq(Int)
    PROVE  /\ s \o t \in Seq(Int) /\ Len(s \o t) = Len(s) + Len(t)
           /\ \A i \in 1..Len(s) : (s \o t)[i] = s[i]
           /\ \A i \in 1..Len(t) : (s \o t)[Len(s) + i] = t[i]
  OBVIOUS

LEMMA Bytes32 ==
    ASSUME NEW n \in UInt32
    PROVE  /\ Pack32(n) \in Seq(Int) /\ Len(Pack32(n)) = 4
           /\ asuint32(Pack32(n), 1) = n
<1> DEFINE lo == Pack16(n[2])
           hi == Pack16(n[1])
<1>1. n[1] \in UInt16 /\ n[2] \in UInt16 /\ n = <<n[1], n[2]>>
  BY DEF UInt32
<1>2. /\ lo \in Seq(Int) /\ Len(lo) = 2 /\ lo[1] + 256 * lo[2] = n[2]
      /\ hi \in Seq(Int) /\ Len(hi) = 2 /\ hi[1] + 256 * hi[2] = n[1]
  BY <1>1, Bytes16
<1>3. Pack32(n) = lo \o hi
  BY DEF Pack32
<1> HIDE DEF lo, hi
<1>4. /\ lo \o hi \in Seq(Int) /\ Len(lo \o hi) = 4
      /\ (lo \o hi)[1] = lo[1] /\ (lo \o hi)[2] = lo[2]
      /\ (lo \o hi)[3] = hi[1] /\ (lo \o hi)[4] = hi[2]
  <2>1. /\ lo \o hi \in Seq(Int) /\ Len(lo \o hi) = Len(lo) + Len(hi)
        /\ \A i \in 1..Len(lo) : (lo \o hi)[i] = lo[i]
        /\ \A i \in 1..Len(hi) : (lo \o hi)[Len(lo) + i] = hi[i]
    BY <1>2, Joined
  <2>2. QED BY <1>2, <2>1
<1>5. asuint16(lo \o hi, 1) = n[2] /\ asuint16(lo \o hi, 3) = n[1]
  BY <1>2, <1>4 DEF asuint16
<1>6. asuint32(lo \o hi, 1) = <<asuint16(lo \o hi, 3), asuint16(lo \o hi, 1)>>
  BY DEF asuint32
<1>7. QED BY <1>1, <1>3, <1>4, <1>5, <1>6

(* A number after the bytes that are there already. *)
LEMMA Packed ==
    ASSUME NEW s \in Seq(Int), NEW n \in UInt32
    PROVE  LET m == s \o Pack32(n) IN
           /\ m \in Seq(Int) /\ Len(m) = Len(s) + 4
           /\ \A i \in 1..Len(s) : m[i] = s[i]
           /\ asuint32(m, Len(s) + 1) = n
<1> DEFINE p == Pack32(n)
           m == s \o p
<1>1. p \in Seq(Int) /\ Len(p) = 4 /\ asuint32(p, 1) = n
  BY Bytes32
<1> HIDE DEF p
<1>2. /\ m \in Seq(Int) /\ Len(m) = Len(s) + 4 /\ Len(s) \in Nat
      /\ \A i \in 1..Len(s) : m[i] = s[i]
      /\ m[Len(s) + 1] = p[1] /\ m[Len(s) + 2] = p[2]
      /\ m[Len(s) + 3] = p[3] /\ m[Len(s) + 4] = p[4]
  <2>1. /\ m \in Seq(Int) /\ Len(m) = Len(s) + Len(p)
        /\ \A i \in 1..Len(s) : m[i] = s[i]
        /\ \A i \in 1..Len(p) : m[Len(s) + i] = p[i]
    BY <1>1, Joined
  <2> HIDE DEF m
  <2>2. 1 \in 1..Len(p) /\ 2 \in 1..Len(p) /\ 3 \in 1..Len(p) /\ 4 \in 1..Len(p)
    BY <1>1
  <2>3. QED BY <1>1, <2>1, <2>2
<1> HIDE DEF m
<1>3. asuint32(m, Len(s) + 1) = asuint32(p, 1)
  <2>1. /\ (Len(s) + 1) + 1 = Len(s) + 2 /\ (Len(s) + 1) + 2 = Len(s) + 3
        /\ (Len(s) + 1) + 2 + 1 = Len(s) + 4
    BY <1>2
  <2>2. asuint16(m, Len(s) + 1) = asuint16(p, 1)
    BY <1>2, <2>1 DEF asuint16
  <2>3. asuint16(m, Len(s) + 3) = asuint16(p, 3)
    <3>1. (Len(s) + 3) + 1 = Len(s) + 4 /\ 3 + 1 = 4
      BY <1>2
    <3>2. QED BY <1>2, <3>1 DEF asuint16
  <2>4. asuint16(m, (Len(s) + 1) + 2) = asuint16(p, 1 + 2)
    BY <2>1, <2>3
  <2>5. QED BY <2>2, <2>4 DEF asuint32
<1>4. QED BY <1>1, <1>2, <1>3 DEF m, p

Tuple == [ifindex: UInt32, tid: UInt32, rid: UInt32]

(* The fields of a request are where the daemon looks for them. *)
Fields(buf, version, type, t) ==
    /\ asuint16(buf, 1) = version /\ asuint16(buf, 3) = type
    /\ asuint32(buf, 5) = t.ifindex
    /\ asuint32(buf, 9) = t.tid
    /\ asuint32(buf, 13) = t.rid

LEMMA Marshalled ==
    ASSUME NEW version \in UInt16, NEW type \in UInt16, NEW t \in Tuple
    PROVE  LET m == Marshal(version, type, t) IN
           m \in Seq(Int) /\ Len(m) = 16 /\ Fields(m, version, type, t)
<1> DEFINE v == Pack16(version)
           y == Pack16(type)
           h == v \o y
           a == h \o Pack32(t.ifindex)
           b == a \o Pack32(t.tid)
           m == b \o Pack32(t.rid)
<1>1. t.ifindex \in UInt32 /\ t.tid \in UInt32 /\ t.rid \in UInt32
  BY DEF Tuple
<1>2. /\ v \in Seq(Int) /\ Len(v) = 2 /\ v[1] + 256 * v[2] = version
      /\ y \in Seq(Int) /\ Len(y) = 2 /\ y[1] + 256 * y[2] = type
  BY Bytes16
<1>3. Marshal(version, type, t) = m
  BY DEF Marshal
<1> HIDE DEF v, y
<1>4. /\ h \in Seq(Int) /\ Len(h) = 4
      /\ h[1] = v[1] /\ h[2] = v[2] /\ h[3] = y[1] /\ h[4] = y[2]
  <2>1. /\ h \in Seq(Int) /\ Len(h) = Len(v) + Len(y)
        /\ \A i \in 1..Len(v) : h[i] = v[i]
        /\ \A i \in 1..Len(y) : h[Len(v) + i] = y[i]
    BY <1>2, Joined
  <2> HIDE DEF h
  <2>2. QED BY <1>2, <2>1
<1> HIDE DEF h
<1>5. /\ a \in Seq(Int) /\ Len(a) = 8 /\ \A i \in 1..4 : a[i] = h[i]
      /\ asuint32(a, 5) = t.ifindex
  <2>1. /\ a \in Seq(Int) /\ Len(a) = Len(h) + 4
        /\ \A i \in 1..Len(h) : a[i] = h[i]
        /\ asuint32(a, Len(h) + 1) = t.ifindex
    BY <1>1, <1>4, Packed
  <2> HIDE DEF a
  <2>2. QED BY <1>4, <2>1
<1> HIDE DEF a
<1>6. /\ b \in Seq(Int) /\ Len(b) = 12 /\ \A i \in 1..8 : b[i] = a[i]
      /\ asuint32(b, 9) = t.tid
  <2>1. /\ b \in Seq(Int) /\ Len(b) = Len(a) + 4
        /\ \A i \in 1..Len(a) : b[i] = a[i]
        /\ asuint32(b, Len(a) + 1) = t.tid
    BY <1>1, <1>5, Packed
  <2> HIDE DEF b
  <2>2. QED BY <1>5, <2>1
<1> HIDE DEF b
<1>7. /\ m \in Seq(Int) /\ Len(m) = 16 /\ \A i \in 1..12 : m[i] = b[i]
      /\ asuint32(m, 13) = t.rid
  <2>1. /\ m \in Seq(Int) /\ Len(m) = Len(b) + 4
        /\ \A i \in 1..Len(b) : m[i] = b[i]
        /\ asuint32(m, Len(b) + 1) = t.rid
    BY <1>1, <1>6, Packed
  <2> HIDE DEF m
  <2>2. QED BY <1>6, <2>1
<1> HIDE DEF m
<1>8. asuint16(m, 1) = version /\ asuint16(m, 3) = type
  BY <1>2, <1>4, <1>5, <1>6, <1>7 DEF asuint16
<1>9. asuint32(m, 5) = asuint32(a, 5)
  BY <1>6, <1>7 DEF asuint32, asuint16
<1>10. asuint32(m, 9) = asuint32(b, 9)
  BY <1>7 DEF asuint32, asuint16
<1>11. QED BY <1>3, <1>5, <1>6, <1>7, <1>8, <1>9, <1>10 DEF Fields

(* Does buf begin with the bytes of m? *)
Begins(buf, m) == \A i \in 1..16 : buf[i] = m[i]

LEMMA FieldsKept ==
    ASSUME NEW buf, NEW m, Begins(buf, m), NEW version, NEW type, NEW t,
           Fields(m, version, type, t)
    PROVE  Fields(buf, version, type, t)
<1>1. ASSUME NEW i \in 1..15 PROVE asuint16(buf, i) = asuint16(m, i)
  <2>1. i \in 1..16 /\ i + 1 \in 1..16
    OBVIOUS
  <2>2. QED BY <2>1 DEF asuint16, Begins
<1>2. ASSUME NEW i \in 1..13 PROVE asuint32(buf, i) = asuint32(m, i)
  <2>1. i \in 1..15 /\ i + 2 \in 1..15
    OBVIOUS
  <2>2. QED BY <1>1, <2>1 DEF asuint32
<1>3. /\ asuint16(buf, 1) = asuint16(m, 1) /\ asuint16(buf, 3) = asuint16(m, 3)
      /\ asuint32(buf, 5) = asuint32(m, 5) /\ asuint32(buf, 9) = asuint32(m, 9)
      /\ asuint32(buf, 13) = asuint32(m, 13)
  BY <1>1, <1>2
<1>4. QED BY <1>3 DEF Fields

(* A datagram that has all of a request, and perhaps more. *)
Carries(bytes, version, type, t) ==
    /\ bytes \in Seq(Int) /\ Len(bytes) >= 16
    /\ Begins(bytes, Marshal(version, type, t))

LEMMA CarriesItself ==
    ASSUME NEW version \in UInt16, NEW type \in UInt16, NEW t \in Tuple
    PROVE  Carries(Marshal(version, type, t), version, type, t)
<1> DEFINE m == Marshal(version, type, t)
<1>1. m \in Seq(Int) /\ Len(m) = 16
  BY Marshalled
<1> HIDE DEF m
<1>2. Begins(m, m)
  BY DEF Begins
<1>3. Len(m) >= 16
  BY <1>1
<1>4. QED BY <1>1, <1>2, <1>3 DEF Carries, m

(* The same of the daemon's buffer, if it has received all of the request. *)
LEMMA FieldsReceived ==
    ASSUME NEW version \in UInt16, NEW type \in UInt16, NEW t \in Tuple, NEW bytes,
           Carries(bytes, version, type, t)
    PROVE  Fields(Received(bytes), version, type, t)
<1>1. Len(bytes) \in Nat /\ Len(bytes) >= 16
  BY DEF Carries
<1>2. ASSUME NEW i \in 1..16 PROVE i \in 1..MaxSize /\ i <= Len(bytes)
  BY <1>1, SizesAssumption
<1>3. ASSUME NEW i \in 1..16 PROVE Received(bytes)[i] = bytes[i]
  BY <1>2 DEF Received
<1>4. Begins(Received(bytes), Marshal(version, type, t))
  BY <1>3 DEF Begins, Carries
<1>5. QED BY <1>4, Marshalled, FieldsKept

-------------------------------------------------------------------------------
LEMMA Least ==
    ASSUME NEW a \in Nat, NEW b \in Nat
    PROVE  Min({a, b}) = IF a <= b THEN a ELSE b
<1>1. \E x \in {a, b} : \A y \in {a, b} : x <= y
  OBVIOUS
<1>2. QED BY <1>1 DEF Min

(* Does the turn for these bytes act on a request? *)
Accepted(bytes) == WellFormed(Received(bytes), Min({Len(bytes), MaxSize}))

LEMMA TypeNumbers ==
    /\ DOMAIN RequestTypes = {"open", "close"}
    /\ RequestTypes["open"] = 0 /\ RequestTypes["close"] = 1
  BY DEF RequestTypes

(* What a turn makes of a datagram that has all of a request. *)
LEMMA WholeAccepted ==
    ASSUME NEW version \in UInt16, NEW type \in UInt16, NEW t \in Tuple, NEW bytes,
           Carries(bytes, version, type, t)
    PROVE  Accepted(bytes) <=> version = 1 /\ type \in {0, 1}
<1> DEFINE buf == Received(bytes)
           len == Min({Len(bytes), MaxSize})
<1>1. Fields(buf, version, type, t)
  BY FieldsReceived
<1>2. len \in Nat /\ len >= 16
  <2>1. Len(bytes) \in Nat /\ Len(bytes) >= 16 /\ MaxSize \in Nat /\ MaxSize >= 16
    BY SizesAssumption DEF Carries
  <2>2. QED BY <2>1, Least
<1> HIDE DEF buf, len
<1>3. WellFormed(buf, len) <=> version = 1 /\ type \in {0, 1}
  BY <1>1, <1>2, TypeNumbers
     DEF WellFormed, Fields, OBDII_DAEMON_REQUEST_HEADER_SIZE, OBDII_API_VERSION
<1>4. QED BY <1>3 DEF Accepted, buf, len

LEMMA WholeUnmarshalled ==
    ASSUME NEW version \in UInt16, NEW name \in DOMAIN RequestTypes, NEW t \in Tuple, NEW bytes,
           RequestTypes[name] \in UInt16, Carries(bytes, version, RequestTypes[name], t)
    PROVE  Unmarshal(Received(bytes)) = [type |-> name, tuple |-> t]
<1> DEFINE buf == Received(bytes)
<1>1. Fields(buf, version, RequestTypes[name], t)
  BY FieldsReceived
<1> HIDE DEF buf
<1>2. asuint16(buf, 3) = RequestTypes[name]
  BY <1>1 DEF Fields
<1>3. (CHOOSE ty \in DOMAIN RequestTypes : RequestTypes[ty] = asuint16(buf, 3)) = name
  BY <1>2, TypeNumbers
<1>4. [ifindex |-> asuint32(buf, 5), tid |-> asuint32(buf, 9), rid |-> asuint32(buf, 13)] = t
  BY <1>1 DEF Fields, Tuple
<1>5. Unmarshal(buf) = [type |-> name, tuple |-> t]
  BY <1>3, <1>4 DEF Unmarshal
<1>6. QED BY <1>5 DEF buf

(* Too short a datagram is not acted on, whatever the buffer holds. *)
LEMMA ShortRefused ==
    ASSUME NEW bytes \in Seq(Int), Len(bytes) < 16
    PROVE  ~ Accepted(bytes)
<1>1. Len(bytes) \in Nat /\ MaxSize \in Nat /\ MaxSize >= 16
  BY SizesAssumption
<1>2. Min({Len(bytes), MaxSize}) = Len(bytes)
  BY <1>1, Least
<1>3. QED BY <1>1, <1>2 DEF Accepted, WellFormed, OBDII_DAEMON_REQUEST_HEADER_SIZE

-------------------------------------------------------------------------------
(* What the daemon is to do with a datagram is what it does. *)
Faithful(d) ==
    /\ d.bytes \in Seq(Int)
    /\ (IF Accepted(d.bytes) THEN {Unmarshal(Received(d.bytes))} ELSE {}) = d.of

(* The bytes of the request r *)
BytesOf(r) == Marshal(OBDII_API_VERSION, RequestTypes[r.type], r.tuple)

LEMMA RequestFacts ==
    ASSUME NEW r \in Request
    PROVE  /\ r.type \in DOMAIN RequestTypes /\ RequestTypes[r.type] \in {0, 1}
           /\ RequestTypes[r.type] \in UInt16 /\ r.tuple \in Tuple
           /\ r = [type |-> r.type, tuple |-> r.tuple]
           /\ OBDII_API_VERSION \in UInt16 /\ OBDII_API_VERSION = 1
           /\ BytesOf(r) \in Seq(Int) /\ Len(BytesOf(r)) = 16
<1>1. r.type \in DOMAIN RequestTypes /\ r.tuple \in Tuples
      /\ r = [type |-> r.type, tuple |-> r.tuple]
  BY DEF Request
<1>2. r.tuple \in Tuple
  BY <1>1, TuplesAssumption DEF Tuple
<1>3. RequestTypes[r.type] \in {0, 1}
  BY <1>1, TypeNumbers
<1>4. {0, 1} \subseteq UInt16 /\ OBDII_API_VERSION = 1
  BY DEF UInt16, OBDII_API_VERSION
<1>5. RequestTypes[r.type] \in UInt16 /\ OBDII_API_VERSION \in UInt16
  BY <1>3, <1>4
<1>6. BytesOf(r) \in Seq(Int) /\ Len(BytesOf(r)) = 16
  BY <1>2, <1>5, Marshalled DEF BytesOf
<1>7. QED BY <1>1, <1>2, <1>3, <1>4, <1>5, <1>6

(* A datagram that begins with the request r of a client. *)
LEMMA FaithfulToRequest ==
    ASSUME NEW r \in Request, NEW d, d.of = {r},
           Carries(d.bytes, OBDII_API_VERSION, RequestTypes[r.type], r.tuple)
    PROVE  Faithful(d)
<1>1. Accepted(d.bytes)
  BY RequestFacts, WholeAccepted
<1>2. Unmarshal(Received(d.bytes)) = r
  BY RequestFacts, WholeUnmarshalled
<1>3. d.bytes \in Seq(Int)
  BY DEF Carries
<1>4. QED BY <1>1, <1>2, <1>3 DEF Faithful

LEMMA FaithfulToClient ==
    ASSUME NEW r \in Request
    PROVE  Faithful(OfClient(r))
<1>1. OfClient(r).bytes = BytesOf(r) /\ OfClient(r).of = {r}
  BY DEF OfClient, BytesOf
<1>2. Carries(BytesOf(r), OBDII_API_VERSION, RequestTypes[r.type], r.tuple)
  BY RequestFacts, CarriesItself DEF BytesOf
<1>3. QED BY <1>1, <1>2, FaithfulToRequest

(* Cut short, or with more bytes after it. *)
LEMMA FaithfulToResized ==
    ASSUME NEW r \in Request, NEW n \in Sizes
    PROVE  Faithful(Resized(OfClient(r), n))
<1> DEFINE d == OfClient(r)
           e == Resized(d, n)
           m == BytesOf(r)
           pad == [i \in 1..(n - Len(m)) |-> 255]
<1>1. m \in Seq(Int) /\ Len(m) = 16 /\ n \in Nat
  BY RequestFacts, SizesAssumption
<1>2. d = [bytes |-> m, of |-> {r}]
  BY DEF OfClient, BytesOf
<1> HIDE DEF d, m
<1>3. e = IF n < Len(m) THEN [bytes |-> SubSeq(m, 1, n), of |-> {}]
          ELSE [bytes |-> m \o pad, of |-> {r}]
  <2>1. d.bytes = m /\ d.of = {r}
    BY <1>2
  <2>2. QED BY <2>1 DEF Resized
<1> HIDE DEF e, pad
<1>4. CASE n < 16
  <2>1. n \in Int /\ \A i \in 1..n : m[i] \in Int
    <3>1. \A i \in 1..n : i \in 1..Len(m)
      BY <1>1, <1>4
    <3>2. \A i \in 1..Len(m) : m[i] \in Int
      BY <1>1, ElementOfSeq
    <3>3. n \in Int
      BY <1>1
    <3>4. QED BY <3>1, <3>2, <3>3
  <2>2. SubSeq(m, 1, n) \in Seq(Int) /\ Len(SubSeq(m, 1, n)) = IF 1 <= n THEN n - 1 + 1 ELSE 0
    BY <1>1, <2>1, SubSeqProperties
  <2>3. Len(SubSeq(m, 1, n)) < 16
    BY <1>1, <1>4, <2>2
  <2>4. e.bytes = SubSeq(m, 1, n) /\ e.of = {}
    BY <1>1, <1>3, <1>4
  <2>5. ~ Accepted(e.bytes)
    BY <2>2, <2>3, <2>4, ShortRefused
  <2>6. Faithful(e)
    BY <2>2, <2>4, <2>5 DEF Faithful
  <2>7. QED BY <2>6 DEF e, d
<1>5. CASE n >= 16
  <2>1. e.bytes = m \o pad /\ e.of = {r}
    BY <1>1, <1>3, <1>5
  <2>2. pad \in Seq(Int)
    <3>1. n - Len(m) \in Nat
      BY <1>1, <1>5
    <3>2. QED BY <3>1 DEF pad
  <2>3. /\ m \o pad \in Seq(Int) /\ Len(m \o pad) = Len(m) + Len(pad)
        /\ \A i \in 1..Len(m) : (m \o pad)[i] = m[i]
    BY <1>1, <2>2, Joined
  <2>4. Len(m \o pad) >= 16
    <3>1. Len(pad) \in Nat
      BY <2>2
    <3>2. QED BY <1>1, <2>3, <3>1
  <2>5. Begins(m \o pad, m)
    BY <1>1, <2>3 DEF Begins
  <2>6. Carries(e.bytes, OBDII_API_VERSION, RequestTypes[r.type], r.tuple)
    BY <2>1, <2>3, <2>4, <2>5 DEF Carries, m, BytesOf
  <2>7. Faithful(e)
    BY <2>1, <2>6, FaithfulToRequest
  <2>8. QED BY <2>7 DEF e, d
<1>6. QED BY <1>1, <1>4, <1>5

(* Of another version, or another type. *)
LEMMA FaithfulToOthers ==
    ASSUME NEW version \in UInt16, NEW type \in UInt16, NEW t \in Tuples,
           version # 1 \/ type \notin {0, 1},
           NEW d, d.bytes = Marshal(version, type, t), d.of = {}
    PROVE  Faithful(d)
<1>1. t \in Tuple
  BY TuplesAssumption DEF Tuple
<1>2. Carries(d.bytes, version, type, t)
  BY <1>1, CarriesItself
<1>3. ~ Accepted(d.bytes)
  BY <1>1, <1>2, WholeAccepted
<1>4. d.bytes \in Seq(Int)
  BY <1>2 DEF Carries
<1>5. QED BY <1>3, <1>4 DEF Faithful

LEMMA AllFaithful == \A d \in ClientDatagrams \cup OtherDatagrams : Faithful(d)
<1> SUFFICES ASSUME NEW d \in ClientDatagrams \cup OtherDatagrams PROVE Faithful(d)
  OBVIOUS
<1>1. CASE d \in ClientDatagrams
  BY <1>1, FaithfulToClient DEF ClientDatagrams
<1>2. ASSUME NEW r \in Request, NEW n \in Sizes, d = Resized(OfClient(r), n) PROVE Faithful(d)
  BY <1>2, FaithfulToResized
<1>3. ASSUME NEW v \in {0, 2, 257}, NEW t \in Tuples, d.bytes = Marshal(v, 0, t), d.of = {}
      PROVE  Faithful(d)
  <2>1. v \in UInt16 /\ v # 1 /\ 0 \in UInt16
    BY DEF UInt16
  <2>2. QED BY <1>3, <2>1, FaithfulToOthers
<1>4. ASSUME NEW type \in {2, 256}, NEW t \in Tuples, d.bytes = Marshal(1, type, t), d.of = {}
      PROVE  Faithful(d)
  <2>1. type \in UInt16 /\ type \notin {0, 1} /\ 1 \in UInt16
    BY DEF UInt16
  <2>2. QED BY <1>4, <2>1, FaithfulToOthers
<1>5. QED BY <1>1, <1>2, <1>3, <1>4 DEF OtherDatagrams, ClientDatagrams

(***************************************************************************)
(* For every tuple of interface and IDs and every sequence of datagrams,   *)
(* the daemon acts on the request that was marshalled and on nothing else, *)
(* never on what earlier requests have left in its buffer.                 *)
(***************************************************************************)
THEOREM ActsTheorem == Spec => []ActsOnWhatWasSent
<1>1. Init => ActsOnWhatWasSent
  BY DEF Init, ActsOnWhatWasSent
<1>2. ASSUME ActsOnWhatWasSent, [Next]_vars PROVE ActsOnWhatWasSent'
  <2>1. ASSUME NEW d \in ClientDatagrams \cup OtherDatagrams, Turn(d) PROVE ActsOnWhatWasSent'
    <3>1. handled' = (IF Accepted(d.bytes) THEN {Unmarshal(Received(d.bytes))} ELSE {})
      BY <2>1 DEF Turn, Accepted
    <3>2. got' = d
      BY <2>1 DEF Turn
    <3>3. QED BY <3>1, <3>2, AllFaithful DEF Faithful, ActsOnWhatWasSent
  <2>2. CASE UNCHANGED vars
    BY <1>2, <2>2 DEF vars, ActsOnWhatWasSent
  <2>3. QED BY <1>2, <2>1, <2>2 DEF Next
<1>3. QED BY <1>1, <1>2, PTL DEF Spec

===============================================================================
