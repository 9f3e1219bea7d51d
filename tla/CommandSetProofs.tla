--------------------------- MODULE CommandSetProofs ---------------------------
(***************************************************************************)
(* OBDIIGetSupportedCommands does not write beyond the array it allocates, *)
(* and lists what the vehicle supports, whatever bitfields the vehicle     *)
(* answers with and whichever queries fail.                                *)
(***************************************************************************)
EXTENDS CommandSet, FiniteSetTheorems, TLAPS

(* A set of commands that have different bits is no larger than the bits. *)
LEMMA OneBitEach ==
    ASSUME NEW bits \in SUBSET (0..31), NEW last \in Nat, NEW C,
           \A c \in C : c.pid \in Nat /\ last - c.pid \in bits,
           \A c, d \in C : c.pid = d.pid => c = d
    PROVE  /\ IsFiniteSet(C) /\ IsFiniteSet(bits)
           /\ Cardinality(C) \in Nat /\ Cardinality(bits) \in Nat
           /\ Cardinality(C) <= Cardinality(bits)
<1> DEFINE f == [c \in C |-> last - c.pid]
<1>1. IsFiniteSet(bits)
  <2>1. 0 \in Int /\ 31 \in Int
    OBVIOUS
  <2>2. IsFiniteSet(0..31)
    BY <2>1, FS_Interval
  <2>3. QED BY <2>2, FS_Subset
<1>2. f \in Injection(C, bits)
  <2>1. f \in [C -> bits]
    OBVIOUS
  <2>2. ASSUME NEW c \in C, NEW d \in C, f[c] = f[d] PROVE c = d
    <3>1. c.pid \in Nat /\ d.pid \in Nat /\ last - c.pid = last - d.pid
      BY <2>2
    <3>2. c.pid = d.pid
      BY <3>1
    <3>3. QED BY <3>2
  <2>3. QED BY <2>1, <2>2 DEF Injection, IsInjective
<1>3. IsFiniteSet(C) /\ Cardinality(C) <= Cardinality(bits)
  BY <1>1, <1>2, FS_Injection
<1>4. QED BY <1>1, <1>3, FS_CardinalityType

(* A union is no larger than its parts together. *)
LEMMA UnionBound ==
    ASSUME NEW S, NEW T, IsFiniteSet(S), IsFiniteSet(T)
    PROVE  /\ IsFiniteSet(S \cup T)
           /\ Cardinality(S) \in Nat /\ Cardinality(T) \in Nat
           /\ Cardinality(S \cup T) \in Nat
           /\ Cardinality(S \cup T) <= Cardinality(S) + Cardinality(T)
<1>1. IsFiniteSet(S \cup T) /\ IsFiniteSet(S \cap T)
  BY FS_Union, FS_Subset
<1>2. /\ Cardinality(S) \in Nat /\ Cardinality(T) \in Nat
      /\ Cardinality(S \cap T) \in Nat /\ Cardinality(S \cup T) \in Nat
  BY <1>1, FS_CardinalityType
<1>3. Cardinality(S \cup T) = Cardinality(S) + Cardinality(T) - Cardinality(S \cap T)
  BY FS_Union
<1>4. QED BY <1>1, <1>2, <1>3

(* The array has a slot for each command that the loops write. *)
LEMMA FillFits ==
    ASSUME TypeOK
    PROVE  LET filled == {c \in OBDIIMode1Commands : Contains(c)} \cup {OBDIIMode3Command}
                         \cup {c \in OBDIIMode9Commands : Contains(c)}
           IN Count \in Nat /\ Cardinality(filled) <= Count
<1> DEFINE A(last) == {c \in OBDIIMode1Commands :
                         c.pid \in (last - 31)..last /\ last - c.pid \in mode1[last]}
           B == {c \in OBDIIMode9Commands : c.pid # 0 /\ 32 - c.pid \in mode9}
           one == {[mode |-> 1, pid |-> 0]}
           nine == {[mode |-> 9, pid |-> 0]}
           three == {OBDIIMode3Command}
           b(last) == Cardinality(mode1[last])
           b9 == Cardinality(mode9)
<1>1. ASSUME NEW last \in {32, 64, 96, 128}
      PROVE  /\ IsFiniteSet(A(last)) /\ b(last) \in Nat /\ Cardinality(A(last)) <= b(last)
  <2>1. mode1[last] \in SUBSET (0..31) /\ last \in Nat
    BY DEF TypeOK
  <2>2. \A c \in A(last) : c.pid \in Nat /\ last - c.pid \in mode1[last]
    BY DEF OBDIIMode1Commands
  <2>3. \A c, d \in A(last) : c.pid = d.pid => c = d
    BY DEF OBDIIMode1Commands
  <2> HIDE DEF A
  <2>4. QED BY <2>1, <2>2, <2>3, OneBitEach
<1>2. IsFiniteSet(B) /\ b9 \in Nat /\ Cardinality(B) <= b9
  <2>1. mode9 \in SUBSET (0..31)
    BY DEF TypeOK
  <2>2. \A c \in B : c.pid \in Nat /\ 32 - c.pid \in mode9
    BY DEF OBDIIMode9Commands
  <2>3. \A c, d \in B : c.pid = d.pid => c = d
    BY DEF OBDIIMode9Commands
  <2> HIDE DEF B
  <2>4. QED BY <2>1, <2>2, <2>3, OneBitEach
<1>3. /\ IsFiniteSet(one) /\ Cardinality(one) <= 1
      /\ IsFiniteSet(nine) /\ Cardinality(nine) <= 1
      /\ IsFiniteSet(three) /\ Cardinality(three) <= 1
  <2>1. ASSUME NEW x PROVE IsFiniteSet({x}) /\ Cardinality({x}) = 1
    BY FS_Singleton
  <2>2. \A x : IsFiniteSet({x}) /\ Cardinality({x}) <= 1
    BY <2>1
  <2>3. QED BY <2>2
<1>4. {c \in OBDIIMode1Commands : Contains(c)}
         \subseteq (one \cup A(32)) \cup ((A(64) \cup A(96)) \cup A(128))
  BY DEF Contains, OBDIIMode1Commands
<1>5. {c \in OBDIIMode9Commands : Contains(c)} \subseteq nine \cup B
  BY DEF Contains, OBDIIMode9Commands
<1> DEFINE filled == {c \in OBDIIMode1Commands : Contains(c)} \cup {OBDIIMode3Command}
                     \cup {c \in OBDIIMode9Commands : Contains(c)}
           all == (((one \cup A(32)) \cup ((A(64) \cup A(96)) \cup A(128))) \cup three)
                  \cup (nine \cup B)
<1>6. filled \subseteq all
  BY <1>4, <1>5
<1>7. Count = b(32) + b(64) + b(96) + b(128) + b9 + 2 + 1
  BY DEF Count, BitsSet
<1>a. /\ b(32) \in Nat /\ b(64) \in Nat /\ b(96) \in Nat /\ b(128) \in Nat /\ b9 \in Nat
  BY <1>1, <1>2
<1> HIDE DEF A, B, one, nine, three, b, b9
<1> DEFINE lo == one \cup A(32)
           mid == A(64) \cup A(96)
           hi == mid \cup A(128)
           m1 == lo \cup hi
           m13 == m1 \cup three
           m9 == nine \cup B
           n(S) == Cardinality(S)
<1>c. /\ IsFiniteSet(A(32)) /\ IsFiniteSet(A(64)) /\ IsFiniteSet(A(96))
      /\ IsFiniteSet(A(128)) /\ n(A(32)) <= b(32) /\ n(A(64)) <= b(64)
      /\ n(A(96)) <= b(96) /\ n(A(128)) <= b(128)
  BY <1>1
<1>8. IsFiniteSet(lo) /\ n(one) \in Nat /\ n(A(32)) \in Nat /\ n(lo) <= n(one) + n(A(32))
  BY <1>3, <1>c, UnionBound
<1>9. /\ IsFiniteSet(mid) /\ n(A(64)) \in Nat /\ n(A(96)) \in Nat
      /\ n(mid) <= n(A(64)) + n(A(96))
  BY <1>c, UnionBound
<1> HIDE DEF lo, mid
<1>10. /\ IsFiniteSet(hi) /\ n(mid) \in Nat /\ n(A(128)) \in Nat
       /\ n(hi) <= n(mid) + n(A(128))
  BY <1>9, <1>c, UnionBound
<1> HIDE DEF hi
<1>11. IsFiniteSet(m1) /\ n(lo) \in Nat /\ n(hi) \in Nat /\ n(m1) <= n(lo) + n(hi)
  BY <1>8, <1>10, UnionBound
<1>12. IsFiniteSet(m9) /\ n(nine) \in Nat /\ n(B) \in Nat /\ n(m9) <= n(nine) + n(B)
  BY <1>2, <1>3, UnionBound
<1> HIDE DEF m1, m9
<1>13. IsFiniteSet(m13) /\ n(m1) \in Nat /\ n(three) \in Nat /\ n(m13) <= n(m1) + n(three)
  BY <1>3, <1>11, UnionBound
<1> HIDE DEF m13
<1>14. /\ IsFiniteSet(m13 \cup m9) /\ n(m13) \in Nat /\ n(m9) \in Nat
       /\ n(m13 \cup m9) \in Nat /\ n(m13 \cup m9) <= n(m13) + n(m9)
  BY <1>12, <1>13, UnionBound
<1>15. IsFiniteSet(all) /\ Cardinality(all) <= Count /\ Count \in Nat
  <2>1. all = m13 \cup m9
    BY DEF m13, m9, m1, lo, hi, mid
  <2>2. Count \in Nat
    BY <1>7, <1>a
  <2>3. n(m13) <= b(32) + b(64) + b(96) + b(128) + 1 + 1
    BY <1>a, <1>3, <1>c, <1>8, <1>9, <1>10, <1>11, <1>13, <1>14
  <2>4. n(m9) <= b9 + 1
    BY <1>2, <1>3, <1>12, <1>14
  <2>5. n(m13 \cup m9) <= Count
    BY <1>7, <1>a, <1>14, <2>3, <2>4
  <2> HIDE DEF all
  <2>6. QED BY <1>14, <2>1, <2>2, <2>5
<1>16. Cardinality(filled) <= Count
  <2>1. Cardinality(filled) <= Cardinality(all) /\ Cardinality(filled) \in Nat
    <3> HIDE DEF filled, all
    <3>1. QED BY <1>6, <1>15, FS_Subset, FS_CardinalityType
  <2>2. Cardinality(all) \in Nat
    BY <1>15, FS_CardinalityType
  <2>3. QED BY <1>15, <2>1, <2>2
<1>17. QED BY <1>15, <1>16

(* The types, and the bound, are inductive. *)
LEMMA CommandSetInductive ==
    /\ Init => TypeOK /\ NeverOverflows
    /\ TypeOK /\ NeverOverflows /\ [Next]_vars => TypeOK' /\ NeverOverflows'
<1>1. Init => TypeOK /\ NeverOverflows
  BY FS_EmptySet DEF Init, TypeOK, NeverOverflows, Queries
<1>2. ASSUME TypeOK, NeverOverflows, [Next]_vars PROVE TypeOK' /\ NeverOverflows'
  <2>1. CASE Fill
    <3>1. numCommands' \in Nat /\ Cardinality(commands') <= numCommands'
      BY <1>2, <2>1, FillFits DEF Fill
    <3>2. commands' \subseteq OBDIIMode1Commands \cup {OBDIIMode3Command} \cup OBDIIMode9Commands
      BY <2>1 DEF Fill
    <3>3. QED BY <1>2, <2>1, <3>1, <3>2 DEF Fill, TypeOK, NeverOverflows
  <2>2. ASSUME NEW bits \in Bitfields \cup {{}},
               \/ Query1To20(bits) \/ Query21To40(bits)
               \/ Query41To60(bits) \/ QueryMode9(bits)
        PROVE  TypeOK' /\ NeverOverflows'
    <3>1. bits \in SUBSET (0..31)
      BY BitfieldsAssumption
    <3>2. UNCHANGED <<vehicle, numCommands, commands>> /\ failed' \subseteq Queries
      BY <1>2, <2>2 DEF Query1To20, Query21To40, Query41To60, QueryMode9, PerformQuery,
         TypeOK, Queries
    <3>3. pc' \in Queries \cup {"fill", "done"}
      BY <2>2 DEF Query1To20, Query21To40, Query41To60, QueryMode9, NextQuery, Queries
    <3>4. /\ mode1' \in [{32, 64, 96, 128} -> SUBSET (0..31)]
          /\ mode9' \in SUBSET (0..31)
      <4>1. mode1 \in [{32, 64, 96, 128} -> SUBSET (0..31)] /\ mode9 \in SUBSET (0..31)
        BY <1>2 DEF TypeOK
      <4>2. CASE Query1To20(bits)
        BY <3>1, <4>1, <4>2 DEF Query1To20
      <4>3. CASE Query21To40(bits)
        BY <3>1, <4>1, <4>3 DEF Query21To40
      <4>4. CASE Query41To60(bits)
        <5>1. bits \cap (18..31) \in SUBSET (0..31)
          BY <3>1
        <5>2. QED BY <4>1, <4>4, <5>1 DEF Query41To60
      <4>5. CASE QueryMode9(bits)
        BY <3>1, <4>1, <4>5 DEF QueryMode9
      <4>6. QED BY <2>2, <4>2, <4>3, <4>4, <4>5
    <3>5. QED BY <1>2, <3>2, <3>3, <3>4 DEF TypeOK, NeverOverflows
  <2>3. CASE MallocFails \/ Returned \/ UNCHANGED vars
    BY <1>2, <2>3 DEF MallocFails, Returned, vars, TypeOK, NeverOverflows
  <2>4. QED BY <1>2, <2>1, <2>2, <2>3 DEF Next
<1>3. QED BY <1>1, <1>2

(***************************************************************************)
(* The array of a command set is never written beyond its end.             *)
(***************************************************************************)
THEOREM ArrayTheorem == Spec => []NeverOverflows
<1>1. TypeOK /\ NeverOverflows => NeverOverflows
  OBVIOUS
<1>2. QED BY CommandSetInductive, <1>1, PTL DEF Spec

-------------------------------------------------------------------------------
(* What a query has returned: zeros if it has failed. *)
Returns(q) == IF q \in failed THEN {} ELSE vehicle[q]

(* The queries that may have been made before the one that is next. *)
Before(next) ==
    CASE next = "1_to_20"  -> {}
      [] next = "21_to_40" -> {"1_to_20"}
      [] next = "41_to_60" -> {"1_to_20", "21_to_40"}
      [] next = "mode9"    -> {"1_to_20", "21_to_40", "41_to_60"}
      [] OTHER             -> Queries

(* What the loops over the tables put into the array. *)
Filled ==
    {c \in OBDIIMode1Commands : Contains(c)} \cup {OBDIIMode3Command}
        \cup {c \in OBDIIMode9Commands : Contains(c)}

(* A range was queried if the last PID of the range before is supported. *)
BitsInv ==
    /\ failed \subseteq Before(pc)
    /\ mode1[128] = {}
    /\ pc # "1_to_20" => mode1[32] = Returns("1_to_20")
    /\ pc \in {"21_to_40", "41_to_60"} => 0 \in mode1[32]
    /\ pc \in {"1_to_20", "21_to_40"} => mode1[64] = {}
    /\ pc \notin {"1_to_20", "21_to_40"} =>
          mode1[64] = IF 0 \in mode1[32] THEN Returns("21_to_40") ELSE {}
    /\ pc = "41_to_60" => 0 \in mode1[64]
    /\ pc \in {"1_to_20", "21_to_40", "41_to_60"} => mode1[96] = {}
    /\ pc \notin {"1_to_20", "21_to_40", "41_to_60"} =>
          mode1[96] = IF 0 \in mode1[64] THEN Returns("41_to_60") \cap (18..31) ELSE {}
    /\ pc \in {"fill", "done"} => mode9 = Returns("mode9") \cap (29..31)
    /\ commands # {} => pc = "done" /\ commands = Filled

LEMMA BitsInit == Init => BitsInv
  BY DEF Init, BitsInv, Before

LEMMA BitsStep == TypeOK /\ BitsInv /\ [Next]_vars => BitsInv'
<1> SUFFICES ASSUME TypeOK, BitsInv, [Next]_vars PROVE BitsInv'
  OBVIOUS
<1>0. mode1 \in [{32, 64, 96, 128} -> SUBSET (0..31)]
  BY DEF TypeOK
<1>1. ASSUME NEW bits, Query1To20(bits) PROVE BitsInv'
  <2>1. /\ pc = "1_to_20" /\ mode1' = [mode1 EXCEPT ![32] = bits]
        /\ pc' = IF 0 \in bits THEN "21_to_40" ELSE "mode9"
        /\ UNCHANGED <<vehicle, commands, mode9>> /\ failed' \subseteq {"1_to_20"}
        /\ bits = Returns("1_to_20")'
    BY <1>1 DEF Query1To20, PerformQuery, NextQuery, BitsInv, Before, Returns
  <2>2. /\ mode1'[32] = bits /\ mode1'[64] = {} /\ mode1'[96] = {} /\ mode1'[128] = {}
        /\ commands' = {}
    BY <1>0, <2>1 DEF BitsInv
  <2>3. failed' \subseteq Before(pc')
    BY <2>1 DEF Before
  <2>4. QED BY <2>1, <2>2, <2>3 DEF BitsInv
<1>2. ASSUME NEW bits, Query21To40(bits) PROVE BitsInv'
  <2>1. /\ pc = "21_to_40" /\ mode1' = [mode1 EXCEPT ![64] = bits]
        /\ pc' = IF 0 \in bits THEN "41_to_60" ELSE "mode9"
        /\ UNCHANGED <<vehicle, commands, mode9>> /\ failed' \subseteq {"1_to_20", "21_to_40"}
        /\ bits = Returns("21_to_40")'
        /\ Returns("1_to_20")' = Returns("1_to_20")
    BY <1>2 DEF Query21To40, PerformQuery, NextQuery, BitsInv, Before, Returns
  <2>2. /\ mode1'[32] = mode1[32] /\ mode1'[64] = bits /\ mode1'[96] = {} /\ mode1'[128] = {}
        /\ commands' = {} /\ 0 \in mode1[32] /\ mode1[32] = Returns("1_to_20")
    BY <1>0, <2>1 DEF BitsInv
  <2>3. failed' \subseteq Before(pc')
    BY <2>1 DEF Before
  <2>4. QED BY <2>1, <2>2, <2>3 DEF BitsInv
<1>3. ASSUME NEW bits, Query41To60(bits) PROVE BitsInv'
  <2>1. /\ pc = "41_to_60" /\ mode1' = [mode1 EXCEPT ![96] = bits \cap (18..31)]
        /\ pc' = "mode9"
        /\ UNCHANGED <<vehicle, commands, mode9>>
        /\ failed' \subseteq {"1_to_20", "21_to_40", "41_to_60"}
        /\ bits = Returns("41_to_60")'
        /\ Returns("1_to_20")' = Returns("1_to_20")
        /\ Returns("21_to_40")' = Returns("21_to_40")
    BY <1>3 DEF Query41To60, PerformQuery, BitsInv, Before, Returns
  <2>2. /\ mode1'[32] = mode1[32] /\ mode1'[64] = mode1[64]
        /\ mode1'[96] = bits \cap (18..31) /\ mode1'[128] = {}
        /\ commands' = {} /\ 0 \in mode1[32] /\ 0 \in mode1[64]
        /\ mode1[32] = Returns("1_to_20") /\ mode1[64] = Returns("21_to_40")
    BY <1>0, <2>1 DEF BitsInv
  <2>3. failed' \subseteq Before(pc')
    BY <2>1 DEF Before
  <2>4. QED BY <2>1, <2>2, <2>3 DEF BitsInv
<1>4. ASSUME NEW bits, QueryMode9(bits) PROVE BitsInv'
  <2>1. /\ pc = "mode9" /\ mode9' = bits \cap (29..31) /\ pc' = "fill"
        /\ UNCHANGED <<vehicle, commands, mode1>>
        /\ failed' \subseteq Queries
        /\ bits = Returns("mode9")'
        /\ Returns("1_to_20")' = Returns("1_to_20")
        /\ Returns("21_to_40")' = Returns("21_to_40")
        /\ Returns("41_to_60")' = Returns("41_to_60")
    BY <1>4 DEF QueryMode9, PerformQuery, BitsInv, Before, Returns, Queries
  <2>2. commands' = {}
    BY <2>1 DEF BitsInv
  <2>3. failed' \subseteq Before(pc')
    BY <2>1 DEF Before
  <2>4. QED BY <2>1, <2>2, <2>3 DEF BitsInv
<1>5. CASE Fill
  <2>1. pc = "fill" /\ pc' = "done" /\ UNCHANGED <<vehicle, failed, mode1, mode9>>
        /\ commands' = Filled
    BY <1>5 DEF Fill, Filled
  <2>2. commands' = Filled'
    BY <2>1 DEF Filled, Contains
  <2>3. Before(pc') = Before(pc)
    BY <2>1 DEF Before
  <2>4. QED BY <2>1, <2>2, <2>3 DEF BitsInv, Returns
<1>6. CASE MallocFails
  <2>1. pc = "fill" /\ pc' = "done" /\ UNCHANGED <<vehicle, failed, mode1, mode9, commands>>
    BY <1>6 DEF MallocFails
  <2>2. Before(pc') = Before(pc) /\ commands' = {}
    BY <2>1 DEF Before, BitsInv
  <2>3. QED BY <2>1, <2>2 DEF BitsInv, Returns
<1>7. CASE Returned \/ UNCHANGED vars
  BY <1>7 DEF Returned, vars, BitsInv, Returns, Filled, Contains, Before
<1>8. QED BY <1>1, <1>2, <1>3, <1>4, <1>5, <1>6, <1>7 DEF Next

(* The array has the commands whose bits were set. *)
LEMMA InTheArray ==
    ASSUME TypeOK, BitsInv, commands # {}
    PROVE  /\ \A p \in 0..78 : [mode |-> 1, pid |-> p] \in commands <=>
                 \/ p = 0
                 \/ p \in 1..32 /\ 32 - p \in mode1[32]
                 \/ p \in 33..64 /\ 64 - p \in mode1[64]
                 \/ p \in 65..78 /\ 96 - p \in mode1[96]
           /\ \A p \in 0..2 : [mode |-> 9, pid |-> p] \in commands <=>
                 p = 0 \/ 32 - p \in mode9
<1>1. commands = Filled /\ mode1[128] = {}
  BY DEF BitsInv
<1>2. ASSUME NEW p \in 0..78
      PROVE  [mode |-> 1, pid |-> p] \in commands <=>
                 \/ p = 0
                 \/ p \in 1..32 /\ 32 - p \in mode1[32]
                 \/ p \in 33..64 /\ 64 - p \in mode1[64]
                 \/ p \in 65..78 /\ 96 - p \in mode1[96]
  <2> DEFINE c == [mode |-> 1, pid |-> p]
  <2>1. c \in OBDIIMode1Commands /\ c # OBDIIMode3Command /\ c \notin OBDIIMode9Commands
        /\ c.mode = 1 /\ c.pid = p
    BY DEF OBDIIMode1Commands, OBDIIMode3Command, OBDIIMode9Commands
  <2> HIDE DEF c
  <2>2. c \in commands <=> Contains(c)
    BY <1>1, <2>1 DEF Filled
  <2>3. Contains(c) <=> \/ p = 0
                        \/ p \in 1..32 /\ 32 - p \in mode1[32]
                        \/ p \in 33..64 /\ 64 - p \in mode1[64]
                        \/ p \in 65..96 /\ 96 - p \in mode1[96]
                        \/ p \in 97..128 /\ 128 - p \in mode1[128]
    BY <2>1 DEF Contains
  <2>4. QED BY <1>1, <2>2, <2>3 DEF c
<1>3. ASSUME NEW p \in 0..2
      PROVE  [mode |-> 9, pid |-> p] \in commands <=> p = 0 \/ 32 - p \in mode9
  <2> DEFINE c == [mode |-> 9, pid |-> p]
  <2>1. c \notin OBDIIMode1Commands /\ c # OBDIIMode3Command /\ c \in OBDIIMode9Commands
        /\ c.mode = 9 /\ c.pid = p
    BY DEF OBDIIMode1Commands, OBDIIMode3Command, OBDIIMode9Commands
  <2> HIDE DEF c
  <2>2. c \in commands <=> Contains(c)
    BY <1>1, <2>1 DEF Filled
  <2>3. QED BY <2>1, <2>2 DEF Contains, c
<1>4. QED BY <1>2, <1>3

(* The number of the bit of a PID in its range. *)
LEMMA BitOf ==
    ASSUME NEW p \in 1..96
    PROVE  31 - ((p - 1) % 32) = IF p <= 32 THEN 32 - p ELSE IF p <= 64 THEN 64 - p ELSE 96 - p
<1>1. p \in 1..32 \/ p \in 33..64 \/ p \in 65..96
  OBVIOUS
<1>2. QED BY <1>1

(***************************************************************************)
(* The command set has a command of the tables exactly if the vehicle has  *)
(* said that it supports it, or its PID is 0: no bit is mistaken for its   *)
(* neighbour, none is lost at the end of a range, and a query that fails   *)
(* takes away its own range and those it leads to.                         *)
(***************************************************************************)
THEOREM ListTheorem == Spec => []ListsWhatTheVehicleSupports
<1>1. TypeOK /\ BitsInv => ListsWhatTheVehicleSupports
  <2> SUFFICES ASSUME TypeOK, BitsInv, commands # {},
                      NEW c \in OBDIIMode1Commands \cup OBDIIMode9Commands
               PROVE  c \in commands <=>
                         \/ c.pid = 0
                         \/ /\ Known(RangeOf(c))
                            /\ 31 - ((c.pid - 1) % 32) \in vehicle[RangeOf(c)]
    BY DEF ListsWhatTheVehicleSupports
  <2>1. /\ mode1[32] = Returns("1_to_20")
        /\ mode1[64] = IF 0 \in mode1[32] THEN Returns("21_to_40") ELSE {}
        /\ mode1[96] = IF 0 \in mode1[64] THEN Returns("41_to_60") \cap (18..31) ELSE {}
        /\ mode9 = Returns("mode9") \cap (29..31)
    BY DEF BitsInv
  <2>2. /\ [mode |-> 1, pid |-> 32] \in commands <=> 0 \in mode1[32]
        /\ [mode |-> 1, pid |-> 64] \in commands <=> 0 \in mode1[64]
    BY InTheArray
  <2>3. ASSUME NEW p \in 0..78, c = [mode |-> 1, pid |-> p]
        PROVE  c \in commands <=>
                  \/ p = 0
                  \/ Known(RangeOf(c)) /\ 31 - ((p - 1) % 32) \in vehicle[RangeOf(c)]
    <3>1. c \in commands <=>
                 \/ p = 0
                 \/ p \in 1..32 /\ 32 - p \in mode1[32]
                 \/ p \in 33..64 /\ 64 - p \in mode1[64]
                 \/ p \in 65..78 /\ 96 - p \in mode1[96]
      BY <2>3, InTheArray
    <3>2. CASE p = 0
      BY <3>1, <3>2
    <3>3. CASE p \in 1..32
      <4>1. RangeOf(c) = "1_to_20" /\ 31 - ((p - 1) % 32) = 32 - p
        BY <2>3, <3>3, BitOf DEF RangeOf
      <4>2. c \in commands <=> 32 - p \in mode1[32]
        BY <3>1, <3>3
      <4>3. QED BY <2>1, <3>3, <4>1, <4>2 DEF Known, Returns
    <3>4. CASE p \in 33..64
      <4>1. RangeOf(c) = "21_to_40" /\ 31 - ((p - 1) % 32) = 64 - p
        BY <2>3, <3>4, BitOf DEF RangeOf
      <4>2. c \in commands <=> 64 - p \in mode1[64]
        BY <3>1, <3>4
      <4>3. QED BY <2>1, <2>2, <3>4, <4>1, <4>2 DEF Known, Returns
    <3>5. CASE p \in 65..78
      <4>1. RangeOf(c) = "41_to_60" /\ 31 - ((p - 1) % 32) = 96 - p /\ 96 - p \in 18..31
        BY <2>3, <3>5, BitOf DEF RangeOf
      <4>2. c \in commands <=> 96 - p \in mode1[96]
        BY <3>1, <3>5
      <4>3. 0 \in mode1[64] => 0 \in mode1[32]
        BY <2>1
      <4>4. QED BY <2>1, <2>2, <3>5, <4>1, <4>2, <4>3 DEF Known, Returns
    <3>6. QED BY <3>2, <3>3, <3>4, <3>5
  <2>4. ASSUME NEW p \in 0..2, c = [mode |-> 9, pid |-> p]
        PROVE  c \in commands <=>
                  \/ p = 0
                  \/ Known(RangeOf(c)) /\ 31 - ((p - 1) % 32) \in vehicle[RangeOf(c)]
    <3>1. c \in commands <=> p = 0 \/ 32 - p \in mode9
      BY <2>4, InTheArray
    <3>2. RangeOf(c) = "mode9" /\ (p # 0 => 31 - ((p - 1) % 32) = 32 - p /\ 32 - p \in 29..31)
      BY <2>4, BitOf DEF RangeOf
    <3>3. QED BY <2>1, <3>1, <3>2 DEF Known, Returns
  <2>5. QED BY <2>3, <2>4 DEF OBDIIMode1Commands, OBDIIMode9Commands
<1>2. TypeOK /\ NeverOverflows /\ BitsInv /\ [Next]_vars => (TypeOK /\ NeverOverflows /\ BitsInv)'
  BY CommandSetInductive, BitsStep
<1>3. Init => TypeOK /\ NeverOverflows /\ BitsInv
  BY CommandSetInductive, BitsInit
<1>4. QED BY <1>1, <1>2, <1>3, PTL DEF Spec
===============================================================================
