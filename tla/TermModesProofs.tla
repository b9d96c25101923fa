-------------------------- MODULE TermModesProofs --------------------------
(***************************************************************************)
(* Proofs about the modelist reader of setTerminalAttributes: every read   *)
(* stays inside the modelist and every pair read is an opcode byte with    *)
(* four value bytes, whatever the modelist and the setter table; and the  *)
(* pairs read are exactly those at offsets 0, 5, 10, ... up to the first  *)
(* offset where no pair starts (spec invariant 6 in closed form).          *)
(***************************************************************************)
EXTENDS TermModes, SequenceTheorems, TLAPS

\* The digits of a value read at an offset with four bytes left are bytes.
LEMMA BigEndianType ==
  ASSUME NEW in \in Seq(Byte), NEW i \in Nat, i + 4 <= Len(in)
  PROVE  BigEndian32(in, i) \in Uint32
  BY DEF BigEndian32, Uint32

LEMMA InitTypeOK == Init => TypeOK
  <1> SUFFICES ASSUME Init PROVE TypeOK
    OBVIOUS
  <1>1. input \in Seq(Byte)
    BY ModesAssumption DEF Init
  <1>2. QED
    BY <1>1 DEF Init, TypeOK, Uint32, Byte

LEMMA NextTypeOK == TypeOK /\ [Next]_vars => TypeOK'
  <1> SUFFICES ASSUME TypeOK, [Next]_vars PROVE TypeOK'
    OBVIOUS
  <1>1. CASE ReadOpcode
    <2>1. CASE pos >= Len(input)
      BY <1>1, <2>1 DEF ReadOpcode, TypeOK
    <2>2. CASE pos < Len(input)
      <3>1. input[pos + 1] \in Byte
        BY <2>2 DEF TypeOK
      <3>2. QED
        BY <1>1, <2>2, <3>1 DEF ReadOpcode, TypeOK
    <2>3. QED
      BY <2>1, <2>2 DEF TypeOK
  <1>2. CASE ReadValue
    <2>1. CASE Len(input) - pos < 4
      BY <1>2, <2>1 DEF ReadValue, TypeOK
    <2>2. CASE ~(Len(input) - pos < 4)
      <3>1. BigEndian32(input, pos) \in Uint32
        BY <2>2, BigEndianType DEF TypeOK
      <3>2. [op |-> opcode, val |-> BigEndian32(input, pos)] \in Pair
        BY <3>1 DEF TypeOK, Pair
      <3>3. tried' \in Seq(Pair)
        <4>1. tried' = Append(tried, [op |-> opcode, val |-> BigEndian32(input, pos)])
          BY <1>2, <2>2 DEF ReadValue
        <4>2. QED
          BY <3>2, <4>1 DEF TypeOK
      <3>4. pos' \in 0..Len(input')
        BY <1>2, <2>2 DEF ReadValue, TypeOK
      <3>5. QED
        BY <1>2, <2>2, <3>1, <3>3, <3>4 DEF ReadValue, TypeOK
    <2>3. QED
      BY <2>1, <2>2
  <1>3. CASE ApplyMode
    <2>1. [op |-> opcode, val |-> value] \in Pair
      BY DEF TypeOK, Pair
    <2>2. applied' \in Seq(Pair)
      <3>1. CASE applied' = Append(applied, [op |-> opcode, val |-> value])
        BY <2>1, <3>1 DEF TypeOK
      <3>2. CASE UNCHANGED applied
        BY <3>2 DEF TypeOK
      <3>3. QED
        BY <1>3, <3>1, <3>2 DEF ApplyMode
    <2>3. pc' \in {"opcode", "value", "apply", "done", "panicked"}
      BY <1>3 DEF ApplyMode
    <2>4. QED
      BY <1>3, <2>2, <2>3 DEF ApplyMode, TypeOK
  <1>4. CASE Finished \/ UNCHANGED vars
    BY <1>4 DEF Finished, vars, TypeOK
  <1>5. QED
    BY <1>1, <1>2, <1>3, <1>4 DEF Next

\* Type correctness of setTerminalAttributes' loop: the bytes.Reader never
\* reads past the modelist, and every pair read (and handed to
\* TermAttrSetters) is an opcode byte with a four-byte big-endian value,
\* for every modelist and every setter table.
THEOREM ModesTypeCorrect == Spec => []TypeOK
  BY InitTypeOK, NextTypeOK, PTL DEF Spec
-----------------------------------------------------------------------------
(***************************************************************************)
(* The pairs read.  ModesReadAtOffsets alone is not inductive: a step of  *)
(* ReadValue appends the pair at offset 5 * Len(tried) only because the    *)
(* reader stands one byte past that offset and has read an opcode in      *)
(* 1..159 there, which is what ReaderAligned adds.                         *)
(***************************************************************************)

\* A full value read appends the pair at the reader's aligned offset and
\* keeps the earlier pairs.
LEMMA AppendPairAt ==
  ASSUME NEW in \in Seq(Byte), NEW t \in Seq(Pair), NEW k \in Nat,
         k = 5 * Len(t), PairStartsAt(in, k),
         \A j \in 1..Len(t) : PairStartsAt(in, 5 * (j - 1))
                              /\ t[j] = PairAt(in, 5 * (j - 1))
  PROVE  /\ Len(Append(t, PairAt(in, k))) = Len(t) + 1
         /\ \A j \in 1..Len(t) + 1 :
               /\ PairStartsAt(in, 5 * (j - 1))
               /\ Append(t, PairAt(in, k))[j] = PairAt(in, 5 * (j - 1))
  <1>1. PairAt(in, k) \in Pair
    <2>1. BigEndian32(in, k + 1) \in Uint32
      BY BigEndianType DEF PairStartsAt
    <2>2. in[k + 1] \in Byte
      BY DEF PairStartsAt
    <2>3. QED
      BY <2>1, <2>2 DEF PairAt, Pair
  <1>2. /\ Len(Append(t, PairAt(in, k))) = Len(t) + 1
        /\ \A j \in 1..Len(t) : Append(t, PairAt(in, k))[j] = t[j]
        /\ Append(t, PairAt(in, k))[Len(t) + 1] = PairAt(in, k)
    BY <1>1, AppendProperties
  <1>3. Len(t) \in Nat
    BY LenProperties
  <1>4. QED
    BY <1>2, <1>3

LEMMA InitModesIInv == Init => ModesIInv
  <1> SUFFICES ASSUME Init PROVE ModesIInv
    OBVIOUS
  <1>1. TypeOK
    BY InitTypeOK
  <1>2. Len(tried) = 0
    BY DEF Init
  <1>3. ~PairStartsAt(input, 0) \/ pc # "done"
    BY DEF Init
  <1>4. QED
    BY <1>1, <1>2, <1>3 DEF Init, ModesIInv, ModesReadAtOffsets, ReaderAligned

LEMMA NextModesIInv == ModesIInv /\ [Next]_vars => ModesIInv'
  <1> SUFFICES ASSUME ModesIInv, [Next]_vars PROVE ModesIInv'
    OBVIOUS
  <1> DEFINE L == Len(tried)
  <1>0. /\ TypeOK' /\ L \in Nat
    BY NextTypeOK, LenProperties DEF ModesIInv, TypeOK
  <1>1. CASE ReadOpcode
    <2>1. pos = 5 * L /\ UNCHANGED <<input, tried>>
      BY <1>1 DEF ReadOpcode, ModesIInv, ReaderAligned
    <2>2. CASE pos >= Len(input)
      <3>1. pc' = "done" /\ ~PairStartsAt(input, 5 * L)
        BY <1>1, <2>1, <2>2 DEF ReadOpcode, PairStartsAt
      <3>2. QED
        BY <1>0, <2>1, <3>1 DEF ModesIInv, ModesReadAtOffsets, ReaderAligned
    <2>3. CASE pos < Len(input)
      <3>0. /\ pos' = pos + 1 /\ opcode' = input[pos + 1]
            /\ pc' = IF opcode' = 0 \/ opcode' >= 160 THEN "done" ELSE "value"
        <4>1. ~(pos >= Len(input))
          BY <2>3 DEF ModesIInv, TypeOK
        <4>2. QED
          BY <1>1, <4>1 DEF ReadOpcode
      <3>1. pos' = 5 * L + 1 /\ opcode' = input[pos'] /\ input[pos'] \in Byte
        BY <2>1, <2>3, <3>0 DEF ModesIInv, TypeOK
      <3>2. CASE opcode' \in 1..159
        <4>1. ~(opcode' = 0 \/ opcode' >= 160)
          BY <3>2
        <4>2. pc' = "value"
          BY <3>0, <4>1
        <4>3. QED
          BY <1>0, <2>1, <3>1, <3>2, <4>2
             DEF ModesIInv, ModesReadAtOffsets, ReaderAligned, PairStartsAt, PairAt,
                 BigEndian32
      <3>3. CASE opcode' \notin 1..159
        <4>1. opcode' = 0 \/ opcode' >= 160
          <5>1. opcode' \in 0..255
            BY <3>1 DEF Byte
          <5>2. QED
            BY <3>3, <5>1
        <4>2. pc' = "done"
          BY <3>0, <4>1
        <4>3. ~PairStartsAt(input, 5 * L)
          BY <3>1, <3>3 DEF PairStartsAt
        <4>4. QED
          BY <1>0, <2>1, <4>2, <4>3
             DEF ModesIInv, ModesReadAtOffsets, ReaderAligned, PairStartsAt, PairAt,
                 BigEndian32
      <3>4. QED
        BY <3>2, <3>3
    <2>4. QED
      BY <2>2, <2>3 DEF ModesIInv, TypeOK
  <1>2. CASE ReadValue
    <2>1. /\ pos = 5 * L + 1 /\ opcode = input[pos] /\ opcode \in 1..159
          /\ UNCHANGED input
      BY <1>2 DEF ReadValue, ModesIInv, ReaderAligned
    <2>2. CASE Len(input) - pos < 4
      <3>1. pc' = "done" /\ UNCHANGED tried
        BY <1>2, <2>2 DEF ReadValue
      <3>2. ~PairStartsAt(input, 5 * L)
        BY <2>1, <2>2 DEF PairStartsAt
      <3>3. QED
        BY <1>0, <2>1, <3>1, <3>2 DEF ModesIInv, ModesReadAtOffsets, ReaderAligned
    <2>3. CASE ~(Len(input) - pos < 4)
      <3>1. PairStartsAt(input, 5 * L)
        BY <2>1, <2>3 DEF PairStartsAt, ModesIInv, TypeOK
      <3>2. [op |-> opcode, val |-> BigEndian32(input, pos)] = PairAt(input, 5 * L)
        BY <2>1 DEF PairAt
      <3>3. /\ tried' = Append(tried, PairAt(input, 5 * L))
            /\ pos' = pos + 4 /\ pc' = "apply"
        BY <1>2, <2>3, <3>2 DEF ReadValue
      <3>4. /\ Len(tried') = L + 1
            /\ \A j \in 1..L + 1 : /\ PairStartsAt(input, 5 * (j - 1))
                                   /\ tried'[j] = PairAt(input, 5 * (j - 1))
        <4>1. /\ input \in Seq(Byte) /\ tried \in Seq(Pair) /\ 5 * L \in Nat
              /\ \A j \in 1..L : /\ PairStartsAt(input, 5 * (j - 1))
                                /\ tried[j] = PairAt(input, 5 * (j - 1))
          BY <1>0 DEF ModesIInv, ModesReadAtOffsets, TypeOK
        <4>2. QED
          BY <3>1, <3>3, <4>1, AppendPairAt
      <3>5. pos' = 5 * Len(tried')
        BY <1>0, <2>1, <3>3, <3>4
      <3>6. QED
        BY <1>0, <2>1, <3>3, <3>4, <3>5
           DEF ModesIInv, ModesReadAtOffsets, ReaderAligned, PairStartsAt, PairAt,
               BigEndian32
    <2>4. QED
      BY <2>2, <2>3
  <1>3. CASE ApplyMode
    <2>1. /\ pos = 5 * L /\ pc' \in {"opcode", "panicked"}
          /\ UNCHANGED <<input, pos, tried>>
      BY <1>3 DEF ApplyMode, ModesIInv, ReaderAligned
    <2>2. QED
      BY <1>0, <2>1 DEF ModesIInv, ModesReadAtOffsets, ReaderAligned
  <1>4. CASE Finished \/ UNCHANGED vars
    BY <1>0, <1>4 DEF Finished, vars, ModesIInv, ModesReadAtOffsets, ReaderAligned
  <1>5. QED
    BY <1>1, <1>2, <1>3, <1>4 DEF Next

\* Spec invariant 6 for every modelist and every setter table: the loop of
\* setTerminalAttributes hands TermAttrSetters the pairs at offsets 0, 5,
\* 10, ... in order, each an opcode in 1..159 with the four bytes after it
\* decoded big-endian, and once it leaves it has stopped exactly at the
\* first offset holding opcode 0, an opcode >= 160 or a short value.
THEOREM ModesReadCorrect == Spec => []ModesReadAtOffsets
  <1>1. ModesIInv => ModesReadAtOffsets
    BY DEF ModesIInv
  <1>2. QED
    BY InitModesIInv, NextModesIInv, <1>1, PTL DEF Spec
==============================================================================
