------------------------------ MODULE TermModes ------------------------------
(***************************************************************************)
(* setTerminalAttributes (session_channel_handler.go): the loop that reads *)
(* the pty-req modelist, a byte stream of (uint8 opcode, big-endian uint32 *)
(* value) pairs, and applies each pair to the pty's termios through        *)
(* TermAttrSetters[opcode].  One action per read of the loop body; the     *)
(* ioctls TcGetAttr and Set may fail, and a failure only skips the pair.   *)
(***************************************************************************)
EXTENDS Naturals, Sequences

CONSTANTS
    Inputs,        \* the modelists a client may send (byte sequences)
    KnownOpcodes   \* the opcodes TermAttrSetters has a setter for

Byte == 0..255

ASSUME ModesAssumption ==
    /\ Inputs \subseteq Seq(Byte)
    /\ KnownOpcodes \subseteq 1..159

VARIABLES
    input,    \* the modelist being read
    pos,      \* bytes consumed by the bytes.Reader
    pc,       \* where the loop is: "opcode", "value", "apply", "done", "panicked"
    opcode,   \* the opcode read by this iteration
    value,    \* the value read by this iteration
    tried,    \* the (opcode, value) pairs the loop read in full, in order
    applied   \* the pairs whose Set succeeded, in order

vars == <<input, pos, pc, opcode, value, tried, applied>>

\* binary.Read(reader, binary.BigEndian, &value) for a uint32 at offset i:
\* the value is kept as its four base-256 digits, most significant first
\* (the uint32 itself overflows TLC's integers).
BigEndian32(in, i) == [d \in 1..4 |-> in[i + d]]

Uint32 == [1..4 -> Byte]

Pair == [op : Byte, val : Uint32]

TypeOK ==
    /\ input \in Seq(Byte)
    /\ pos \in 0..Len(input)
    /\ pc \in {"opcode", "value", "apply", "done", "panicked"}
    /\ opcode \in Byte
    /\ value \in Uint32
    /\ tried \in Seq(Pair)
    /\ applied \in Seq(Pair)

Init ==
    /\ input \in Inputs
    /\ pos = 0
    /\ pc = "opcode"
    /\ opcode = 0
    /\ value = [d \in 1..4 |-> 0]
    /\ tried = <<>>
    /\ applied = <<>>

\* Mutant: the reserved range taken to start after 160.
ReadOpcodeReservedAbove160 ==
    /\ pc = "opcode"
    /\ IF pos >= Len(input)
       THEN /\ pc' = "done"
            /\ UNCHANGED <<pos, opcode>>
       ELSE /\ pos' = pos + 1
            /\ opcode' = input[pos + 1]
            /\ pc' = IF opcode' = 0 \/ opcode' > 160 THEN "done" ELSE "value"
    /\ UNCHANGED <<input, value, tried, applied>>

\* binary.Read of the uint8 opcode: EOF ends the loop, and so do opcode 0
\* (TTY_OP_END) and the reserved opcodes >= 160.
ReadOpcode ==
    /\ pc = "opcode"
    /\ IF pos >= Len(input)
       THEN /\ pc' = "done"
            /\ UNCHANGED <<pos, opcode>>
       ELSE /\ pos' = pos + 1
            /\ opcode' = input[pos + 1]
            /\ pc' = IF opcode' = 0 \/ opcode' >= 160 THEN "done" ELSE "value"
    /\ UNCHANGED <<input, value, tried, applied>>

\* Mutant: a short read still moves the reader past 4 bytes.
ReadValueAdvanceFour ==
    /\ pc = "value"
    /\ IF Len(input) - pos < 4
       THEN /\ pc' = "done"
            /\ pos' = pos + 4
            /\ UNCHANGED <<value, tried>>
       ELSE /\ value' = BigEndian32(input, pos)
            /\ pos' = pos + 4
            /\ tried' = Append(tried, [op |-> opcode, val |-> value'])
            /\ pc' = "apply"
    /\ UNCHANGED <<input, opcode, applied>>

\* Mutant: the short-read check off by one, a value of exactly 4 bytes
\* taken as cut.
ReadValueNeedsFive ==
    /\ pc = "value"
    /\ IF Len(input) - pos < 5
       THEN /\ pc' = "done"
            /\ pos' = Len(input)
            /\ UNCHANGED <<value, tried>>
       ELSE /\ value' = BigEndian32(input, pos)
            /\ pos' = pos + 4
            /\ tried' = Append(tried, [op |-> opcode, val |-> value'])
            /\ pc' = "apply"
    /\ UNCHANGED <<input, opcode, applied>>

\* binary.Read of the uint32 value: fewer than 4 bytes left ends the loop.
ReadValue ==
    /\ pc = "value"
    /\ IF Len(input) - pos < 4
       THEN /\ pc' = "done"
            /\ pos' = Len(input)
            /\ UNCHANGED <<value, tried>>
       ELSE /\ value' = BigEndian32(input, pos)
            /\ pos' = pos + 4
            /\ tried' = Append(tried, [op |-> opcode, val |-> value'])
            /\ pc' = "apply"
    /\ UNCHANGED <<input, opcode, applied>>

\* TcGetAttr, then TermAttrSetters[opcode].Set.  A failure of either is
\* logged and the loop continues; the map has no entry for an unknown
\* opcode, and calling Set on the nil setter panics.
ApplyMode ==
    /\ pc = "apply"
    /\ \/ pc' = "opcode" /\ UNCHANGED applied                 \* TcGetAttr failed
       \/ /\ opcode \notin KnownOpcodes
          /\ pc' = "panicked" /\ UNCHANGED applied
       \/ /\ opcode \in KnownOpcodes
          /\ pc' = "opcode"
          /\ \/ applied' = Append(applied, [op |-> opcode, val |-> value])
             \/ UNCHANGED applied                              \* Set failed
    /\ UNCHANGED <<input, pos, opcode, value, tried>>

\* The loop has left: runWithPty goes on to setWindowSize.
Finished == pc \in {"done", "panicked"} /\ UNCHANGED vars

Next == ReadOpcode \/ ReadValue \/ ApplyMode \/ Finished

Spec == Init /\ [][Next]_vars
-----------------------------------------------------------------------------
(***************************************************************************)
(* The reference parser of spec 4.A and invariant 6: stop cleanly at      *)
(* opcode 0, at an opcode >= 160 and on a short read; every other opcode  *)
(* is followed by 4 value bytes, and an unknown one is skipped.           *)
(***************************************************************************)
SpecPairs(in) ==
    LET pairsFrom[i \in 0..Len(in)] ==
          IF i >= Len(in) \/ in[i + 1] = 0 \/ in[i + 1] >= 160
             \/ Len(in) - (i + 1) < 4
          THEN <<>>
          ELSE <<[op |-> in[i + 1], val |-> SubSeq(in, i + 2, i + 5)]>>
                 \o pairsFrom[i + 5]
    IN  pairsFrom[0]

-----------------------------------------------------------------------------
\* Spec invariant 6: when the loop has ended, it has read exactly the pairs
\* of the reference parser, values decoded big-endian, and stopped where the
\* reference stops (an off-by-one at 160 or at the 4-byte read shows here).
ModesReadAsSpecified ==
    pc = "done" => tried = SpecPairs(input)

\* The pair whose opcode byte is at offset i of a modelist.
PairAt(in, i) == [op |-> in[i + 1], val |-> BigEndian32(in, i + 1)]

\* The reference parser reads a pair at offset i: a byte is left, it is an
\* opcode in 1..159, and four value bytes follow it.
PairStartsAt(in, i) ==
    /\ i < Len(in)
    /\ in[i + 1] \in 1..159
    /\ Len(in) - (i + 1) >= 4

\* Spec invariant 6 in closed form, without the recursion of SpecPairs: the
\* j-th pair the loop read is the pair at offset 5 * (j - 1) of the
\* modelist, each of those offsets starts a pair, and a finished loop
\* stopped where no further pair starts (a short read, opcode 0 or an
\* opcode >= 160), so it neither skipped nor invented a pair.
ModesReadAtOffsets ==
    /\ \A j \in 1..Len(tried) :
          /\ PairStartsAt(input, 5 * (j - 1))
          /\ tried[j] = PairAt(input, 5 * (j - 1))
    /\ pc = "done" => ~PairStartsAt(input, 5 * Len(tried))

\* Where the bytes.Reader stands in each phase of the loop body: at the
\* opcode of the next pair, just past an opcode in 1..159, or just past the
\* pair being applied.  ModesReadAtOffsets is inductive with it.
ReaderAligned ==
    /\ pc \in {"opcode", "apply"} => pos = 5 * Len(tried)
    /\ pc = "value" => /\ pos = 5 * Len(tried) + 1
                       /\ opcode = input[pos]
                       /\ opcode \in 1..159

ModesIInv == TypeOK /\ ModesReadAtOffsets /\ ReaderAligned

\* Spec 4.A: unknown opcodes in 1..159 are skipped, not fatal; reading a
\* modelist never panics the daemon.
ModesNoPanic == pc # "panicked"

==============================================================================
