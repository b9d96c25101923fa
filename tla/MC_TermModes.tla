--------------------------- MODULE MC_TermModes ---------------------------
(* Instances of TermModes for TLC: every modelist of up to 9 bytes over a  *)
(* small alphabet, and modelists of two full pairs followed by up to two   *)
(* more bytes, so that the second and third offsets are read.              *)
EXTENDS TermModes
LOCAL SeqExt == INSTANCE SequencesExt

\* 0 ends the list, 160 is reserved, 1 (VINTR) is in the table, 7 is not:
\* TermAttrSetters covers only some of 1..159, so both runs use SevenMissing.
ModeBytes == {0, 1, 7, 160}

\* A full pair: an opcode in 1..159, then four value bytes that would end
\* the loop were they mistaken for an opcode.
FullPairs == {<<o>> \o v : o \in {1, 7}, v \in [1..4 -> {0, 160}]}

MCInputs ==
    SeqExt!BoundedSeq(ModeBytes, 9)
    \cup {p \o q \o t : p, q \in FullPairs, t \in SeqExt!BoundedSeq(ModeBytes, 2)}

SevenMissing == {1}
=============================================================================
