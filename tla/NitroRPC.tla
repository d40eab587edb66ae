------------------------------ MODULE NitroRPC ------------------------------
(***************************************************************************)
(* The wire format of NitroRPC.hpp and the way its loops consume a TCP     *)
(* stream.  A stream is the sequence of bytes that one side has sent and   *)
(* the other has not read; a byte is a pair <<value of its word, place in  *)
(* the word>>, so that bytes of different words cannot pass for one.       *)
(***************************************************************************)
EXTENDS Naturals, Sequences, SequencesExt

CONSTANT WordSize   \* sizeof(int) and sizeof(float), 4 bytes

ASSUME WordAssumption == WordSize \in Nat \ {0}

Word(v) == [k \in 1 .. WordSize |-> <<v, k>>]

Words(vs) == FlattenSeq([i \in DOMAIN vs |-> Word(vs[i])])

(* What the bytes of whole words spell.                                    *)
Ints(bytes) ==
    [i \in 1 .. Len(bytes) \div WordSize |-> bytes[WordSize * (i - 1) + 1][1]]

(* How many bytes one recv that asks for n may return: the stream does not *)
(* keep message boundaries.                                                *)
RecvSizes(stream, n) == 1 .. (IF Len(stream) < n THEN Len(stream) ELSE n)

(* Mutant of Whole: one recv is taken for the whole buffer.                *)
WholeAtOnce(got, n) == got # <<>>

(* recv_all has filled its buffer of n bytes.                              *)
Whole(got, n) == Len(got) = n

(* Mutant of Broken: recv returning 0 is not taken for the end.            *)
BrokenNever(stream, gone) == FALSE

(* recv returns 0 or an error: recv_all gives up.                          *)
Broken(stream, gone) == stream = <<>> /\ gone
=============================================================================
