------------------------------ MODULE Reverse ------------------------------
(***************************************************************************)
(* ex3/zad1: a file is copied backwards, a byte at a time (with BYTE       *)
(* defined) or a buffer at a time.  No byte is looked at, so a file in     *)
(* which every byte differs, the number of its place, stands for all files *)
(* of its length.                                                          *)
(***************************************************************************)
EXTENDS Integers, Sequences, SequencesExt

CONSTANTS
    BUFFER_SIZE,  \* 1024 in the code
    MaxLength     \* bound: length of the file

Sizes == BUFFER_SIZE \in Nat \ {0} /\ MaxLength \in Nat

VARIABLES
    variant,   \* "byte" or "buffer"
    text,      \* the input file
    step,      \* "begin", "loop"
    pos,       \* the position in the input file
    size,      \* how many bytes are left
    copy       \* the output file

vars == <<variant, text, step, pos, size, copy>>

EOF == 0  \* what getc returns at the end of the file, written as 0xFF

TypeOK ==
    /\ variant \in {"byte", "buffer"}
    /\ text \in Seq(1..MaxLength)
    /\ step \in {"begin", "loop"}
    /\ pos \in 0..Len(text)
    /\ size \in 0..(Len(text) + 1)
    /\ copy \in Seq(0..MaxLength)

Init ==
    /\ variant \in {"byte", "buffer"}
    /\ text \in {[p \in 1..n |-> p] : n \in 0..MaxLength}
    /\ step = "begin" /\ pos = 0 /\ size = 0 /\ copy = <<>>

\* fseek to a place before the beginning fails and moves nothing.
Sought(from, offset) == IF from + offset < 0 THEN pos ELSE from + offset

BeginBytes ==
    /\ variant = "byte" /\ step = "begin"
    /\ step' = "loop"
    /\ pos' = Sought(Len(text), -1)
    /\ size' = pos' + 1
    /\ UNCHANGED <<variant, text, copy>>

\* Fault for the mutants: one step back instead of the two.
BackOne(p) == IF p - 1 < 0 THEN p ELSE p - 1
\* The position after getc, two steps back, or where it is if that fails.
BackTwo(p) == IF p - 2 < 0 THEN p ELSE p - 2

CopyByte ==
    /\ variant = "byte" /\ step = "loop" /\ size > 0
    /\ IF pos < Len(text)
         THEN copy' = Append(copy, text[pos + 1]) /\ pos' = BackTwo(pos + 1)
         ELSE copy' = Append(copy, EOF) /\ pos' = BackTwo(pos)
    /\ size' = size - 1
    /\ UNCHANGED <<variant, text, step>>

BeginBuffers ==
    /\ variant = "buffer" /\ step = "begin"
    /\ step' = "loop"
    /\ pos' = Len(text) /\ size' = Len(text)
    /\ UNCHANGED <<variant, text, copy>>

\* The loop of reverse_buffer exchanges the bytes from the outside in.
reverse_buffer(b) == [k \in 1..Len(b) |-> b[Len(b) + 1 - k]]

CopyBuffer ==
    /\ variant = "buffer" /\ step = "loop" /\ size > 0
    /\ LET to_read == IF size >= BUFFER_SIZE THEN BUFFER_SIZE ELSE size
           from == Sought(pos, -to_read)
           buffer == SubSeq(text, from + 1, from + to_read) IN
       /\ copy' = copy \o reverse_buffer(buffer)
       /\ pos' = from
       /\ size' = size - to_read
    /\ UNCHANGED <<variant, text, step>>

Next == BeginBytes \/ CopyByte \/ BeginBuffers \/ CopyBuffer

Spec == Init /\ [][Next]_vars

-----------------------------------------------------------------------------
(* Properties.                                                             *)

\* What has been written is the end of the file backwards, at every step and
\* for both variants; only the byte variant writes one byte too many for an
\* empty file, whose last byte it cannot seek.
CopyBackwards ==
    step = "loop" =>
      IF text = <<>> /\ variant = "byte"
        THEN <<size, copy>> \in {<<1, <<>>>>, <<0, <<EOF>>>>}
        ELSE copy = Reverse(SubSeq(text, size + 1, Len(text)))
=============================================================================
