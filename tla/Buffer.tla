------------------------------- MODULE Buffer -------------------------------
(***************************************************************************)
(* Buffer of src/include/Buffer.hpp: an array with a read and a write index, *)
(* a reserve in front of the data, and room made by moving the data or by     *)
(* growing. Positions count from 0; position i is element i + 1 of bytes.     *)
(* The capacity of the vector is its size, which only resize changes.         *)
(***************************************************************************)
EXTENDS Naturals, Sequences

CONSTANTS
    Reserved,       \* headerReservedSize_
    InitialSize,
    Empty           \* what a byte is before it is written

ASSUME SizesAssumption == Reserved \in Nat /\ InitialSize \in Nat \ {0}

NewBuffer == [bytes |-> [i \in 1 .. Reserved + InitialSize |-> Empty],
              reader |-> Reserved, writer |-> Reserved]

VectorSize(b) == Len(b.bytes)
Readable(b)   == b.writer - b.reader
Writeable(b)  == VectorSize(b) - b.writer
Content(b)    == SubSeq(b.bytes, b.reader + 1, b.writer)

Larger(m, n) == IF m > n THEN m ELSE n

\* Grow, unless the gap in front of the data and the room behind it suffice.
MakeSpace(b, len) ==
    IF Writeable(b) + b.reader < len + Reserved
    THEN LET target == Larger(2 * VectorSize(b), b.writer + len) IN
         [b EXCEPT !.bytes = [i \in 1 .. target |->
                                IF i <= VectorSize(b) THEN @[i] ELSE Empty]]
    ELSE [b EXCEPT !.bytes = [i \in DOMAIN @ |->
                                IF i \in Reserved + 1 .. Reserved + Readable(b)
                                THEN @[i + b.reader - Reserved] ELSE @[i]],
                   !.reader = Reserved,
                   !.writer = Reserved + Readable(b)]

EnsureWritable(b, len) == IF Writeable(b) < len THEN MakeSpace(b, len) ELSE b

\* What the caller writes at writeBeginAddr, and hasWritten.
Write(b, data) ==
    [b EXCEPT !.bytes = [i \in DOMAIN @ |->
                            IF i - b.writer \in DOMAIN data THEN data[i - b.writer]
                                                            ELSE @[i]],
              !.writer = @ + Len(data)]

Append_(b, data) == Write(EnsureWritable(b, Len(data)), data)

\* More than there is takes all there is.
Retrieve(b, len) ==
    [b EXCEPT !.reader = IF len <= Readable(b) THEN @ + len ELSE b.writer]

InBounds(b) ==
    Reserved <= b.reader /\ b.reader <= b.writer /\ b.writer <= VectorSize(b)
=============================================================================
