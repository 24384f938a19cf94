------------------------------ MODULE Chunking ------------------------------
(***************************************************************************)
(* How core/src/chunking.cpp cuts a file into chunks and puts it together  *)
(* again.  A file is the sequence of its bytes; byte number p of the       *)
(* specification (counted from 1) is the byte at offset p - 1 of the code. *)
(***************************************************************************)
EXTENDS Integers, Sequences

CONSTANTS
    Byte,        \* the values a byte can take
    ChunkSize,   \* kChunkSize: the number of bytes of a full chunk
    IndexMod     \* the number of values of a uint32_t chunk index

ASSUME ChunkingAssumption ==
    /\ {0, 1, 2} \subseteq Byte
    /\ ChunkSize \in Nat \ {0}
    /\ IndexMod \in Nat \ {0}

File == Seq(Byte)
-----------------------------------------------------------------------------
(* The sending side.                                                       *)

\* Mutants of TotalChunks: the last, short chunk is forgotten; one chunk too
\* many where the size is a multiple of the chunk size.
TotalChunksRoundedDown(size) == (size \div ChunkSize) % IndexMod
TotalChunksOneMore(size) == (size \div ChunkSize + 1) % IndexMod

\* FileOfferPayload.total_chunks: the quotient is narrowed to 32 bits.
TotalChunks(size) ==
    IF size = 0 THEN 0 ELSE ((size + ChunkSize - 1) \div ChunkSize) % IndexMod

\* What f.read of n bytes at position pos returns: less than n bytes only
\* where the file ends.
Slice(f, pos, n) == SubSeq(f, pos + 1, IF pos + n < Len(f) THEN pos + n ELSE Len(f))
-----------------------------------------------------------------------------
(* The receiving side.                                                     *)

\* Mutant of ChunkOffset: the product is cut to the width of the index.
ChunkOffsetNarrow(index) == (index * ChunkSize) % IndexMod

\* chunk_index * kChunkSize, computed in 64 bits and so never wrapped.
ChunkOffset(index) == index * ChunkSize

\* f.write of data at an offset: what lies before and after stays, and a gap
\* beyond the old end reads as zeros.
Overwrite(f, offset, data) ==
    LET end == IF data = <<>> THEN 0 ELSE offset + Len(data)
    IN  [p \in 1 .. (IF end > Len(f) THEN end ELSE Len(f)) |->
            IF p - offset \in 1 .. Len(data) THEN data[p - offset]
            ELSE IF p <= Len(f) THEN f[p]
            ELSE 0]

\* What ios::trunc leaves of the file the path held before.
Truncate(old) == <<>>

\* Mutant of NewOutput: the output is opened without ios::trunc.
NewOutputKept(old, size) == IF size > 0 THEN Overwrite(old, size - 1, <<0>>) ELSE old

\* The FileReceiver constructor: truncate, seek to size - 1, put one zero byte.
NewOutput(old, size) ==
    IF size > 0 THEN Overwrite(Truncate(old), size - 1, <<0>>) ELSE Truncate(old)
-----------------------------------------------------------------------------
(* What the chunks mean: used to state properties, not part of the code.   *)

ChunkOf(f, index) == Slice(f, index * ChunkSize, ChunkSize)

InChunk(p, index) == index * ChunkSize < p /\ p <= index * ChunkSize + ChunkSize

\* The file f with only the chunks in have filled in and zeros elsewhere.
Assemble(f, have) ==
    [p \in 1 .. Len(f) |-> IF \E index \in have : InChunk(p, index) THEN f[p] ELSE 0]

\* A file whose number of chunks a uint32_t can hold.
Indexable(f) == Len(f) + ChunkSize - 1 < ChunkSize * IndexMod
=============================================================================
