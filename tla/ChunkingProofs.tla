--------------------------- MODULE ChunkingProofs ---------------------------
(***************************************************************************)
(* Facts about the operators of Chunking, for every chunk size and every   *)
(* width of the chunk index.                                               *)
(***************************************************************************)
EXTENDS Chunking, SequenceTheorems, TLAPS

-----------------------------------------------------------------------------
\* f.read delivers a piece of the file: at most n bytes, from pos on.
LEMMA SliceProperties ==
    ASSUME NEW f \in File, NEW pos \in Nat, NEW n \in Nat
    PROVE  /\ Slice(f, pos, n) \in File
           /\ Len(Slice(f, pos, n)) \in 0 .. n
           /\ pos <= Len(f) =>
                 Len(Slice(f, pos, n)) = IF pos + n < Len(f) THEN n ELSE Len(f) - pos
           /\ \A p \in 1 .. Len(Slice(f, pos, n)) : Slice(f, pos, n)[p] = f[pos + p]
<1> DEFINE last == IF pos + n < Len(f) THEN pos + n ELSE Len(f)
<1>1. f \in Seq(Byte) /\ Len(f) \in Nat
  BY DEF File
<1>2. Slice(f, pos, n) = [p \in 1 .. (IF pos + 1 <= last THEN last - pos ELSE 0) |-> f[pos + p]]
  BY <1>1 DEF Slice
<1>3. SubSeq(f, pos + 1, last) \in Seq(Byte)
  BY <1>1
<1> QED
  BY <1>1, <1>2, <1>3 DEF Slice, File

\* Writing into a file gives a file.
LEMMA OverwriteIsFile ==
    ASSUME NEW f \in File, NEW d \in File, NEW offset \in Nat
    PROVE  /\ Overwrite(f, offset, d) \in File
           /\ Len(Overwrite(f, offset, d)) >= Len(f)
<1>1. f \in Seq(Byte) /\ d \in Seq(Byte) /\ Len(f) \in Nat /\ Len(d) \in Nat
  BY DEF File
<1> QED
  BY <1>1, ChunkingAssumption DEF Overwrite, File

\* The constructor leaves a file of zeros, whatever the path held before.
LEMMA NewOutputIsEmpty ==
    ASSUME NEW old, NEW f \in File
    PROVE  NewOutput(old, Len(f)) = Assemble(f, {})
<1>1. Len(f) \in Nat
  BY DEF File
<1>2. NewOutput(old, Len(f)) = [p \in 1 .. Len(f) |-> 0]
  <2>1. CASE Len(f) = 0
    BY <2>1 DEF NewOutput, Truncate
  <2>2. CASE Len(f) > 0
    <3>1. <<0>> # <<>> /\ Len(<<0>>) = 1 /\ <<0>>[1] = 0 /\ Len(<<>>) = 0
      OBVIOUS
    <3>2. NewOutput(old, Len(f)) = Overwrite(<<>>, Len(f) - 1, <<0>>)
      BY <2>2 DEF NewOutput, Truncate
    <3> QED
      BY <1>1, <2>2, <3>1, <3>2, SMT DEF Overwrite
  <2> QED
    BY <1>1, <2>1, <2>2
<1> QED
  BY <1>2 DEF Assemble
\* A file filled in partly is as long as the file.
LEMMA AssembleIsFile ==
    ASSUME NEW f \in File, NEW have
    PROVE  /\ Assemble(f, have) \in File
           /\ Len(Assemble(f, have)) = Len(f)
<1>1. f \in Seq(Byte) /\ Len(f) \in Nat
  BY DEF File
<1> QED
  BY <1>1, ChunkingAssumption DEF Assemble, File

\* Multiples of the chunk size keep their order, and a step of the index is a
\* step of at least one chunk.
LEMMA OffsetsGrow ==
    ASSUME NEW i \in Nat, NEW j \in Nat, i < j
    PROVE  i * ChunkSize + ChunkSize <= j * ChunkSize
<1>1. ChunkSize \in Nat /\ ChunkSize > 0
  BY ChunkingAssumption
<1>2. PICK d \in Nat : j = i + 1 + d
  BY SMT
<1>3. j * ChunkSize = i * ChunkSize + ChunkSize + d * ChunkSize
  BY <1>1, <1>2
<1>4. d * ChunkSize >= 0
  BY <1>1
<1> QED
  BY <1>1, <1>3, <1>4

\* Writing a piece of at most n bytes of f over an equally long file g puts
\* these bytes of f in place and keeps the others of g.
LEMMA OverwritePiece ==
    ASSUME NEW f \in File, NEW g \in File, Len(g) = Len(f),
           NEW o \in Nat, o < Len(f), NEW n \in Nat \ {0}
    PROVE  Overwrite(g, o, Slice(f, o, n)) =
              [p \in 1 .. Len(f) |-> IF o < p /\ p <= o + n THEN f[p] ELSE g[p]]
<1>1. Len(f) \in Nat
  BY DEF File
<1>2. PICK d : d = Slice(f, o, n)
  OBVIOUS
<1>3. /\ d \in Seq(Byte)
      /\ Len(d) = IF o + n < Len(f) THEN n ELSE Len(f) - o
      /\ \A p \in 1 .. Len(d) : d[p] = f[o + p]
  <2>1. n \in Nat
    OBVIOUS
  <2>2. /\ Slice(f, o, n) \in File
        /\ o <= Len(f) =>
              Len(Slice(f, o, n)) = IF o + n < Len(f) THEN n ELSE Len(f) - o
        /\ \A p \in 1 .. Len(Slice(f, o, n)) : Slice(f, o, n)[p] = f[o + p]
    BY <2>1, SliceProperties
  <2> QED
    BY <1>1, <1>2, <2>2 DEF File
<1>4. Len(d) \in Nat /\ Len(d) > 0 /\ Len(d) <= n /\ o + Len(d) <= Len(f)
  BY <1>1, <1>3
<1>5. d # <<>>
  BY <1>4
<1>6. Overwrite(g, o, d) =
        [p \in 1 .. Len(f) |-> IF p - o \in 1 .. Len(d) THEN d[p - o] ELSE g[p]]
  BY <1>1, <1>4, <1>5 DEF Overwrite
<1>7. ASSUME NEW p \in 1 .. Len(f)
      PROVE  (IF p - o \in 1 .. Len(d) THEN d[p - o] ELSE g[p])
               = IF o < p /\ p <= o + n THEN f[p] ELSE g[p]
  <2>1. (p - o \in 1 .. Len(d)) <=> (o < p /\ p <= o + n)
    BY <1>1, <1>3, <1>4
  <2>2. ASSUME p - o \in 1 .. Len(d)  PROVE d[p - o] = f[p]
    <3>1. d[p - o] = f[o + (p - o)]
      BY <1>3, <2>2
    <3>2. o + (p - o) = p
      BY <1>1
    <3> QED
      BY <3>1, <3>2
  <2> QED
    BY <2>1, <2>2
<1> QED
  BY <1>2, <1>6, <1>7

\* Writing chunk i of a file over the file filled in partly fills in chunk i
\* and changes nothing else: chunks can be written in any order and again.
LEMMA WriteChunk ==
    ASSUME NEW f \in File, NEW have, NEW i \in Nat, i * ChunkSize < Len(f)
    PROVE  Overwrite(Assemble(f, have), ChunkOffset(i), ChunkOf(f, i))
              = Assemble(f, have \cup {i})
<1> DEFINE g == Assemble(f, have)
<1>1. ChunkSize \in Nat \ {0} /\ i * ChunkSize \in Nat
  BY ChunkingAssumption
<1>2. g \in File /\ Len(g) = Len(f)
  BY AssembleIsFile
<1>3. Overwrite(g, ChunkOffset(i), ChunkOf(f, i)) =
        [p \in 1 .. Len(f) |-> IF InChunk(p, i) THEN f[p] ELSE g[p]]
  BY <1>1, <1>2, OverwritePiece DEF ChunkOffset, ChunkOf, InChunk
<1>4. ASSUME NEW p \in 1 .. Len(f)
      PROVE  (IF InChunk(p, i) THEN f[p] ELSE g[p])
               = IF \E k \in have \cup {i} : InChunk(p, k) THEN f[p] ELSE 0
  BY DEF Assemble
<1> QED
  BY <1>3, <1>4 DEF Assemble

\* The quotient that total_chunks is computed from, without the narrowing.
LEMMA QuotientBounds ==
    ASSUME NEW size \in Nat
    PROVE  LET q == (size + ChunkSize - 1) \div ChunkSize
           IN  /\ q \in Nat
               /\ size <= q * ChunkSize
               /\ q * ChunkSize < size + ChunkSize
<1>1. ChunkSize \in Nat /\ ChunkSize > 0 /\ size + ChunkSize - 1 \in Nat
  BY ChunkingAssumption
<1> DEFINE n == size + ChunkSize - 1
           q == n \div ChunkSize
<1>2. n \in Nat
  BY <1>1
<1>3. q \in Nat /\ q * ChunkSize <= n /\ n < q * ChunkSize + ChunkSize
  BY <1>1, <1>2
<1> QED
  BY <1>1, <1>3
\* For a file that the chunk index can number, the narrowing changes nothing,
\* and the chunks are the multiples of the chunk size below the file size.
LEMMA ChunkIndices ==
    ASSUME NEW f \in File, Indexable(f)
    PROVE  /\ TotalChunks(Len(f)) \in 0 .. IndexMod - 1
           /\ \A i \in Nat : i < TotalChunks(Len(f)) <=> i * ChunkSize < Len(f)
<1>1. ChunkSize \in Nat /\ ChunkSize > 0 /\ IndexMod \in Nat /\ IndexMod > 0
  BY ChunkingAssumption
<1>2. Len(f) \in Nat
  BY DEF File
<1>3. PICK q : q = (Len(f) + ChunkSize - 1) \div ChunkSize
  OBVIOUS
<1>4. q \in Nat /\ Len(f) <= q * ChunkSize /\ q * ChunkSize < Len(f) + ChunkSize
  BY <1>2, <1>3, QuotientBounds
<1>5. q * ChunkSize \in Nat /\ IndexMod * ChunkSize \in Nat
      /\ q * ChunkSize < IndexMod * ChunkSize
  BY <1>1, <1>2, <1>4 DEF Indexable
<1>6. q < IndexMod
  <2>1. ASSUME IndexMod < q  PROVE FALSE
    <3>1. IndexMod * ChunkSize + ChunkSize <= q * ChunkSize
      BY <1>1, <1>4, <2>1, OffsetsGrow
    <3> QED
      BY <1>1, <1>5, <3>1
  <2>2. q # IndexMod
    BY <1>5
  <2> QED
    BY <1>1, <1>4, <2>1, <2>2
<1>7. TotalChunks(Len(f)) = q
  <2>1. CASE Len(f) = 0
    <3>1. ASSUME q > 0  PROVE FALSE
      <4>1. 0 * ChunkSize + ChunkSize <= q * ChunkSize
        BY <1>4, <3>1, OffsetsGrow
      <4> QED
        BY <1>1, <1>4, <2>1, <4>1
    <3> QED
      BY <1>4, <2>1, <3>1 DEF TotalChunks
  <2>2. CASE Len(f) # 0
    <3>1. q % IndexMod = q
      BY <1>1, <1>4, <1>6
    <3> QED
      BY <1>3, <2>2, <3>1 DEF TotalChunks
  <2> QED
    BY <2>1, <2>2
<1>8. ASSUME NEW i \in Nat  PROVE i < q <=> i * ChunkSize < Len(f)
  <2>1. i * ChunkSize \in Nat
    BY <1>1
  <2>2. ASSUME i < q  PROVE i * ChunkSize < Len(f)
    <3>1. i * ChunkSize + ChunkSize <= q * ChunkSize
      BY <1>4, <2>2, OffsetsGrow
    <3> QED
      BY <1>1, <1>2, <1>4, <1>5, <2>1, <3>1
  <2>3. ASSUME i * ChunkSize < Len(f)  PROVE i < q
    <3>1. ASSUME q < i  PROVE FALSE
      <4>1. q * ChunkSize + ChunkSize <= i * ChunkSize
        BY <1>4, <3>1, OffsetsGrow
      <4> QED
        BY <1>1, <1>2, <1>4, <1>5, <2>1, <2>3, <4>1
    <3>2. q # i
      BY <1>2, <1>4, <1>5, <2>3
    <3> QED
      BY <1>4, <3>1, <3>2
  <2> QED
    BY <2>2, <2>3
<1> QED
  BY <1>1, <1>4, <1>6, <1>7, <1>8

\* A file with all its chunks filled in is the file.
LEMMA AssembleAll ==
    ASSUME NEW f \in File, Indexable(f)
    PROVE  Assemble(f, 0 .. TotalChunks(Len(f)) - 1) = f
<1>1. ChunkSize \in Nat /\ ChunkSize > 0
  BY ChunkingAssumption
<1>2. f \in Seq(Byte) /\ Len(f) \in Nat
  BY DEF File
<1>3. ASSUME NEW p \in 1 .. Len(f)
      PROVE  \E i \in 0 .. TotalChunks(Len(f)) - 1 : InChunk(p, i)
  <2>1. PICK i : i = (p - 1) \div ChunkSize
    OBVIOUS
  <2>2. i \in Nat /\ i * ChunkSize \in Nat
        /\ i * ChunkSize <= p - 1 /\ p - 1 < i * ChunkSize + ChunkSize
    BY <1>1, <1>2, <2>1
  <2>3. InChunk(p, i) /\ i * ChunkSize < Len(f)
    BY <1>1, <1>2, <2>2 DEF InChunk
  <2>4. i < TotalChunks(Len(f)) /\ TotalChunks(Len(f)) \in Nat
    BY <2>2, <2>3, ChunkIndices
  <2> QED
    BY <2>2, <2>3, <2>4
<1>4. Assemble(f, 0 .. TotalChunks(Len(f)) - 1) = [p \in 1 .. Len(f) |-> f[p]]
  BY <1>3 DEF Assemble
<1> QED
  BY <1>2, <1>4

\* Where two files of one length have the same bytes, a read returns the same.
LEMMA SameSlice ==
    ASSUME NEW f \in File, NEW g \in File, Len(g) = Len(f),
           NEW o \in Nat, o < Len(f), NEW n \in Nat,
           \A p \in Nat : o < p /\ p <= o + n /\ p <= Len(f) => g[p] = f[p]
    PROVE  Slice(g, o, n) = Slice(f, o, n)
<1>1. Len(f) \in Nat
  BY DEF File
<1>2. PICK a : a = Slice(g, o, n)
  OBVIOUS
<1>3. PICK b : b = Slice(f, o, n)
  OBVIOUS
<1>4. PICK m : m = IF o + n < Len(f) THEN n ELSE Len(f) - o
  OBVIOUS
<1>5. m \in Nat /\ m <= n /\ o + m <= Len(f)
  BY <1>1, <1>4
<1>6. a \in File /\ Len(a) = m /\ \A p \in 1 .. m : a[p] = g[o + p]
  <2>1. /\ Slice(g, o, n) \in File
        /\ o <= Len(g) =>
              Len(Slice(g, o, n)) = IF o + n < Len(g) THEN n ELSE Len(g) - o
        /\ \A p \in 1 .. Len(Slice(g, o, n)) : Slice(g, o, n)[p] = g[o + p]
    BY SliceProperties
  <2> QED
    BY <1>1, <1>2, <1>4, <2>1
<1>7. b \in File /\ Len(b) = m /\ \A p \in 1 .. m : b[p] = f[o + p]
  <2>1. /\ Slice(f, o, n) \in File
        /\ o <= Len(f) =>
              Len(Slice(f, o, n)) = IF o + n < Len(f) THEN n ELSE Len(f) - o
        /\ \A p \in 1 .. Len(Slice(f, o, n)) : Slice(f, o, n)[p] = f[o + p]
    BY SliceProperties
  <2> QED
    BY <1>1, <1>3, <1>4, <2>1
<1>8. \A p \in 1 .. m : a[p] = b[p]
  <2>1. ASSUME NEW p \in 1 .. m  PROVE g[o + p] = f[o + p]
    BY <1>1, <1>5
  <2> QED
    BY <1>6, <1>7, <2>1
<1>9. a \in Seq(Byte) /\ b \in Seq(Byte)
  BY <1>6, <1>7 DEF File
<1>10. a = b
  BY <1>5, <1>6, <1>7, <1>8, <1>9, SeqEqual
<1> QED
  BY <1>2, <1>3, <1>10

\* A chunk that is filled in is read back as it is in the file.
LEMMA AssembledChunk ==
    ASSUME NEW f \in File, NEW have, NEW i \in Nat, i \in have, i * ChunkSize < Len(f)
    PROVE  ChunkOf(Assemble(f, have), i) = ChunkOf(f, i)
<1>1. ChunkSize \in Nat /\ i * ChunkSize \in Nat /\ Len(f) \in Nat
  BY ChunkingAssumption DEF File
<1>2. PICK g \in File : g = Assemble(f, have) /\ Len(g) = Len(f)
  BY AssembleIsFile
<1>3. ASSUME NEW p \in Nat, i * ChunkSize < p, p <= i * ChunkSize + ChunkSize, p <= Len(f)
      PROVE  g[p] = f[p]
  <2>1. InChunk(p, i) /\ p \in 1 .. Len(f)
    BY <1>1, <1>3 DEF InChunk
  <2> QED
    BY <1>2, <2>1 DEF Assemble
<1> QED
  BY <1>1, <1>2, <1>3, SameSlice DEF ChunkOf

\* A read of as many bytes as a read has delivered delivers the same.
LEMMA SliceAgain ==
    ASSUME NEW f \in File, NEW o \in Nat, NEW size \in Nat
    PROVE  Slice(f, o, Len(Slice(f, o, size))) = Slice(f, o, size)
<1>1. Len(f) \in Nat
  BY DEF File
<1>2. PICK n : n = Len(Slice(f, o, size))
  OBVIOUS
<1>3. n \in 0 .. size /\ (o <= Len(f) => n = IF o + size < Len(f) THEN size ELSE Len(f) - o)
  <2>1. /\ Len(Slice(f, o, size)) \in 0 .. size
        /\ o <= Len(f) =>
              Len(Slice(f, o, size)) = IF o + size < Len(f) THEN size ELSE Len(f) - o
    BY SliceProperties
  <2> QED
    BY <1>2, <2>1
<1>4. (IF o + n < Len(f) THEN o + n ELSE Len(f)) = IF o + size < Len(f) THEN o + size ELSE Len(f)
  BY <1>1, <1>3
<1> QED
  BY <1>2, <1>4 DEF Slice

\* What is appended to a file does not change the pieces before it, and is
\* itself what is read behind them.
LEMMA SliceOfJoined ==
    ASSUME NEW a \in File, NEW b \in File, NEW o \in Nat, NEW n \in Nat
    PROVE  /\ a \o b \in File /\ Len(a \o b) = Len(a) + Len(b)
           /\ o + n <= Len(a) => Slice(a \o b, o, n) = Slice(a, o, n)
           /\ o = Len(a) /\ Len(b) <= n => Slice(a \o b, o, n) = b
<1>1. a \in Seq(Byte) /\ b \in Seq(Byte) /\ Len(a) \in Nat /\ Len(b) \in Nat
  BY DEF File
<1>2. PICK c : c = a \o b
  OBVIOUS
<1>3. /\ c \in Seq(Byte) /\ Len(c) = Len(a) + Len(b)
      /\ \A p \in 1 .. Len(a) : c[p] = a[p]
      /\ \A p \in 1 .. Len(b) : c[Len(a) + p] = b[p]
  BY <1>1, <1>2
<1>4. c \in File
  BY <1>3 DEF File
<1>5. PICK s : s = Slice(c, o, n)
  OBVIOUS
<1>6. /\ s \in Seq(Byte)
      /\ o <= Len(c) => Len(s) = IF o + n < Len(c) THEN n ELSE Len(c) - o
      /\ \A p \in 1 .. Len(s) : s[p] = c[o + p]
  <2>1. /\ Slice(c, o, n) \in File
        /\ o <= Len(c) =>
              Len(Slice(c, o, n)) = IF o + n < Len(c) THEN n ELSE Len(c) - o
        /\ \A p \in 1 .. Len(Slice(c, o, n)) : Slice(c, o, n)[p] = c[o + p]
    BY <1>4, SliceProperties
  <2> QED
    BY <1>5, <2>1 DEF File
<1>7. ASSUME o + n <= Len(a)  PROVE s = Slice(a, o, n)
  <2>1. PICK t : t = Slice(a, o, n)
    OBVIOUS
  <2>2. /\ t \in Seq(Byte)
        /\ o <= Len(a) => Len(t) = IF o + n < Len(a) THEN n ELSE Len(a) - o
        /\ \A p \in 1 .. Len(t) : t[p] = a[o + p]
    <3>1. /\ Slice(a, o, n) \in File
          /\ o <= Len(a) =>
                Len(Slice(a, o, n)) = IF o + n < Len(a) THEN n ELSE Len(a) - o
          /\ \A p \in 1 .. Len(Slice(a, o, n)) : Slice(a, o, n)[p] = a[o + p]
      BY SliceProperties
    <3> QED
      BY <2>1, <3>1 DEF File
  <2>3. Len(s) = n /\ Len(t) = n
    BY <1>1, <1>3, <1>6, <1>7, <2>2
  <2>4. \A p \in 1 .. n : s[p] = t[p]
    <3>1. ASSUME NEW p \in 1 .. n  PROVE c[o + p] = a[o + p]
      <4>1. o + p \in 1 .. Len(a)
        BY <1>1, <1>7
      <4> QED
        BY <1>3, <4>1
    <3> QED
      BY <1>6, <2>2, <2>3, <3>1
  <2>5. s = t
    BY <1>6, <2>2, <2>3, <2>4, SeqEqual
  <2> QED
    BY <2>1, <2>5
<1>8. ASSUME o = Len(a), Len(b) <= n  PROVE s = b
  <2>1. Len(s) = Len(b)
    BY <1>1, <1>3, <1>6, <1>8
  <2>2. \A p \in 1 .. Len(b) : s[p] = b[p]
    BY <1>3, <1>6, <1>8, <2>1
  <2> QED
    BY <1>1, <1>6, <2>1, <2>2, SeqEqual
<1> QED
  BY <1>2, <1>3, <1>4, <1>5, <1>7, <1>8

\* Reading on where the reading of a file has stopped gives a longer beginning
\* of the file.
LEMMA ReadOn ==
    ASSUME NEW f \in File, NEW o \in 0 .. Len(f), NEW n \in Nat, o + n <= Len(f)
    PROVE  SubSeq(f, 1, o) \o Slice(f, o, n) = SubSeq(f, 1, o + n)
<1>1. f \in Seq(Byte) /\ Len(f) \in Nat /\ o \in Nat /\ o <= Len(f)
  BY DEF File
<1>2. PICK a : a = SubSeq(f, 1, o)
  OBVIOUS
<1>3. a \in Seq(Byte) /\ Len(a) = o /\ \A p \in 1 .. o : a[p] = f[p]
  BY <1>1, <1>2
<1>4. PICK b : b = Slice(f, o, n)
  OBVIOUS
<1>5. b \in Seq(Byte) /\ Len(b) = n /\ \A p \in 1 .. n : b[p] = f[o + p]
  <2>1. /\ Slice(f, o, n) \in File
        /\ Len(Slice(f, o, n)) = IF o + n < Len(f) THEN n ELSE Len(f) - o
        /\ \A p \in 1 .. Len(Slice(f, o, n)) : Slice(f, o, n)[p] = f[o + p]
    BY <1>1, SliceProperties
  <2>2. Len(Slice(f, o, n)) = n
    BY <1>1, <2>1
  <2> QED
    BY <1>4, <2>1, <2>2 DEF File
<1>6. PICK c : c = SubSeq(f, 1, o + n)
  OBVIOUS
<1>7. c \in Seq(Byte) /\ Len(c) = o + n /\ \A p \in 1 .. o + n : c[p] = f[p]
  BY <1>1, <1>6
<1>8. /\ a \o b \in Seq(Byte) /\ Len(a \o b) = o + n
      /\ \A p \in 1 .. o : (a \o b)[p] = a[p]
      /\ \A p \in 1 .. n : (a \o b)[o + p] = b[p]
  <2>1. PICK d : d = a \o b
    OBVIOUS
  <2>2. /\ d \in Seq(Byte) /\ Len(d) = Len(a) + Len(b)
        /\ \A p \in 1 .. Len(a) : d[p] = a[p]
        /\ \A p \in 1 .. Len(b) : d[Len(a) + p] = b[p]
    <3>1. a \in Seq(Byte) /\ b \in Seq(Byte) /\ Len(a) \in Nat /\ Len(b) \in Nat
      BY <1>3, <1>5
    <3> QED
      BY <2>1, <3>1
  <2>3. Len(a) = o /\ Len(b) = n
    BY <1>3, <1>5
  <2> QED
    BY <2>1, <2>2, <2>3
<1>9. ASSUME NEW p \in 1 .. o + n  PROVE (a \o b)[p] = c[p]
  <2>1. CASE p <= o
    <3>1. p \in 1 .. o
      BY <1>1, <2>1
    <3> QED
      BY <1>3, <1>7, <1>8, <3>1
  <2>2. CASE p > o
    <3>1. PICK q \in 1 .. n : p = o + q
      <4>1. p - o \in 1 .. n /\ p = o + (p - o)
        BY <1>1, <2>2
      <4> QED
        BY <4>1
    <3> QED
      BY <1>5, <1>7, <1>8, <3>1
  <2>3. p <= o \/ p > o
    BY <1>1
  <2> QED
    BY <2>1, <2>2, <2>3
<1>10. a \o b = c
  BY <1>7, <1>8, <1>9, SeqEqual
<1> QED
  BY <1>2, <1>4, <1>6, <1>10
=============================================================================
