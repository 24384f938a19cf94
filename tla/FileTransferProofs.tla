------------------------- MODULE FileTransferProofs -------------------------
(***************************************************************************)
(* The safety properties of FileTransfer for every chunk size, every width *)
(* of the index, every set of files and any number of transfers and frames *)
(* in flight.                                                              *)
(***************************************************************************)
EXTENDS FileTransfer, ChunkingProofs, FiniteSetTheorems

-----------------------------------------------------------------------------
(* Types and the counter, under all faults.                                *)

TypeInv == TypeOK /\ CountMatchesMask

LEMMA ConstantTypes ==
    /\ ChunkSize \in Nat /\ ChunkSize > 0
    /\ IndexMod \in Nat /\ IndexMod > 0
    /\ MaxSessions \in Nat /\ MaxSessions > 0
    /\ SourceFiles \subseteq File
    /\ HashBlock \in Nat /\ HashBlock > 0
    /\ 0 \in Byte /\ 1 \in Byte /\ 2 \in Byte
    /\ <<>> \in File
BY ChunkingAssumption, FileTransferAssumption DEF File

LEMMA TotalChunksType ==
    ASSUME NEW size \in Nat
    PROVE  TotalChunks(size) \in Nat
<1>1. PICK q : q = (size + ChunkSize - 1) \div ChunkSize
  OBVIOUS
<1>2. q \in Nat
  BY <1>1, QuotientBounds
<1>3. q % IndexMod \in Nat
  BY <1>2, ConstantTypes
<1> QED
  BY <1>1, <1>3 DEF TotalChunks

LEMMA PrefixIsFile ==
    ASSUME NEW f \in File, NEW n \in 0 .. Len(f)
    PROVE  SubSeq(f, 1, n) \in File
<1>1. f \in Seq(Byte) /\ Len(f) \in Nat
  BY DEF File
<1>2. \A i \in 1 .. n : f[i] \in Byte
  BY <1>1
<1>3. SubSeq(f, 1, n) \in Seq(Byte)
  BY <1>1, <1>2, SubSeqProperties
<1> QED
  BY <1>3 DEF File

LEMMA DigestsType ==
    ASSUME NEW f \in File, NEW digest \in Digests(f)
    PROVE  digest \in Digest
<1>1. Len(f) \in Nat
  BY DEF File
<1>2. PICK n \in 0 .. Len(f) : digest = Sha256(SubSeq(f, 1, n))
  BY <1>1 DEF Digests
<1> QED
  BY <1>2, PrefixIsFile DEF Digest, Sha256

LEMMA SessionKeyType ==
    ASSUME NEW s \in 1 .. MaxSessions
    PROVE  SenderSessionKey(s) \in SessionKey
BY DEF SenderSessionKey, DeriveSessionKey, SenderKeys, ReceiverKeys, SessionKey, KeyId

LEMMA NewOutputType ==
    ASSUME NEW old, NEW size \in Nat
    PROVE  NewOutput(old, size) \in File
<1>1. PICK f : f = [p \in 1 .. size |-> 0]
  OBVIOUS
<1>2. f \in File /\ Len(f) = size
  BY <1>1, ConstantTypes DEF File
<1>3. NewOutput(old, size) = Assemble(f, {})
  BY <1>2, NewOutputIsEmpty
<1> QED
  BY <1>2, <1>3, AssembleIsFile

LEMMA TypeInit == Init => TypeInv
<1> SUFFICES ASSUME Init PROVE TypeInv
  OBVIOUS
<1>1. NoOffer \in Offer /\ Sha256(<<>>) \in Digest
  BY ConstantTypes DEF NoOffer, Offer, Digest, Sha256
<1>2. received_mask \in [0 .. total_chunks - 1 -> BOOLEAN] /\ Marked = {}
  BY DEF Init, Marked
<1>3. CountMatchesMask
  BY <1>2, FS_EmptySet DEF Init, CountMatchesMask
<1>4. session \in 1 .. MaxSessions /\ index \in 0 .. IndexMod - 1 /\ pos \in Nat
      /\ hashed \in File
  BY ConstantTypes DEF Init
<1>5. /\ expected_size \in Nat /\ total_chunks \in Nat /\ received_count \in 0 .. total_chunks
      /\ out \in File /\ expected_sha256 \in Digest /\ offer \in Offer
  BY <1>1, ConstantTypes DEF Init
<1>6. TypeOK
  BY <1>2, <1>4, <1>5 DEF Init, TypeOK
<1> QED
  BY <1>3, <1>6 DEF TypeInv

\* A step of the sender and of the environment that leaves the receiver alone
\* keeps the counter right.
LEMMA CountUnchanged ==
    ASSUME TypeInv, UNCHANGED receiverVars
    PROVE  CountMatchesMask'
BY DEF TypeInv, CountMatchesMask, Marked, receiverVars

LEMMA OfferSizeType == ASSUME TypeInv, OfferSize PROVE TypeInv'
<1>1. Len(source) \in Nat
  BY ConstantTypes DEF TypeInv, TypeOK, File
<1>2. offer' \in Offer
  BY <1>1 DEF TypeInv, TypeOK, OfferSize, Offer
<1>3. TypeOK'
  BY <1>2 DEF TypeInv, TypeOK, OfferSize, receiverVars
<1> QED
  BY <1>3, CountUnchanged DEF TypeInv, OfferSize

LEMMA GcountType ==
    ASSUME source \in File, NEW at \in Nat, NEW size \in Nat, NEW fault,
           NEW n \in Gcount(at, size, fault)
    PROVE  n \in 0 .. size
<1>1. Len(Slice(source, at, size)) \in 0 .. size
  BY SliceProperties
<1> QED
  BY <1>1 DEF Gcount

LEMMA HashedType ==
    ASSUME TypeInv, NEW n \in Nat
    PROVE  HashedWith(n) \in File
<1>1. hashed \in File /\ source \in File /\ Len(hashed) \in Nat
  BY ConstantTypes DEF TypeInv, TypeOK, File
<1>2. Slice(source, Len(hashed), n) \in File
  BY <1>1, SliceProperties
<1> QED
  BY <1>1, <1>2, SliceOfJoined, ConstantTypes DEF HashedWith

LEMMA HashNextType == ASSUME TypeInv, HashNext PROVE TypeInv'
<1>1. source \in File /\ Len(hashed) \in Nat /\ offer \in Offer /\ offer.file_size \in Nat
  BY ConstantTypes DEF TypeInv, TypeOK, Offer, File
<1>2. PICK n \in Gcount(Len(hashed), HashBlock, "hash") : HashRound(n) \/ OfferHash(n)
  BY DEF HashNext
<1>3. n \in Nat
  BY <1>1, <1>2, GcountType, ConstantTypes
<1>4. HashedWith(n) \in File
  BY <1>3, HashedType
<1>5. CASE HashRound(n)
  <2>1. TypeOK'
    BY <1>4, <1>5 DEF HashRound, HashNext, TypeInv, TypeOK, receiverVars
  <2> QED
    BY <2>1, CountUnchanged DEF TypeInv, HashNext
<1>6. CASE OfferHash(n)
  <2>1. Sha256(HashedWith(n)) \in Digest /\ TotalChunks(offer.file_size) \in Nat
    BY <1>1, <1>4, TotalChunksType DEF Sha256, Digest
  <2>2. offer' \in Offer
    BY <1>1, <1>6, <2>1 DEF OfferHash, Offer
  <2>3. hashed' \in File
    BY <1>6, ConstantTypes DEF OfferHash
  <2>4. TypeOK'
    BY <1>6, <2>2, <2>3 DEF OfferHash, HashNext, TypeInv, TypeOK, receiverVars
  <2> QED
    BY <2>4, CountUnchanged DEF TypeInv, HashNext
<1> QED
  BY <1>2, <1>5, <1>6

LEMMA StartSendingType == ASSUME TypeInv, StartSending PROVE TypeInv'
<1>1. TypeOK'
  BY ConstantTypes DEF TypeInv, TypeOK, StartSending, receiverVars
<1> QED
  BY <1>1, CountUnchanged DEF TypeInv, StartSending

LEMMA ReadNextType == ASSUME TypeInv, ReadNext PROVE TypeInv'
<1>1. PICK n \in Gcount(pos, ChunkSize, "read") : SendChunk(n) \/ EndOfFile(n)
  BY DEF ReadNext
<1>2. n \in Nat /\ n \in 0 .. ChunkSize
  BY <1>1, GcountType, ConstantTypes DEF TypeInv, TypeOK
<1>3. CASE SendChunk(n)
  <2>1. index' \in 0 .. IndexMod - 1
    BY <1>3, ConstantTypes DEF SendChunk, TypeInv, TypeOK
  <2>2. Slice(source, pos, n) \in File
    BY <1>2, ConstantTypes, SliceProperties DEF TypeInv, TypeOK
  <2>3. SenderSessionKey(session) \in SessionKey
    BY SessionKeyType DEF TypeInv, TypeOK
  <2>4. ChunkPayload(index, EncryptChunk(SenderSessionKey(session), Slice(source, pos, n)))
           \in Frame
    BY <2>2, <2>3 DEF ChunkPayload, EncryptChunk, Frame, TypeInv, TypeOK
  <2>5. channel' \subseteq Frame
    BY <1>3, <2>4 DEF SendChunk, TypeInv, TypeOK
  <2>6. pos' \in Nat
    BY <1>2, <1>3 DEF SendChunk, TypeInv, TypeOK
  <2>7. TypeOK'
    BY <1>3, <2>1, <2>5, <2>6 DEF SendChunk, ReadNext, TypeInv, TypeOK, receiverVars
  <2> QED
    BY <2>7, CountUnchanged DEF TypeInv, ReadNext
<1>4. CASE EndOfFile(n)
  <2>1. TypeOK'
    BY <1>4 DEF EndOfFile, ReadNext, TypeInv, TypeOK, receiverVars
  <2> QED
    BY <2>1, CountUnchanged DEF TypeInv, ReadNext
<1> QED
  BY <1>1, <1>3, <1>4

LEMMA SendReturnsType == ASSUME TypeInv, SendReturns PROVE TypeInv'
<1>1. TypeOK'
  BY DEF TypeInv, TypeOK, SendReturns, receiverVars
<1> QED
  BY <1>1, CountUnchanged DEF TypeInv, SendReturns

LEMMA SendThrowsType == ASSUME TypeInv, SendThrows PROVE TypeInv'
<1>1. TypeOK'
  BY DEF TypeInv, TypeOK, SendThrows, receiverVars
<1> QED
  BY <1>1, CountUnchanged DEF TypeInv, SendThrows

LEMMA AcceptOfferType == ASSUME TypeInv, AcceptOffer PROVE TypeInv'
<1>1. offer.file_size \in Nat /\ offer.total_chunks \in Nat /\ offer.sha256 \in Digest
  BY DEF TypeInv, TypeOK, Offer
<1>2. out' \in File
  BY <1>1, NewOutputType, ConstantTypes DEF AcceptOffer, Truncate
<1>3. received_mask' \in [0 .. total_chunks' - 1 -> BOOLEAN] /\ Marked' = {}
  BY <1>1 DEF AcceptOffer, Marked
<1>4. CountMatchesMask'
  BY <1>3, FS_EmptySet DEF AcceptOffer, CountMatchesMask
<1>5. TypeOK'
  BY <1>1, <1>2, <1>3 DEF AcceptOffer, TypeInv, TypeOK, senderVars
<1> QED
  BY <1>4, <1>5 DEF TypeInv

\* The mask never has more bits set than it has bits; ReceiveChunk sets at
\* most one, and counts it if it was not set.
LEMMA MarkCounts ==
    ASSUME TypeInv, NEW i \in 0 .. total_chunks - 1, Mark(i), total_chunks' = total_chunks
    PROVE  /\ Marked' = Marked \cup {i}
           /\ CountMatchesMask'
           /\ received_mask' \in [0 .. total_chunks' - 1 -> BOOLEAN]
           /\ received_count' \in 0 .. total_chunks'
<1>1. /\ total_chunks \in Nat
      /\ received_mask \in [0 .. total_chunks - 1 -> BOOLEAN]
      /\ received_count = Cardinality(Marked)
      /\ received_mask' = [received_mask EXCEPT ![i] = TRUE]
  BY DEF TypeInv, TypeOK, CountMatchesMask, Mark
<1>2. received_mask' \in [0 .. total_chunks' - 1 -> BOOLEAN]
  BY <1>1
<1>3. Marked' = Marked \cup {i} /\ Marked \subseteq 0 .. total_chunks - 1
  BY <1>1 DEF Marked
<1>4. IsFiniteSet(0 .. total_chunks - 1) /\ Cardinality(0 .. total_chunks - 1) = total_chunks
  BY <1>1, FS_Interval
<1>5. IsFiniteSet(Marked)
  BY <1>3, <1>4, FS_Subset
<1>6. Cardinality(Marked') = IF i \in Marked THEN Cardinality(Marked) ELSE Cardinality(Marked) + 1
  BY <1>3, <1>5, FS_AddElement
<1>7. CountMatchesMask'
  BY <1>1, <1>6 DEF Mark, Marked, CountMatchesMask
<1>8. Marked' \subseteq 0 .. total_chunks - 1
  BY <1>3
<1>9. IsFiniteSet(Marked') /\ Cardinality(Marked') <= total_chunks
  BY <1>4, <1>8, FS_Subset
<1>10. Cardinality(Marked') \in Nat
  BY <1>9, FS_CardinalityType
<1> QED
  BY <1>1, <1>2, <1>3, <1>7, <1>9, <1>10 DEF CountMatchesMask

LEMMA DeliverType ==
    ASSUME TypeInv, NEW f, Deliver(f)
    PROVE  f \in Frame /\ channel' \subseteq channel /\ channel' \subseteq Frame
BY DEF TypeInv, TypeOK, Deliver

LEMMA ReceiveThrowsType == ASSUME TypeInv, NEW f, ReceiveThrows(f) PROVE TypeInv'
<1>1. channel' \subseteq Frame
  BY DeliverType DEF ReceiveThrows
<1>2. TypeOK'
  BY <1>1 DEF ReceiveThrows, TypeInv, TypeOK, senderVars, receiverVars
<1> QED
  BY <1>2, CountUnchanged DEF TypeInv, ReceiveThrows

LEMMA StoreChunkType == ASSUME TypeInv, NEW f, StoreChunk(f) PROVE TypeInv'
<1>1. f \in Frame /\ channel' \subseteq Frame
  BY DeliverType DEF StoreChunk
<1>2. f.chunk_index \in 0 .. total_chunks - 1 /\ f.enc.plaintext \in File
  BY <1>1, ConstantTypes DEF StoreChunk, Frame, TypeInv, TypeOK
<1>3. CountMatchesMask' /\ received_mask' \in [0 .. total_chunks' - 1 -> BOOLEAN]
      /\ received_count' \in 0 .. total_chunks'
  BY <1>2, MarkCounts DEF StoreChunk
<1>4. out' \in File
  <2>1. PICK n \in Written(f.enc.plaintext) :
           out' = Overwrite(out, ChunkOffset(f.chunk_index), SubSeq(f.enc.plaintext, 1, n))
    BY DEF StoreChunk, DecryptChunk
  <2>2. Len(f.enc.plaintext) \in Nat
    BY <1>2 DEF File
  <2>3. n \in 0 .. Len(f.enc.plaintext)
    BY <2>1, <2>2 DEF Written
  <2>4. SubSeq(f.enc.plaintext, 1, n) \in File
    BY <1>2, <2>3, PrefixIsFile
  <2>5. ChunkOffset(f.chunk_index) \in Nat
    BY <1>2, ConstantTypes DEF ChunkOffset
  <2> QED
    BY <2>1, <2>4, <2>5, OverwriteIsFile DEF TypeInv, TypeOK
<1>5. TypeOK'
  BY <1>1, <1>3, <1>4 DEF StoreChunk, TypeInv, TypeOK, senderVars
<1> QED
  BY <1>3, <1>5 DEF TypeInv

LEMMA VerifyIntegrityType == ASSUME TypeInv, VerifyIntegrity PROVE TypeInv'
<1>1. TypeOK'
  BY DEF VerifyIntegrity, TypeInv, TypeOK, senderVars, receiverVars
<1> QED
  BY <1>1, CountUnchanged DEF TypeInv, VerifyIntegrity

LEMMA LoseType == ASSUME TypeInv, NEW f, Lose(f) PROVE TypeInv'
<1>1. TypeOK'
  BY DEF Lose, TypeInv, TypeOK, senderVars, receiverVars
<1> QED
  BY <1>1, CountUnchanged DEF TypeInv, Lose

LEMMA DamageType == ASSUME TypeInv, NEW f, Damage(f) PROVE TypeInv'
<1>1. f \in Frame /\ f.enc.plaintext \in File
  BY DEF Damage, TypeInv, TypeOK, Frame
<1> DEFINE other(x) == CHOOSE b \in Byte : b \notin {0, x}
<1>2. \A x : other(x) \in Byte
  <2>1. \A x : \E b \in Byte : b \notin {0, x}
    <3>1. \A x : 1 \notin {0, x} \/ 2 \notin {0, x}
      BY SMT
    <3> QED
      BY <3>1, ConstantTypes
  <2> QED
    BY <2>1
<1>3. PICK garbled : garbled = [p \in 1 .. Len(f.enc.plaintext) |-> other(f.enc.plaintext[p])]
  OBVIOUS
<1>4. garbled \in File
  <2> HIDE DEF other
  <2>1. Len(f.enc.plaintext) \in Nat
    BY <1>1 DEF File
  <2> QED
    BY <1>2, <1>3, <2>1 DEF File
<1>5. [f EXCEPT !.enc.genuine = FALSE, !.enc.plaintext = garbled] \in Frame
  BY <1>1, <1>4 DEF Frame
<1>6. channel' \subseteq Frame
  BY <1>3, <1>5 DEF Damage, TypeInv, TypeOK
<1>7. TypeOK'
  BY <1>6 DEF Damage, TypeInv, TypeOK, senderVars, receiverVars
<1> QED
  BY <1>7, CountUnchanged DEF TypeInv, Damage

LEMMA MisIndexType == ASSUME TypeInv, NEW f, MisIndex(f) PROVE TypeInv'
<1>1. channel' \subseteq Frame
  BY DEF MisIndex, TypeInv, TypeOK, Frame
<1>2. TypeOK'
  BY <1>1 DEF MisIndex, TypeInv, TypeOK, senderVars, receiverVars
<1> QED
  BY <1>2, CountUnchanged DEF TypeInv, MisIndex

LEMMA EditSourceType == ASSUME TypeInv, EditSource PROVE TypeInv'
<1>1. TypeOK'
  BY DEF EditSource, TypeInv, TypeOK, senderVars, receiverVars
<1> QED
  BY <1>1, CountUnchanged DEF TypeInv, EditSource

LEMMA NewSessionType == ASSUME TypeInv, NewSession PROVE TypeInv'
<1>1. NoOffer \in Offer /\ Sha256(<<>>) \in Digest
  BY ConstantTypes DEF NoOffer, Offer, Digest, Sha256
<1>2. received_mask' \in [0 .. total_chunks' - 1 -> BOOLEAN] /\ Marked' = {}
  BY DEF NewSession, Marked
<1>3. CountMatchesMask'
  BY <1>2, FS_EmptySet DEF NewSession, CountMatchesMask
<1>4. session' \in 1 .. MaxSessions /\ index' \in 0 .. IndexMod - 1 /\ pos' \in Nat
      /\ hashed' \in File
  BY ConstantTypes DEF NewSession, TypeInv, TypeOK
<1>5. expected_size' \in Nat /\ total_chunks' \in Nat /\ received_count' \in 0 .. total_chunks'
  BY DEF NewSession
<1>6. TypeOK'
  BY <1>1, <1>2, <1>4, <1>5 DEF NewSession, TypeInv, TypeOK
<1> QED
  BY <1>3, <1>6 DEF TypeInv

LEMMA TypeNext == TypeInv /\ [Next]_vars => TypeInv'
<1> SUFFICES ASSUME TypeInv, [Next]_vars PROVE TypeInv'
  OBVIOUS
<1>1. CASE UNCHANGED vars
  BY <1>1 DEF vars, senderVars, receiverVars, TypeInv, TypeOK, CountMatchesMask, Marked
<1>2. CASE OfferSize       BY <1>2, OfferSizeType
<1>3. CASE HashNext        BY <1>3, HashNextType
<1>4. CASE StartSending    BY <1>4, StartSendingType
<1>5. CASE ReadNext        BY <1>5, ReadNextType
<1>6. CASE AcceptOffer     BY <1>6, AcceptOfferType
<1>7. CASE VerifyIntegrity BY <1>7, VerifyIntegrityType
<1>8. CASE EditSource      BY <1>8, EditSourceType
<1>9. CASE NewSession      BY <1>9, NewSessionType
<1>10. CASE SendThrows     BY <1>10, SendThrowsType
<1>11. CASE SendReturns    BY <1>11, SendReturnsType
<1>12. ASSUME NEW f \in channel,
              ReceiveThrows(f) \/ StoreChunk(f) \/ Lose(f) \/ Damage(f) \/ MisIndex(f)
       PROVE  TypeInv'
  BY <1>12, ReceiveThrowsType, StoreChunkType, LoseType, DamageType, MisIndexType
<1> QED
  BY <1>1, <1>2, <1>3, <1>4, <1>5, <1>6, <1>7, <1>8, <1>9, <1>10, <1>11, <1>12 DEF Next

\* Every variable keeps its type whatever the environment does: no index of
\* the mask is out of range, and the counter stays within total_chunks.
THEOREM TypeCorrect == Spec => []TypeOK
<1>1. TypeInv => TypeOK
  BY DEF TypeInv
<1> QED
  BY <1>1, TypeInit, TypeNext, PTL DEF Spec

\* received_count is the number of different chunks received whatever the
\* environment does, so IsComplete() never speaks too early or too late.
THEOREM CountCorrect == Spec => []CountMatchesMask
<1>1. TypeInv => CountMatchesMask
  BY DEF TypeInv
<1> QED
  BY <1>1, TypeInit, TypeNext, PTL DEF Spec
-----------------------------------------------------------------------------
(* What is written, under all faults: bytes of a source at the place they  *)
(* have in their chunk.                                                    *)

FromSource(b, p) ==
    \E f \in SourceFiles : \E q \in DOMAIN f : f[q] = b /\ q % ChunkSize = p % ChunkSize

InPlace(data) == \A p \in DOMAIN data : FromSource(data[p], p)

\* Reads begin at chunk borders; a genuine frame holds the bytes of one read.
ReadInv  == pc = "sending" => pos % ChunkSize = 0
PlaceInv == \A f \in channel : f.enc.genuine => InPlace(f.enc.plaintext)
OutInv   == \A p \in DOMAIN out : out[p] = 0 \/ FromSource(out[p], p)

BytesInv == TypeInv /\ ReadInv /\ PlaceInv /\ OutInv

\* Whole chunks do not change the place in a chunk.
LEMMA WholeChunks ==
    ASSUME NEW m \in Nat, m % ChunkSize = 0, NEW p \in Nat
    PROVE  (m + p) % ChunkSize = p % ChunkSize
<1>1. ChunkSize \in Nat /\ ChunkSize > 0
  BY ConstantTypes
<1>2. PICK k \in Nat : m = k * ChunkSize
  BY <1>1
<1>3. PICK a \in Nat, r \in 0 .. ChunkSize - 1 : p = a * ChunkSize + r /\ r = p % ChunkSize
  BY <1>1
<1>4. PICK b \in Nat, s \in 0 .. ChunkSize - 1 :
         m + p = b * ChunkSize + s /\ s = (m + p) % ChunkSize
  BY <1>1
<1>5. PICK d \in Int : d = b - (k + a)
  OBVIOUS
<1>6. d * ChunkSize = r - s
  <2>1. d * ChunkSize = b * ChunkSize - (k * ChunkSize + a * ChunkSize)
    BY <1>1, <1>5
  <2> QED
    BY <1>1, <1>2, <1>3, <1>4, <2>1
<1>7. r - s < ChunkSize /\ r - s > -ChunkSize
  BY <1>1
<1>8. d = 0
  <2>1. CASE d >= 1
    <3>1. d * ChunkSize >= ChunkSize
      BY <1>1, <2>1
    <3> QED
      BY <1>1, <1>6, <1>7, <3>1
  <2>2. CASE d <= -1
    <3>1. d * ChunkSize <= -ChunkSize
      BY <1>1, <2>2
    <3> QED
      BY <1>1, <1>6, <1>7, <3>1
  <2> QED
    BY <2>1, <2>2
<1>9. r = s
  BY <1>1, <1>6, <1>8
<1> QED
  BY <1>3, <1>4, <1>9

\* A chunk index times the chunk size is whole chunks.
LEMMA OffsetIsWhole == ASSUME NEW i \in Nat PROVE (i * ChunkSize) % ChunkSize = 0
<1>1. ChunkSize \in Nat /\ ChunkSize > 0 /\ i * ChunkSize \in Nat
  BY ConstantTypes
<1>2. PICK b \in Nat, s \in 0 .. ChunkSize - 1 :
         i * ChunkSize = b * ChunkSize + s /\ s = (i * ChunkSize) % ChunkSize
  BY <1>1
<1>3. PICK d \in Int : d = i - b
  OBVIOUS
<1>4. d * ChunkSize = s
  BY <1>1, <1>2, <1>3
<1>5. d = 0
  <2>1. CASE d >= 1
    <3>1. d * ChunkSize >= ChunkSize
      BY <1>1, <2>1
    <3> QED
      BY <1>1, <1>4, <3>1
  <2>2. CASE d <= -1
    <3>1. d * ChunkSize <= -ChunkSize
      BY <1>1, <2>2
    <3> QED
      BY <1>1, <1>4, <3>1
  <2> QED
    BY <2>1, <2>2
<1> QED
  BY <1>1, <1>2, <1>4, <1>5

\* A read at a chunk border gives bytes in their place.
LEMMA SliceInPlace ==
    ASSUME NEW f \in SourceFiles, NEW at \in Nat, NEW n \in Nat, at % ChunkSize = 0
    PROVE  InPlace(Slice(f, at, n))
<1> DEFINE s == Slice(f, at, n)
<1>1. f \in File /\ f \in Seq(Byte) /\ Len(f) \in Nat
  BY ConstantTypes DEF File
<1>2. s \in Seq(Byte) /\ Len(s) \in Nat /\ \A p \in 1 .. Len(s) : s[p] = f[at + p]
  <2>1. /\ Slice(f, at, n) \in File /\ Len(Slice(f, at, n)) \in 0 .. n
        /\ \A p \in 1 .. Len(Slice(f, at, n)) : Slice(f, at, n)[p] = f[at + p]
    BY <1>1, SliceProperties
  <2> QED
    BY <2>1 DEF File
<1>3. at + Len(s) <= Len(f) \/ Len(s) = 0
  <2> DEFINE last == IF at + n < Len(f) THEN at + n ELSE Len(f)
  <2>1. last \in Nat /\ last <= Len(f)
    BY <1>1
  <2>2. s = SubSeq(f, at + 1, last)
    BY DEF Slice
  <2> HIDE DEF s, last
  <2>3. Len(s) = IF at + 1 <= last THEN last - (at + 1) + 1 ELSE 0
    BY <1>1, <2>1, <2>2
  <2> QED
    BY <2>1, <2>3
<1> HIDE DEF s
<1>4. ASSUME NEW p \in DOMAIN s PROVE FromSource(s[p], p)
  <2>1. p \in 1 .. Len(s) /\ p \in Nat
    BY <1>2
  <2>2. at + p \in DOMAIN f /\ f[at + p] = s[p]
    BY <1>1, <1>2, <1>3, <2>1
  <2>3. (at + p) % ChunkSize = p % ChunkSize
    BY <2>1, WholeChunks
  <2> QED
    BY <2>2, <2>3 DEF FromSource
<1> QED
  BY <1>4 DEF InPlace, s

\* A step that changes neither the output nor the reads and puts no frame on
\* the link.
LEMMA BytesKept ==
    ASSUME BytesInv, TypeInv', ReadInv', out' = out, channel' \subseteq channel
    PROVE  BytesInv'
BY DEF BytesInv, PlaceInv, OutInv, InPlace, FromSource

LEMMA ReadNextBytes == ASSUME BytesInv, ReadNext PROVE BytesInv'
<1>1. TypeInv' /\ pos \in Nat /\ source \in SourceFiles /\ pos % ChunkSize = 0
  BY ReadNextType DEF BytesInv, TypeInv, TypeOK, ReadInv, ReadNext
<1>2. PICK n \in Gcount(pos, ChunkSize, "read") : SendChunk(n) \/ EndOfFile(n)
  BY DEF ReadNext
<1>3. n \in 0 .. ChunkSize /\ n \in Nat /\ ChunkSize \in Nat /\ ChunkSize > 0
  BY <1>1, <1>2, GcountType, ConstantTypes
<1>4. CASE EndOfFile(n)
  BY <1>1, <1>4, BytesKept DEF EndOfFile, ReadNext, ReadInv
<1>5. CASE SendChunk(n)
  <2>1. ReadInv'
    <3>1. CASE n < ChunkSize
      BY <1>5, <3>1 DEF SendChunk, ReadInv
    <3>2. CASE n = ChunkSize
      <4>1. (pos + ChunkSize) % ChunkSize = ChunkSize % ChunkSize
        BY <1>1, <1>3, WholeChunks
      <4>2. ChunkSize % ChunkSize = 0
        BY <1>3
      <4> QED
        BY <1>5, <3>2, <4>1, <4>2 DEF SendChunk, ReadInv
    <3> QED
      BY <1>3, <3>1, <3>2
  <2>2. PICK g : g = ChunkPayload(index, EncryptChunk(SenderSessionKey(session),
                                                      Slice(source, pos, n)))
    OBVIOUS
  <2>3. channel' = channel \cup {g} /\ out' = out
    BY <1>5, <2>2 DEF SendChunk, ReadNext
  <2>4. g.enc.plaintext = Slice(source, pos, n)
    BY <2>2 DEF ChunkPayload, EncryptChunk
  <2>5. InPlace(g.enc.plaintext)
    BY <1>1, <1>3, <2>4, SliceInPlace
  <2> QED
    BY <1>1, <2>1, <2>3, <2>5 DEF BytesInv, PlaceInv, OutInv
<1> QED
  BY <1>2, <1>4, <1>5

LEMMA AcceptOfferBytes == ASSUME BytesInv, AcceptOffer PROVE BytesInv'
<1>1. TypeInv'
  BY AcceptOfferType DEF BytesInv
<1>2. offer.file_size \in Nat
  BY DEF BytesInv, TypeInv, TypeOK, Offer
<1>3. \A p \in DOMAIN NewOutput(out, offer.file_size) : NewOutput(out, offer.file_size)[p] = 0
  <2>1. CASE offer.file_size = 0
    BY <2>1 DEF NewOutput, Truncate
  <2>2. CASE offer.file_size > 0
    BY <1>2, <2>2 DEF NewOutput, Truncate, Overwrite
  <2> QED
    BY <1>2, <2>1, <2>2
<1>4. OutInv'
  BY <1>3 DEF AcceptOffer, OutInv, Truncate
<1> QED
  BY <1>1, <1>4 DEF AcceptOffer, senderVars, BytesInv, ReadInv, PlaceInv

LEMMA StoreChunkBytes == ASSUME BytesInv, NEW f, StoreChunk(f) PROVE BytesInv'
<1>1. TypeInv'
  BY StoreChunkType DEF BytesInv
<1>2. /\ f \in channel /\ f.chunk_index \in Nat /\ f.enc.plaintext \in Seq(Byte)
      /\ Len(f.enc.plaintext) \in Nat /\ InPlace(f.enc.plaintext)
      /\ out \in Seq(Byte) /\ Len(out) \in Nat
  BY ConstantTypes DEF StoreChunk, Deliver, Authentic, BytesInv, TypeInv, TypeOK, Frame, File, PlaceInv
<1>3. PICK n \in Written(f.enc.plaintext) :
         out' = Overwrite(out, ChunkOffset(f.chunk_index), SubSeq(f.enc.plaintext, 1, n))
  BY DEF StoreChunk, DecryptChunk
<1>4. n \in 0 .. Len(f.enc.plaintext)
  BY <1>2, <1>3 DEF Written
<1>5. PICK data : data = SubSeq(f.enc.plaintext, 1, n)
  OBVIOUS
<1>6. Len(data) = n /\ \A p \in 1 .. n : data[p] = f.enc.plaintext[p]
  BY <1>2, <1>4, <1>5
<1>7. PICK o \in Nat : o = ChunkOffset(f.chunk_index) /\ o % ChunkSize = 0
  <2>1. f.chunk_index * ChunkSize \in Nat
    BY <1>2, ConstantTypes
  <2> QED
    BY <1>2, <2>1, OffsetIsWhole DEF ChunkOffset
<1>8. ASSUME NEW p \in DOMAIN out' PROVE out'[p] = 0 \/ FromSource(out'[p], p)
  <2>1. out' = Overwrite(out, o, data)
    BY <1>3, <1>5, <1>7
  <2>2. p \in Nat /\ p >= 1
    BY <1>2, <1>4, <1>6, <2>1 DEF Overwrite
  <2>3. out'[p] = IF p - o \in 1 .. Len(data) THEN data[p - o]
                  ELSE IF p <= Len(out) THEN out[p] ELSE 0
    BY <2>1 DEF Overwrite
  <2>4. CASE p - o \in 1 .. Len(data)
    <3>1. PICK x \in Nat : x = p - o /\ x \in 1 .. n
      BY <1>4, <1>6, <2>4
    <3>2. FromSource(f.enc.plaintext[x], x)
      BY <1>2, <1>4, <3>1 DEF InPlace
    <3>3. p % ChunkSize = x % ChunkSize
      <4>1. p = o + x
        BY <2>2, <3>1
      <4> QED
        BY <1>7, <4>1, WholeChunks
    <3>4. out'[p] = f.enc.plaintext[x]
      BY <1>6, <2>3, <2>4, <3>1
    <3> QED
      BY <3>2, <3>3, <3>4 DEF FromSource
  <2>5. CASE p - o \notin 1 .. Len(data) /\ p <= Len(out)
    <3>1. p \in DOMAIN out /\ out'[p] = out[p]
      BY <1>2, <2>2, <2>3, <2>5
    <3> QED
      BY <3>1 DEF BytesInv, OutInv
  <2>6. CASE p - o \notin 1 .. Len(data) /\ ~(p <= Len(out))
    BY <2>3, <2>6
  <2> QED
    BY <2>4, <2>5, <2>6
<1>9. OutInv'
  BY <1>8 DEF OutInv, FromSource
<1> QED
  BY <1>1, <1>9 DEF StoreChunk, Deliver, senderVars, BytesInv, ReadInv, PlaceInv

LEMMA DamageBytes == ASSUME BytesInv, NEW f, Damage(f) PROVE BytesInv'
<1>1. TypeInv'
  BY DamageType DEF BytesInv
<1>2. PICK d : channel' = (channel \ {f}) \cup
                   {[f EXCEPT !.enc.genuine = FALSE, !.enc.plaintext = d]}
  BY DEF Damage
<1>3. f \in Frame
  BY DEF Damage, BytesInv, TypeInv, TypeOK
<1>4. ~[f EXCEPT !.enc.genuine = FALSE, !.enc.plaintext = d].enc.genuine
  BY <1>3 DEF Frame
<1>5. PlaceInv'
  BY <1>2, <1>4 DEF BytesInv, PlaceInv
<1> QED
  BY <1>1, <1>5 DEF Damage, senderVars, BytesInv, ReadInv, OutInv

LEMMA MisIndexBytes == ASSUME BytesInv, NEW f, MisIndex(f) PROVE BytesInv'
<1>1. TypeInv'
  BY MisIndexType DEF BytesInv
<1>2. PICK i : channel' = (channel \ {f}) \cup {[f EXCEPT !.chunk_index = i]}
  BY DEF MisIndex
<1>3. f \in channel /\ f \in Frame
  BY DEF MisIndex, BytesInv, TypeInv, TypeOK
<1>4. [f EXCEPT !.chunk_index = i].enc = f.enc
  BY <1>3 DEF Frame
<1>5. PlaceInv'
  BY <1>2, <1>3, <1>4 DEF BytesInv, PlaceInv
<1> QED
  BY <1>1, <1>5 DEF MisIndex, senderVars, BytesInv, ReadInv, OutInv

LEMMA BytesNext == BytesInv /\ [Next]_vars => BytesInv'
<1> SUFFICES ASSUME BytesInv, [Next]_vars PROVE BytesInv'
  OBVIOUS
<1>1. TypeInv'
  BY TypeNext DEF BytesInv
<1>2. CASE UNCHANGED <<pc, pos, channel, out>>
  BY <1>1, <1>2, BytesKept DEF BytesInv, ReadInv
<1>3. CASE ReadNext    BY <1>3, ReadNextBytes
<1>4. CASE AcceptOffer BY <1>4, AcceptOfferBytes
<1>5. CASE StartSending
  <2>1. 0 % ChunkSize = 0
    BY ConstantTypes
  <2> QED
    BY <1>1, <1>5, <2>1, BytesKept DEF StartSending, ReadInv
<1>6. CASE OfferSize \/ HashNext \/ SendReturns \/ SendThrows \/ NewSession
  <2>1. /\ channel' \subseteq channel /\ out' = out
        /\ pc' # "sending" \/ (pc' = pc /\ pos' = pos)
    BY <1>6 DEF OfferSize, HashNext, HashRound, OfferHash, SendReturns, SendThrows, NewSession
  <2>2. ReadInv'
    BY <2>1 DEF BytesInv, ReadInv
  <2> QED
    BY <1>1, <2>1, <2>2, BytesKept
<1>7. CASE VerifyIntegrity \/ EditSource
  BY <1>2, <1>7 DEF VerifyIntegrity, EditSource, senderVars
<1>8. ASSUME NEW f \in channel, ReceiveThrows(f) \/ Lose(f) PROVE BytesInv'
  <2>1. channel' \subseteq channel /\ UNCHANGED <<pc, pos, out>>
    BY <1>8 DEF ReceiveThrows, Lose, Deliver, senderVars
  <2> QED
    BY <1>1, <2>1, BytesKept DEF BytesInv, ReadInv
<1>9. ASSUME NEW f \in channel, StoreChunk(f) \/ Damage(f) \/ MisIndex(f) PROVE BytesInv'
  BY <1>9, StoreChunkBytes, DamageBytes, MisIndexBytes
<1>10. CASE UNCHANGED vars
  BY <1>2, <1>10 DEF vars, senderVars
<1> QED
  BY <1>3, <1>4, <1>5, <1>6, <1>7, <1>8, <1>9, <1>10 DEF Next

\* Whatever the link, the disk and other programs do, a byte of the output
\* file is a preallocated zero or a byte that a source file had at the same
\* place of one of its chunks.
THEOREM BytesAreOfSource == Spec => []OnlySourceBytes
<1>1. Init => BytesInv
  BY TypeInit DEF Init, BytesInv, ReadInv, PlaceInv, OutInv
<1>2. BytesInv => OnlySourceBytes
  BY DEF BytesInv, OutInv, OnlySourceBytes, FromSource
<1> QED
  BY <1>1, <1>2, BytesNext, PTL DEF Spec
-----------------------------------------------------------------------------
(* What is accepted, as long as Sha256File meets no read error.            *)

OfVersion(g, k) == \E f \in SourceFiles : BlockOf(g, k) = BlockOf(f, k)

\* What the rounds of Sha256File have read, each of them from one version.
WholeBlocks(g) ==
    \E m \in Nat : Len(g) = m * HashBlock /\ \A k \in 0 .. m - 1 : OfVersion(g, k)

Blockwise(g) == \A k \in 0 .. Len(g) : k * HashBlock <= Len(g) => OfVersion(g, k)

BlockDigest(d) == \E g \in File : d = Sha256(g) /\ Blockwise(g)

DigestInv ==
    /\ pc = "idle" => hashed = <<>>
    /\ pc = "sized" => WholeBlocks(hashed)
    /\ pc \notin {"idle", "sized"} => BlockDigest(offer.sha256)
    /\ live => BlockDigest(expected_sha256)

LEMMA BlocksGrow ==
    ASSUME NEW i \in Nat, NEW j \in Nat, i < j
    PROVE  i * HashBlock + HashBlock <= j * HashBlock
<1>1. HashBlock \in Nat
  BY ConstantTypes
<1>2. PICK d \in Nat : j = i + 1 + d
  BY SMT
<1>3. j * HashBlock = i * HashBlock + HashBlock + d * HashBlock
  BY <1>1, <1>2
<1>4. d * HashBlock >= 0
  BY <1>1
<1> QED
  BY <1>1, <1>3, <1>4

\* A round adds a block of the version that is there at that time, or the end
\* of that version.
LEMMA RoundAddsBlock ==
    ASSUME NEW g \in File, WholeBlocks(g), NEW f \in SourceFiles,
           NEW b \in File, b = Slice(f, Len(g), HashBlock)
    PROVE  /\ Len(b) = HashBlock => WholeBlocks(g \o b)
           /\ Len(b) < HashBlock => Blockwise(g \o b)
<1>1. PICK m \in Nat : Len(g) = m * HashBlock /\ \A k \in 0 .. m - 1 : OfVersion(g, k)
  BY DEF WholeBlocks
<1>2. /\ HashBlock \in Nat /\ HashBlock > 0 /\ m * HashBlock \in Nat
      /\ Len(b) \in Nat /\ Len(g) \in Nat
  BY <1>1, ConstantTypes DEF File
<1>3. Len(b) <= HashBlock
  <2>1. f \in File
    BY ConstantTypes
  <2>2. Len(Slice(f, Len(g), HashBlock)) \in 0 .. HashBlock
    BY <1>2, <2>1, SliceProperties
  <2> QED
    BY <1>2, <2>2
<1>4. PICK c : c = g \o b
  OBVIOUS
<1>5. Len(c) = m * HashBlock + Len(b)
  BY <1>1, <1>4, SliceOfJoined
<1>6. ASSUME NEW k \in 0 .. m  PROVE OfVersion(c, k)
  <2>1. k * HashBlock \in Nat
    BY <1>2
  <2>2. CASE k < m
    <3>1. k \in 0 .. m - 1 /\ k * HashBlock + HashBlock <= Len(g)
      BY <1>1, <2>2, BlocksGrow
    <3>2. BlockOf(c, k) = BlockOf(g, k)
      BY <1>2, <1>4, <2>1, <3>1, SliceOfJoined DEF BlockOf
    <3>3. OfVersion(g, k)
      BY <1>1, <2>2
    <3> QED
      BY <3>2, <3>3 DEF OfVersion
  <2>3. CASE k = m
    <3>1. k * HashBlock = Len(g)
      BY <1>1, <2>3
    <3>2. Slice(g \o b, Len(g), HashBlock) = b
      BY <1>2, <1>3, SliceOfJoined
    <3>3. BlockOf(c, k) = b
      BY <1>4, <3>1, <3>2 DEF BlockOf
    <3>4. BlockOf(f, k) = b
      BY <3>1 DEF BlockOf
    <3> QED
      BY <3>3, <3>4 DEF OfVersion
  <2> QED
    BY <2>2, <2>3
<1>7. ASSUME Len(b) = HashBlock  PROVE WholeBlocks(c)
  <2>1. Len(c) = (m + 1) * HashBlock
    BY <1>2, <1>5, <1>7
  <2>2. m + 1 \in Nat /\ \A k \in 0 .. (m + 1) - 1 : OfVersion(c, k)
    BY <1>6
  <2> QED
    BY <2>1, <2>2 DEF WholeBlocks
<1>8. ASSUME Len(b) < HashBlock  PROVE Blockwise(c)
  <2>1. ASSUME NEW k \in 0 .. Len(c), k * HashBlock <= Len(c)  PROVE k <= m
    <3>1. k \in Nat /\ k * HashBlock \in Nat
      BY <1>2, <1>5, <2>1
    <3>2. ASSUME m < k  PROVE FALSE
      <4>1. m * HashBlock + HashBlock <= k * HashBlock
        BY <3>1, <3>2, BlocksGrow
      <4> QED
        BY <1>2, <1>5, <1>8, <2>1, <3>1, <4>1
    <3> QED
      BY <3>1, <3>2
  <2>2. ASSUME NEW k \in 0 .. Len(c), k * HashBlock <= Len(c)  PROVE OfVersion(c, k)
    <3>1. k \in 0 .. m
      BY <2>1, <2>2
    <3> QED
      BY <1>6, <3>1
  <2> QED
    BY <2>2 DEF Blockwise
<1> QED
  BY <1>4, <1>7, <1>8

\* Without read errors a round reads what is there, at most a block.
LEMMA RoundReads ==
    ASSUME "hash" \notin Faults, TypeInv, NEW n \in Gcount(Len(hashed), HashBlock, "hash")
    PROVE  \E b \in File :
               /\ b = Slice(source, Len(hashed), HashBlock)
               /\ Len(b) = n
               /\ HashedWith(n) = hashed \o b
<1>1. source \in File /\ Len(hashed) \in Nat
  BY ConstantTypes DEF TypeInv, TypeOK, File
<1>2. PICK b : b = Slice(source, Len(hashed), HashBlock)
  OBVIOUS
<1>3. b \in File /\ n = Len(b)
  BY <1>1, <1>2, ConstantTypes, SliceProperties DEF Gcount
<1>4. Slice(source, Len(hashed), n) = b
  BY <1>1, <1>2, <1>3, ConstantTypes, SliceAgain
<1> QED
  BY <1>2, <1>3, <1>4 DEF HashedWith

LEMMA HashNextDigest ==
    ASSUME "hash" \notin Faults, TypeInv, DigestInv, HashNext PROVE DigestInv'
<1>1. PICK n \in Gcount(Len(hashed), HashBlock, "hash") : HashRound(n) \/ OfferHash(n)
  BY DEF HashNext
<1>2. PICK b \in File : /\ b = Slice(source, Len(hashed), HashBlock)
                        /\ Len(b) = n
                        /\ HashedWith(n) = hashed \o b
  BY <1>1, RoundReads
<1>3. hashed \in File /\ source \in SourceFiles /\ offer \in Offer
  BY DEF TypeInv, TypeOK
<1>4. pc = "sized" /\ WholeBlocks(hashed) /\ UNCHANGED <<live, expected_sha256>>
  BY DEF HashNext, DigestInv, receiverVars
<1>5. /\ n = HashBlock => WholeBlocks(HashedWith(n))
      /\ n < HashBlock => Blockwise(HashedWith(n))
  BY <1>2, <1>3, <1>4, RoundAddsBlock
<1>6. CASE HashRound(n)
  BY <1>4, <1>5, <1>6 DEF HashRound, DigestInv, BlockDigest
<1>7. CASE OfferHash(n)
  <2>1. offer'.sha256 = Sha256(HashedWith(n))
    BY <1>3, <1>7 DEF OfferHash, Offer
  <2>2. HashedWith(n) \in File
    BY <1>2, <1>3, SliceOfJoined
  <2>3. BlockDigest(offer'.sha256)
    BY <1>5, <1>7, <2>1, <2>2 DEF OfferHash, BlockDigest
  <2> QED
    BY <1>4, <1>7, <2>3 DEF OfferHash, DigestInv, BlockDigest
<1> QED
  BY <1>1, <1>6, <1>7

LEMMA DigestNext ==
    ASSUME "hash" \notin Faults, TypeInv, DigestInv, [Next]_vars PROVE DigestInv'
<1>1. ASSUME UNCHANGED <<hashed, offer, live, expected_sha256>>,
             pc' = pc \/ {pc, pc'} \cap {"idle", "sized"} = {}
      PROVE  DigestInv'
  BY <1>1 DEF DigestInv, WholeBlocks, BlockDigest, Blockwise, OfVersion
<1>2. CASE OfferSize
  <2>1. WholeBlocks(<<>>)
    <3>1. Len(<<>>) = 0 * HashBlock /\ 0 .. 0 - 1 = {}
      BY ConstantTypes
    <3> QED
      BY <3>1 DEF WholeBlocks
  <2>2. hashed' = <<>> /\ pc' = "sized" /\ UNCHANGED <<live, expected_sha256>>
    BY <1>2 DEF OfferSize, DigestInv, receiverVars
  <2> QED
    BY <2>1, <2>2 DEF DigestInv, BlockDigest
<1>3. CASE HashNext
  BY <1>3, HashNextDigest
<1>4. CASE AcceptOffer
  <2>1. BlockDigest(offer.sha256) /\ expected_sha256' = offer.sha256
    BY <1>4 DEF AcceptOffer, DigestInv
  <2> QED
    BY <1>4, <2>1 DEF AcceptOffer, senderVars, DigestInv, BlockDigest
<1>5. CASE NewSession
  BY <1>5 DEF NewSession, DigestInv
<1>6. CASE StartSending \/ SendReturns \/ SendThrows
  BY <1>1, <1>6 DEF StartSending, SendReturns, SendThrows, receiverVars
<1>7. CASE ReadNext
  BY <1>1, <1>7 DEF ReadNext, SendChunk, EndOfFile, receiverVars
<1>8. CASE VerifyIntegrity \/ EditSource \/ UNCHANGED vars
  BY <1>1, <1>8 DEF VerifyIntegrity, EditSource, vars, senderVars, receiverVars
<1>9. ASSUME NEW f \in channel,
             ReceiveThrows(f) \/ StoreChunk(f) \/ Lose(f) \/ Damage(f) \/ MisIndex(f)
      PROVE  DigestInv'
  BY <1>1, <1>9 DEF ReceiveThrows, StoreChunk, Lose, Damage, MisIndex, senderVars, receiverVars
<1> QED
  BY <1>2, <1>3, <1>4, <1>5, <1>6, <1>7, <1>8, <1>9 DEF Next

\* Where a verdict becomes "intact", the digest of the output was compared.
LEMMA AcceptedDigest ==
    ASSUME "hash" \notin Faults, TypeInv, [Next]_vars, verdict # "intact", verdict' = "intact"
    PROVE  /\ live /\ expected_sha256 = Sha256(out)
           /\ UNCHANGED <<out, source>>
<1>1. VerifyIntegrity
  BY DEF Next, vars, OfferSize, HashNext, StartSending, ReadNext, SendReturns, SendThrows,
     AcceptOffer, EditSource, NewSession, ReceiveThrows, StoreChunk, Lose, Damage, MisIndex
<1>2. PICK digest \in Digests(out) :
         verdict' = IF digest = expected_sha256 THEN "intact" ELSE "corrupted"
  BY <1>1 DEF VerifyIntegrity
<1>3. digest = expected_sha256 /\ live /\ UNCHANGED <<out, source>>
  BY <1>1, <1>2 DEF VerifyIntegrity
<1>4. digest = Sha256(out)
  <2>1. out \in Seq(Byte)
    BY DEF TypeInv, TypeOK, File
  <2>2. SubSeq(out, 1, Len(out)) = out
    BY <2>1, SubSeqFull
  <2> QED
    BY <1>2, <2>2 DEF Digests
<1> QED
  BY <1>3, <1>4

\* As long as Sha256File meets no read error, each block of an accepted file is
\* what a version of the source had there, whatever the link and the disk do and
\* whenever other programs write the source, between two reads of Sha256File,
\* too.
THEOREM IntactBlocks == "hash" \notin Faults => (Spec => IntactIsBlockwise)
<1> SUFFICES ASSUME "hash" \notin Faults PROVE Spec => IntactIsBlockwise
  OBVIOUS
<1> DEFINE Accepted == verdict # "intact" /\ verdict' = "intact" =>
               \A k \in 0 .. Len(out') : k * HashBlock <= Len(out') =>
                   \E f \in SourceFiles : BlockOf(out', k) = BlockOf(f, k)
<1>1. Init => DigestInv
  BY DEF Init, DigestInv
<1>2. TypeInv /\ DigestInv /\ [Next]_vars => DigestInv'
  BY DigestNext
<1>3. ASSUME TypeInv, DigestInv, [Next]_vars, verdict # "intact", verdict' = "intact"
      PROVE  Blockwise(out')
  <2>1. live /\ expected_sha256 = Sha256(out) /\ out' = out
    BY <1>3, AcceptedDigest
  <2>2. PICK g \in File : expected_sha256 = Sha256(g) /\ Blockwise(g)
    BY <1>3, <2>1 DEF DigestInv, BlockDigest
  <2>3. Sha256(out).sha256 = out /\ Sha256(g).sha256 = g
    BY DEF Sha256
  <2>4. out' = g
    BY <2>1, <2>2, <2>3
  <2> QED
    BY <2>2, <2>4
<1>4. TypeInv /\ DigestInv /\ [Next]_vars => [Accepted]_vars
  BY <1>3 DEF Blockwise, OfVersion
<1> QED
  BY <1>1, <1>2, <1>4, TypeInit, TypeNext, PTL DEF Spec, IntactIsBlockwise
-----------------------------------------------------------------------------
(* What is offered, as long as nobody else writes the source.              *)

SourceStable == "hash" \notin Faults /\ "edit" \notin Faults

HashInv ==
    /\ pc = "idle" => hashed = <<>>
    /\ pc = "sized" => Len(hashed) <= Len(source) /\ hashed = SubSeq(source, 1, Len(hashed))
    /\ pc \notin {"idle", "sized"} => offer.sha256 = Sha256(source)

LEMMA HashNextWhole == ASSUME SourceStable, TypeInv, HashInv, HashNext PROVE HashInv'
<1>1. PICK n \in Gcount(Len(hashed), HashBlock, "hash") : HashRound(n) \/ OfferHash(n)
  BY DEF HashNext
<1>2. /\ source \in File /\ source \in Seq(Byte) /\ Len(source) \in Nat /\ Len(hashed) \in Nat
      /\ offer \in Offer /\ HashBlock \in Nat
  BY ConstantTypes DEF TypeInv, TypeOK, File
<1>3. /\ pc = "sized" /\ source' = source
      /\ Len(hashed) <= Len(source) /\ hashed = SubSeq(source, 1, Len(hashed))
  BY DEF HashNext, HashInv
<1>4. n = IF Len(hashed) + HashBlock < Len(source) THEN HashBlock ELSE Len(source) - Len(hashed)
  <2>1. n = Len(Slice(source, Len(hashed), HashBlock))
    BY <1>1 DEF Gcount, SourceStable
  <2> QED
    BY <1>2, <1>3, <2>1, SliceProperties
<1>5. n \in Nat /\ Len(hashed) + n <= Len(source)
      /\ (n < HashBlock => Len(hashed) + n = Len(source))
  BY <1>2, <1>3, <1>4
<1>6. HashedWith(n) = SubSeq(source, 1, Len(hashed) + n)
  <2>1. Len(hashed) \in 0 .. Len(source)
    BY <1>2, <1>3
  <2>2. SubSeq(source, 1, Len(hashed)) \o Slice(source, Len(hashed), n)
           = SubSeq(source, 1, Len(hashed) + n)
    BY <1>2, <1>5, <2>1, ReadOn
  <2> QED
    BY <1>3, <2>2 DEF HashedWith
<1>7. CASE HashRound(n)
  <2>1. Len(SubSeq(source, 1, Len(hashed) + n)) = Len(hashed) + n
    BY <1>2, <1>5
  <2> QED
    BY <1>3, <1>5, <1>6, <1>7, <2>1 DEF HashRound, HashInv
<1>8. CASE OfferHash(n)
  <2>1. HashedWith(n) = source
    BY <1>2, <1>5, <1>6, <1>8, SubSeqFull DEF OfferHash
  <2>2. offer'.sha256 = Sha256(source)
    BY <1>2, <1>8, <2>1 DEF OfferHash, Offer
  <2> QED
    BY <1>3, <1>8, <2>2 DEF OfferHash, HashInv
<1> QED
  BY <1>1, <1>7, <1>8

LEMMA HashNextInv == ASSUME SourceStable, TypeInv, HashInv, [Next]_vars PROVE HashInv'
<1>1. ASSUME UNCHANGED <<source, hashed, offer>>,
             pc' = pc \/ {pc, pc'} \cap {"idle", "sized"} = {}
      PROVE  HashInv'
  BY <1>1 DEF HashInv
<1>2. CASE OfferSize
  <2>1. hashed' = <<>> /\ pc' = "sized" /\ source' = source
    BY <1>2 DEF OfferSize, HashInv
  <2>2. Len(source) \in Nat /\ Len(<<>>) = 0 /\ SubSeq(source, 1, 0) = <<>>
    BY ConstantTypes DEF TypeInv, TypeOK, File
  <2> QED
    BY <2>1, <2>2 DEF HashInv
<1>3. CASE HashNext
  BY <1>3, HashNextWhole
<1>4. CASE NewSession
  BY <1>4 DEF NewSession, HashInv
<1>5. CASE StartSending \/ SendReturns \/ SendThrows
  BY <1>1, <1>5 DEF StartSending, SendReturns, SendThrows
<1>6. CASE ReadNext
  BY <1>1, <1>6 DEF ReadNext, SendChunk, EndOfFile
<1>7. CASE AcceptOffer \/ VerifyIntegrity \/ UNCHANGED vars
  BY <1>1, <1>7 DEF AcceptOffer, VerifyIntegrity, vars, senderVars
<1>8. ~EditSource
  BY DEF EditSource, SourceStable
<1>9. ASSUME NEW f \in channel,
             ReceiveThrows(f) \/ StoreChunk(f) \/ Lose(f) \/ Damage(f) \/ MisIndex(f)
      PROVE  HashInv'
  BY <1>1, <1>9 DEF ReceiveThrows, StoreChunk, Lose, Damage, MisIndex, senderVars
<1> QED
  BY <1>2, <1>3, <1>4, <1>5, <1>6, <1>7, <1>8, <1>9 DEF Next

\* VerifyIntegrity accepts only the file that is being sent.
AcceptsOnlySource == [][verdict # "intact" /\ verdict' = "intact" => out' = source']_vars

ExpectInv == live => pc \notin {"idle", "sized"} /\ expected_sha256 = Sha256(source)

LEMMA ExpectNext ==
    ASSUME SourceStable, TypeInv, HashInv, ExpectInv, [Next]_vars PROVE ExpectInv'
<1>1. ASSUME UNCHANGED <<live, expected_sha256, source>>, pc' \notin {"idle", "sized"} \/ pc' = pc
      PROVE  ExpectInv'
  BY <1>1 DEF ExpectInv
<1>2. CASE OfferSize \/ HashNext
  <2>1. ~live /\ live' = live
    BY <1>2 DEF OfferSize, HashNext, ExpectInv, receiverVars
  <2> QED
    BY <2>1 DEF ExpectInv
<1>3. CASE AcceptOffer
  BY <1>3 DEF AcceptOffer, senderVars, HashInv, ExpectInv
<1>4. CASE NewSession
  BY <1>4 DEF NewSession, ExpectInv
<1>5. CASE StartSending \/ SendReturns \/ SendThrows
  BY <1>1, <1>5 DEF StartSending, SendReturns, SendThrows, receiverVars
<1>6. CASE ReadNext
  BY <1>1, <1>6 DEF ReadNext, SendChunk, EndOfFile, receiverVars
<1>7. CASE VerifyIntegrity \/ UNCHANGED vars
  BY <1>1, <1>7 DEF VerifyIntegrity, vars, senderVars, receiverVars
<1>8. ~EditSource
  BY DEF EditSource, SourceStable
<1>9. ASSUME NEW f \in channel,
              ReceiveThrows(f) \/ StoreChunk(f) \/ Lose(f) \/ Damage(f) \/ MisIndex(f)
       PROVE  ExpectInv'
  BY <1>1, <1>9 DEF ReceiveThrows, StoreChunk, Lose, Damage, MisIndex, senderVars, receiverVars
<1> QED
  BY <1>2, <1>3, <1>4, <1>5, <1>6, <1>7, <1>8, <1>9 DEF Next

\* As long as Sha256File meets no read error and nobody else writes the source,
\* VerifyIntegrity accepts the file that is being sent and no other, whatever
\* the link, the reads of SendFileChunks and the writes of the receiver do.
THEOREM OnlySourceIsAccepted == SourceStable => (Spec => AcceptsOnlySource)
<1> SUFFICES ASSUME SourceStable PROVE Spec => AcceptsOnlySource
  OBVIOUS
<1> DEFINE AInv == HashInv /\ ExpectInv
<1> DEFINE Accepted == verdict # "intact" /\ verdict' = "intact" => out' = source'
<1>1. Init => AInv
  BY DEF Init, HashInv, ExpectInv
<1>2. ASSUME TypeInv, AInv, [Next]_vars  PROVE AInv'
  BY <1>2, HashNextInv, ExpectNext
<1>3. ASSUME TypeInv, AInv, [Next]_vars, verdict # "intact", verdict' = "intact"
      PROVE  out' = source'
  <2>1. live /\ expected_sha256 = Sha256(out) /\ UNCHANGED <<out, source>>
    BY <1>3, AcceptedDigest DEF SourceStable
  <2>2. Sha256(out) = Sha256(source)
    BY <1>3, <2>1 DEF ExpectInv
  <2>3. Sha256(out).sha256 = out /\ Sha256(source).sha256 = source
    BY DEF Sha256
  <2> QED
    BY <2>1, <2>2, <2>3
<1>4. TypeInv /\ AInv /\ [Next]_vars => [Accepted]_vars
  BY <1>3
<1>5. TypeInv /\ AInv /\ [Next]_vars => AInv'
  BY <1>2
<1> HIDE DEF AInv
<1> QED
  BY <1>1, <1>4, <1>5, TypeInit, TypeNext, PTL DEF Spec, AcceptsOnlySource
-----------------------------------------------------------------------------
(* What is sent, as long as the source file is read without errors and     *)
(* nobody else writes it.                                                  *)

\* The hypothesis: the link, the disk of the receiver and the exceptions are
\* as bad as they like.
SourceReadable == "read" \notin Faults /\ SourceStable

\* The position is behind what was read, and at the end of the file as soon as
\* the loop is left.
PositionInv ==
    /\ pc = "sending" => pos <= Len(source)
    /\ pc \in {"last", "sent"} => pos = Len(source)

SentInv == PositionInv /\ HashInv

LEMMA ReadNextSent == ASSUME SourceReadable, TypeInv, SentInv, ReadNext PROVE PositionInv'
<1>1. PICK n \in Gcount(pos, ChunkSize, "read") : SendChunk(n) \/ EndOfFile(n)
  BY DEF ReadNext
<1>2. /\ source \in File /\ Len(source) \in Nat /\ pos \in Nat /\ pos <= Len(source)
      /\ pc = "sending" /\ UNCHANGED <<source, offer>>
  BY ConstantTypes DEF TypeInv, TypeOK, SentInv, PositionInv, ReadNext, File
<1>3. n = IF pos + ChunkSize < Len(source) THEN ChunkSize ELSE Len(source) - pos
  <2>1. n = Len(Slice(source, pos, ChunkSize))
    BY <1>1 DEF Gcount, SourceReadable
  <2> QED
    BY <1>2, <2>1, ConstantTypes, SliceProperties
<1>4. CASE SendChunk(n)
  <2>1. pos' = pos + n /\ pc' = IF n < ChunkSize THEN "last" ELSE "sending"
    BY <1>4 DEF SendChunk
  <2>2. pos + n <= Len(source) /\ (n < ChunkSize => pos + n = Len(source))
    BY <1>2, <1>3, ConstantTypes
  <2> QED
    BY <1>2, <2>1, <2>2 DEF PositionInv
<1>5. CASE EndOfFile(n)
  <2>1. pos' = pos /\ pc' = "sent" /\ n = 0
    BY <1>5 DEF EndOfFile
  <2>2. pos = Len(source)
    BY <1>2, <1>3, <2>1, ConstantTypes
  <2> QED
    BY <1>2, <2>1, <2>2 DEF PositionInv
<1> QED
  BY <1>1, <1>4, <1>5

LEMMA PositionNext ==
    ASSUME SourceReadable, TypeInv, SentInv, [Next]_vars PROVE PositionInv'
<1>1. ASSUME UNCHANGED <<source, pc, pos>>  PROVE PositionInv'
  BY <1>1 DEF SentInv, PositionInv
<1>2. CASE OfferSize \/ HashNext \/ NewSession
  BY <1>2 DEF OfferSize, HashNext, HashRound, OfferHash, NewSession, PositionInv
<1>3. CASE StartSending
  <2>1. Len(source) \in Nat
    BY ConstantTypes DEF TypeInv, TypeOK, File
  <2> QED
    BY <1>3, <2>1 DEF StartSending, PositionInv
<1>4. CASE SendReturns \/ SendThrows
  BY <1>4 DEF SendReturns, SendThrows, SentInv, PositionInv
<1>5. CASE ReadNext  BY <1>5, ReadNextSent
<1>6. CASE AcceptOffer \/ VerifyIntegrity \/ UNCHANGED vars
  BY <1>1, <1>6 DEF AcceptOffer, VerifyIntegrity, vars, senderVars
<1>7. ~EditSource
  BY DEF EditSource, SourceReadable, SourceStable
<1>8. ASSUME NEW f \in channel,
             ReceiveThrows(f) \/ StoreChunk(f) \/ Lose(f) \/ Damage(f) \/ MisIndex(f)
      PROVE  PositionInv'
  BY <1>1, <1>8 DEF ReceiveThrows, StoreChunk, Lose, Damage, MisIndex, senderVars
<1> QED
  BY <1>2, <1>3, <1>4, <1>5, <1>6, <1>7, <1>8 DEF Next

LEMMA SentInvariance == SourceReadable => (Spec => []SentInv)
<1> SUFFICES ASSUME SourceReadable PROVE Spec => []SentInv
  OBVIOUS
<1>1. Init => SentInv
  BY DEF Init, SentInv, PositionInv, HashInv
<1>2. TypeInv /\ SentInv /\ [Next]_vars => SentInv'
  BY PositionNext, HashNextInv DEF SourceReadable, SentInv
<1> QED
  BY <1>1, <1>2, TypeInit, TypeNext, PTL DEF Spec

\* As long as the source is read without errors and not edited, the offer has
\* the digest of all of it and SendFileChunks returns only when it has sent all
\* of it: a read error or an edit is the only way to break what chunking.hpp:21
\* says.
THEOREM AllIsReadOrThrown == SourceReadable => (Spec => []ReadOrThrow)
<1> SUFFICES ASSUME SourceReadable PROVE Spec => []ReadOrThrow
  OBVIOUS
<1>1. SentInv => ReadOrThrow
  BY DEF SentInv, PositionInv, HashInv, ReadOrThrow
<1> QED
  BY <1>1, SentInvariance, PTL
=============================================================================
