-------------------------- MODULE ReassemblyProofs --------------------------
(***************************************************************************)
(* Under the benign faults - loss, repetition, reordering, damage, frames  *)
(* of earlier transfers, a receiver that starts again - a FileReceiver     *)
(* implements Reassembly, for every chunk size, every set of files the     *)
(* index can number, and any number of transfers and frames in flight.     *)
(***************************************************************************)
EXTENDS FileTransferProofs

\* The hypothesis of this module.
Benign ==
    /\ Faults \subseteq BenignFaults
    /\ \A f \in SourceFiles : Indexable(f)

-----------------------------------------------------------------------------
(* The inductive invariant: what the offer, the read position, the         *)
(* receiver's fields and the frames on their way have to do with the       *)
(* source.                                                                 *)

Offered == {"offered", "sending", "last", "sent"}

OfferOf(f) == [file_size    |-> Len(f),
               sha256       |-> Sha256(f),
               total_chunks |-> TotalChunks(Len(f))]

OfferInv ==
    /\ pc = "sized" => offer.file_size = Len(source)
    /\ pc \in Offered => offer = OfferOf(source)

SenderInv == pc = "sending" => pos = index * ChunkSize /\ pos <= Len(source)

ReceiverInv ==
    /\ live => /\ pc \in Offered
               /\ expected_size = Len(source)
               /\ total_chunks = TotalChunks(Len(source))
               /\ expected_sha256 = Sha256(source)
    /\ ~live => Marked = {} /\ verdict = "none"

\* A genuine frame was closed with the key of this or an earlier session; if
\* with that of this session, it holds the chunk of the source it names.
FrameOK(f) ==
    f.enc.genuine =>
       /\ \E s \in 1 .. session : f.enc.key = SenderSessionKey(s)
       /\ f.enc.key = SenderSessionKey(session) =>
             /\ f.chunk_index < TotalChunks(Len(source))
             /\ f.enc.plaintext = ChunkOf(source, f.chunk_index)

FrameInv == \A f \in channel : FrameOK(f)

VerdictInv == verdict # "none" => verdict = "intact" /\ live /\ IsComplete

IInv ==
    /\ TypeInv
    /\ OfferInv
    /\ SenderInv
    /\ ReceiverInv
    /\ FrameInv
    /\ DiskIsAssembly
    /\ VerdictInv
-----------------------------------------------------------------------------
(* Lemmas.                                                                 *)

\* Both ends of a session have the same key.
LEMMA SameKey ==
    ASSUME NEW s
    PROVE  SenderSessionKey(s) = ReceiverSessionKey(s)
<1>1. {SenderKeys(s), ReceiverKeys(s)} = {ReceiverKeys(s), SenderKeys(s)}
  OBVIOUS
<1> QED
  BY <1>1 DEF SenderSessionKey, ReceiverSessionKey, DeriveSessionKey

\* Two sessions have different keys.
LEMMA KeysDiffer ==
    ASSUME NEW s \in Nat, NEW t \in Nat, SenderSessionKey(s) = SenderSessionKey(t)
    PROVE  s = t
<1>1. {SenderKeys(s), ReceiverKeys(s)} = {SenderKeys(t), ReceiverKeys(t)}
  BY DEF SenderSessionKey, DeriveSessionKey
<1>2. SenderKeys(s) = SenderKeys(t) \/ SenderKeys(s) = ReceiverKeys(t)
  BY <1>1
<1>3. SenderKeys(s) # ReceiverKeys(t)
  BY DEF SenderKeys, ReceiverKeys
<1> QED
  BY <1>2, <1>3 DEF SenderKeys

\* Without failing reads Sha256File returns the digest of the whole file.
LEMMA DigestOfAll ==
    ASSUME Benign, NEW f \in File, NEW digest \in Digests(f)
    PROVE  digest = Sha256(f)
<1>1. f \in Seq(Byte) /\ SubSeq(f, 1, Len(f)) = f
  BY SubSeqFull DEF File
<1>2. "hash" \notin Faults
  BY DEF Benign, BenignFaults
<1> QED
  BY <1>1, <1>2 DEF Digests

\* Equal digests are digests of equal contents.
LEMMA DigestInjective ==
    ASSUME NEW f, NEW g, Sha256(f) = Sha256(g)
    PROVE  f = g
<1>1. Sha256(f).sha256 = f /\ Sha256(g).sha256 = g
  BY DEF Sha256
<1> QED
  BY <1>1

LEMMA SourceType ==
    ASSUME Benign, TypeInv
    PROVE  /\ source \in File /\ Len(source) \in Nat
           /\ Indexable(source)
           /\ TotalChunks(Len(source)) \in 0 .. IndexMod - 1
<1>1. source \in File /\ Indexable(source)
  BY ConstantTypes DEF Benign, TypeInv, TypeOK
<1>2. Len(source) \in Nat
  BY <1>1 DEF File
<1> QED
  BY <1>1, <1>2, ChunkIndices

\* A complete receiver has marked every chunk and its file is the source.
LEMMA CompleteIsSource ==
    ASSUME Benign, IInv, live, IsComplete
    PROVE  Marked = 0 .. total_chunks - 1 /\ out = source
<1>1. /\ total_chunks \in Nat
      /\ Marked \subseteq 0 .. total_chunks - 1
      /\ Cardinality(Marked) = total_chunks
  BY DEF IInv, TypeInv, TypeOK, CountMatchesMask, IsComplete, Marked
<1>2. IsFiniteSet(0 .. total_chunks - 1) /\ Cardinality(0 .. total_chunks - 1) = total_chunks
  <2>1. 0 \in Int /\ total_chunks - 1 \in Int /\ total_chunks \in Nat
    BY <1>1
  <2> QED
    BY <2>1, FS_Interval
<1>3. Marked = 0 .. total_chunks - 1
  BY <1>1, <1>2, FS_Subset
<1>4. total_chunks = TotalChunks(Len(source)) /\ out = Assemble(source, Marked)
  BY DEF IInv, ReceiverInv, DiskIsAssembly
<1> QED
  BY <1>3, <1>4, AssembleAll, SourceType DEF IInv
-----------------------------------------------------------------------------
(* One lemma per action.                                                   *)

LEMMA IInvInit == Benign /\ Init => IInv
<1> SUFFICES ASSUME Benign, Init PROVE IInv
  OBVIOUS
<1>1. TypeInv
  BY TypeInit
<1>2. Marked = {}
  BY DEF Init, Marked
<1> QED
  BY <1>1, <1>2 DEF Init, IInv, OfferInv, SenderInv, ReceiverInv, FrameInv,
                    DiskIsAssembly, VerdictInv, Offered

LEMMA OfferSizeInv == ASSUME Benign, IInv, OfferSize PROVE IInv'
<1>1. TypeInv'
  BY OfferSizeType DEF IInv
<1>2. ~live
  BY DEF IInv, ReceiverInv, OfferSize, Offered
<1> QED
  BY <1>1, <1>2 DEF IInv, OfferSize, receiverVars, OfferInv, SenderInv, ReceiverInv,
        FrameInv, FrameOK, DiskIsAssembly, VerdictInv, IsComplete, Offered, Marked,
        TypeInv, TypeOK, Offer

\* Benign faults leave the source and the reads of Sha256File alone.
LEMMA BenignIsStable == Benign => SourceStable
BY DEF Benign, BenignFaults, SourceStable

LEMMA HashNextKeeps == ASSUME Benign, IInv, HashInv, HashNext PROVE IInv'
<1>1. TypeInv'
  BY HashNextType DEF IInv
<1>2. ~live
  BY DEF IInv, ReceiverInv, HashNext, Offered
<1>3. /\ pc = "sized" /\ offer.file_size = Len(source) /\ offer \in Offer
      /\ UNCHANGED <<session, source, channel, receiverVars, out, verdict>>
  BY DEF IInv, OfferInv, HashNext, TypeInv, TypeOK
<1>4. PICK n : HashRound(n) \/ OfferHash(n)
  BY DEF HashNext
<1>5. CASE HashRound(n)
  BY <1>1, <1>2, <1>3, <1>5 DEF HashRound, IInv, receiverVars, OfferInv, SenderInv,
        ReceiverInv, FrameInv, FrameOK, DiskIsAssembly, VerdictInv, IsComplete, Offered, Marked
<1>6. CASE OfferHash(n)
  <2>1. pc' = "offered" /\ offer'.sha256 = Sha256(source)
    BY <1>3, <1>6, BenignIsStable, HashNextWhole DEF OfferHash, HashInv, IInv
  <2>2. offer' = OfferOf(source)
    BY <1>3, <1>6, <2>1 DEF OfferHash, OfferOf, Offer
  <2> QED
    BY <1>1, <1>2, <1>3, <2>1, <2>2 DEF IInv, receiverVars, OfferInv, SenderInv, ReceiverInv,
        FrameInv, FrameOK, DiskIsAssembly, VerdictInv, IsComplete, Offered, Marked, OfferOf
<1> QED
  BY <1>4, <1>5, <1>6

LEMMA StartSendingInv == ASSUME Benign, IInv, StartSending PROVE IInv'
<1>1. TypeInv'
  BY StartSendingType DEF IInv
<1>2. SenderInv'
  BY SourceType, ConstantTypes DEF IInv, SenderInv, StartSending
<1> QED
  BY <1>1, <1>2 DEF IInv, StartSending, receiverVars, OfferInv, OfferOf, ReceiverInv,
        FrameInv, FrameOK, DiskIsAssembly, VerdictInv, IsComplete, Offered, Marked

LEMMA SendReturnsInv == ASSUME Benign, IInv, SendReturns PROVE IInv'
<1>1. TypeInv'
  BY SendReturnsType DEF IInv
<1>2. Offered' = Offered
  BY DEF Offered, SendReturns
<1> QED
  BY <1>1, <1>2 DEF IInv, SendReturns, receiverVars, OfferInv, OfferOf, SenderInv, ReceiverInv,
        FrameInv, FrameOK, DiskIsAssembly, VerdictInv, IsComplete, Offered, Marked

LEMMA SendThrowsInv == ASSUME Benign, IInv, SendThrows PROVE IInv'
<1>1. TypeInv'
  BY SendThrowsType DEF IInv
<1>2. Offered' = Offered
  BY DEF Offered, SendThrows
<1> QED
  BY <1>1, <1>2 DEF IInv, SendThrows, receiverVars, OfferInv, OfferOf, SenderInv, ReceiverInv,
        FrameInv, FrameOK, DiskIsAssembly, VerdictInv, IsComplete, Offered, Marked

LEMMA ReadNextInv == ASSUME Benign, IInv, ReadNext PROVE IInv'
<1>1. TypeInv'
  BY ReadNextType DEF IInv
<1>2. PICK n \in Gcount(pos, ChunkSize, "read") : SendChunk(n) \/ EndOfFile(n)
  BY DEF ReadNext
<1>3. /\ pos \in Nat /\ index \in Nat /\ index \in 0 .. IndexMod - 1
      /\ pos = index * ChunkSize /\ pos <= Len(source)
  BY ConstantTypes DEF IInv, TypeInv, TypeOK, SenderInv, ReadNext
<1>4. "read" \notin Faults
  BY DEF Benign, BenignFaults
<1>5. /\ n = Len(Slice(source, pos, ChunkSize))
      /\ n = IF pos + ChunkSize < Len(source) THEN ChunkSize ELSE Len(source) - pos
  <2>1. n = Len(Slice(source, pos, ChunkSize))
    BY <1>2, <1>4 DEF Gcount
  <2>2. Len(Slice(source, pos, ChunkSize)) =
          IF pos + ChunkSize < Len(source) THEN ChunkSize ELSE Len(source) - pos
    BY <1>3, SourceType, ConstantTypes, SliceProperties DEF IInv
  <2> QED
    BY <2>1, <2>2
<1>6. CASE EndOfFile(n)
  BY <1>1, <1>6 DEF EndOfFile, IInv, ReadNext, receiverVars, OfferInv, OfferOf, SenderInv,
        ReceiverInv, FrameInv, FrameOK, DiskIsAssembly, VerdictInv, IsComplete, Offered, Marked
<1>7. CASE SendChunk(n)
  <2>1. n \in Nat /\ n > 0 /\ n <= ChunkSize /\ pos + n <= Len(source)
    BY <1>3, <1>5, <1>7, SourceType, ConstantTypes DEF SendChunk, IInv
  <2>2. index < TotalChunks(Len(source))
    BY <1>3, <2>1, SourceType, ChunkIndices DEF IInv
  <2>3. Slice(source, pos, n) = ChunkOf(source, index)
    <3>1. (IF pos + n < Len(source) THEN pos + n ELSE Len(source))
            = (IF pos + ChunkSize < Len(source) THEN pos + ChunkSize ELSE Len(source))
      BY <1>3, <1>5, <2>1, SourceType, ConstantTypes DEF IInv
    <3> QED
      BY <1>3, <3>1 DEF Slice, ChunkOf
  <2>4. SenderInv'
    <3>1. CASE n < ChunkSize
      BY <1>7, <3>1 DEF SendChunk, SenderInv
    <3>2. CASE n = ChunkSize
      <4>1. index + 1 \in 0 .. IndexMod - 1
        BY <1>3, <2>2, SourceType, ConstantTypes DEF IInv
      <4>2. (index + 1) % IndexMod = index + 1
        BY <4>1, ConstantTypes
      <4>3. (index + 1) * ChunkSize = index * ChunkSize + ChunkSize
        BY <1>3, ConstantTypes
      <4> QED
        BY <1>3, <1>7, <2>1, <3>2, <4>2, <4>3 DEF SendChunk, SenderInv, ReadNext
    <3> QED
      BY <2>1, <3>1, <3>2, ConstantTypes
  <2>5. FrameInv'
    <3>0. PICK g : g = ChunkPayload(index, EncryptChunk(SenderSessionKey(session),
                                                        Slice(source, pos, n)))
      OBVIOUS
    <3>1. channel' = channel \cup {g} /\ UNCHANGED <<session, source>>
      BY <1>7, <3>0 DEF SendChunk, ReadNext
    <3>2. session \in 1 .. session
      BY DEF IInv, TypeInv, TypeOK
    <3>3. FrameOK(g)'
      BY <2>2, <2>3, <3>0, <3>1, <3>2 DEF FrameOK, ChunkPayload, EncryptChunk
    <3>4. ASSUME NEW f \in channel  PROVE FrameOK(f)'
      BY <3>1 DEF IInv, FrameInv, FrameOK
    <3> QED
      BY <3>1, <3>3, <3>4 DEF FrameInv
  <2> QED
    BY <1>1, <1>7, <2>4, <2>5 DEF SendChunk, IInv, ReadNext, receiverVars, OfferInv, OfferOf,
        ReceiverInv, DiskIsAssembly, VerdictInv, IsComplete, Offered, Marked
<1> QED
  BY <1>2, <1>6, <1>7

LEMMA AcceptOfferInv == ASSUME Benign, IInv, AcceptOffer PROVE IInv'
<1>1. TypeInv'
  BY AcceptOfferType DEF IInv
<1>2. "write" \notin Faults
  BY DEF Benign, BenignFaults
<1>3. pc \in Offered /\ offer = OfferOf(source)
  BY DEF IInv, OfferInv, AcceptOffer, Offered
<1>4. Marked' = {}
  BY DEF AcceptOffer, Marked
<1>5. out' = Assemble(source, {})
  BY <1>2, <1>3, NewOutputIsEmpty, SourceType DEF AcceptOffer, OfferOf, IInv
<1>6. DiskIsAssembly'
  BY <1>4, <1>5 DEF DiskIsAssembly, AcceptOffer
<1>7. ReceiverInv'
  BY <1>3 DEF AcceptOffer, ReceiverInv, OfferOf, senderVars
<1>8. OfferInv' /\ SenderInv' /\ FrameInv' /\ VerdictInv'
  BY DEF AcceptOffer, senderVars, IInv, OfferInv, OfferOf, SenderInv, FrameInv, FrameOK,
        VerdictInv, Offered
<1> QED
  BY <1>1, <1>6, <1>7, <1>8 DEF IInv
LEMMA DeliverKeepsFrames ==
    ASSUME IInv, NEW f, Deliver(f), UNCHANGED <<session, source>>
    PROVE  FrameInv'
BY DEF IInv, FrameInv, FrameOK, Deliver

LEMMA ReceiveThrowsInv == ASSUME Benign, IInv, NEW f, ReceiveThrows(f) PROVE IInv'
<1>1. TypeInv'
  BY ReceiveThrowsType DEF IInv
<1>2. FrameInv'
  BY DeliverKeepsFrames DEF ReceiveThrows
<1> QED
  BY <1>1, <1>2 DEF ReceiveThrows, senderVars, receiverVars, IInv, OfferInv, OfferOf,
        SenderInv, ReceiverInv, DiskIsAssembly, VerdictInv, IsComplete, Marked

\* What an accepted frame does: it fills in the chunk it names.
LEMMA StoreChunkEffect ==
    ASSUME Benign, IInv, NEW f, StoreChunk(f)
    PROVE  /\ f.chunk_index \in 0 .. total_chunks - 1
           /\ Marked' = Marked \cup {f.chunk_index}
           /\ out' = Assemble(source, Marked')
<1>1. f \in channel /\ f \in Frame /\ f.chunk_index \in Nat
  BY ConstantTypes DEF StoreChunk, Deliver, IInv, TypeInv, TypeOK, Frame
<1>2. f.enc.genuine /\ f.enc.key = SenderSessionKey(session)
  BY SameKey DEF StoreChunk, Authentic
<1>3. f.enc.plaintext = ChunkOf(source, f.chunk_index)
  BY <1>1, <1>2 DEF IInv, FrameInv, FrameOK
<1>4. live /\ total_chunks = TotalChunks(Len(source)) /\ total_chunks \in Nat
      /\ f.chunk_index < total_chunks /\ total_chunks' = total_chunks
  BY DEF StoreChunk, IInv, ReceiverInv, TypeInv, TypeOK
<1>5. f.chunk_index \in 0 .. total_chunks - 1
  BY <1>1, <1>4
<1>6. Marked' = Marked \cup {f.chunk_index}
  BY <1>4, <1>5, MarkCounts DEF StoreChunk, IInv
<1>7. f.chunk_index * ChunkSize < Len(source)
  BY <1>1, <1>4, SourceType, ChunkIndices DEF IInv
<1>8. out' = Overwrite(out, ChunkOffset(f.chunk_index), f.enc.plaintext)
  <2>1. "write" \notin Faults
    BY DEF Benign, BenignFaults
  <2>2. f.enc.plaintext \in Seq(Byte)
    BY <1>1 DEF Frame, File
  <2>3. SubSeq(f.enc.plaintext, 1, Len(f.enc.plaintext)) = f.enc.plaintext
    BY <2>2, SubSeqFull
  <2> QED
    BY <2>1, <2>3 DEF StoreChunk, Written, DecryptChunk
<1>9. out = Assemble(source, Marked)
  BY <1>4 DEF IInv, DiskIsAssembly
<1>10. out' = Assemble(source, Marked \cup {f.chunk_index})
  BY <1>1, <1>3, <1>7, <1>8, <1>9, SourceType, WriteChunk DEF IInv
<1> QED
  BY <1>5, <1>6, <1>10

LEMMA StoreChunkInv == ASSUME Benign, IInv, NEW f, StoreChunk(f) PROVE IInv'
<1>1. TypeInv'
  BY StoreChunkType DEF IInv
<1>2. FrameInv'
  BY DeliverKeepsFrames DEF StoreChunk
<1>3. DiskIsAssembly'
  BY StoreChunkEffect DEF DiskIsAssembly, StoreChunk
<1>4. ReceiverInv'
  BY DEF StoreChunk, senderVars, IInv, ReceiverInv
<1>5. VerdictInv'
  <2>1. CASE verdict = "none"
    BY <2>1 DEF VerdictInv, StoreChunk
  <2>2. CASE verdict # "none"
    <3>1. live /\ IsComplete /\ verdict = "intact"
      BY <2>2 DEF IInv, VerdictInv
    <3>2. f.chunk_index \in Marked
      BY <3>1, CompleteIsSource, StoreChunkEffect
    <3>3. received_count' = received_count
      BY <3>2 DEF StoreChunk, Mark, Marked
    <3> QED
      BY <3>1, <3>3 DEF StoreChunk, VerdictInv, IsComplete
  <2> QED
    BY <2>1, <2>2
<1>6. OfferInv' /\ SenderInv'
  BY DEF StoreChunk, senderVars, IInv, OfferInv, OfferOf, SenderInv
<1> QED
  BY <1>1, <1>2, <1>3, <1>4, <1>5, <1>6 DEF IInv

\* The answer of VerifyIntegrity on a complete file.
LEMMA VerifyIsIntact == ASSUME Benign, IInv, VerifyIntegrity PROVE verdict' = "intact"
<1>1. live /\ IsComplete /\ out = source
  BY CompleteIsSource DEF VerifyIntegrity
<1>2. PICK digest \in Digests(out) :
         verdict' = IF digest = expected_sha256 THEN "intact" ELSE "corrupted"
  BY DEF VerifyIntegrity
<1>3. digest = Sha256(source)
  BY <1>1, <1>2, DigestOfAll, SourceType DEF IInv
<1>4. expected_sha256 = Sha256(source)
  BY <1>1 DEF IInv, ReceiverInv
<1> QED
  BY <1>2, <1>3, <1>4

LEMMA VerifyIntegrityInv == ASSUME Benign, IInv, VerifyIntegrity PROVE IInv'
<1>1. TypeInv'
  BY VerifyIntegrityType DEF IInv
<1>2. verdict' = "intact"
  BY VerifyIsIntact
<1> QED
  BY <1>1, <1>2 DEF VerifyIntegrity, senderVars, receiverVars, IInv, OfferInv, OfferOf,
        SenderInv, ReceiverInv, FrameInv, FrameOK, DiskIsAssembly, VerdictInv, IsComplete, Marked

LEMMA LoseInv == ASSUME Benign, IInv, NEW f, Lose(f) PROVE IInv'
<1>1. TypeInv'
  BY LoseType DEF IInv
<1> QED
  BY <1>1 DEF Lose, senderVars, receiverVars, IInv, OfferInv, OfferOf, SenderInv,
        ReceiverInv, FrameInv, FrameOK, DiskIsAssembly, VerdictInv, IsComplete, Marked

LEMMA DamageInv == ASSUME Benign, IInv, NEW f, Damage(f) PROVE IInv'
<1>1. TypeInv'
  BY DamageType DEF IInv
<1>2. FrameInv'
  <2>1. f \in Frame
    BY DEF Damage, IInv, TypeInv, TypeOK
  <2>2. PICK garbled : channel' =
           (channel \ {f}) \cup {[f EXCEPT !.enc.genuine = FALSE, !.enc.plaintext = garbled]}
    BY DEF Damage
  <2>3. PICK g : g = [f EXCEPT !.enc.genuine = FALSE, !.enc.plaintext = garbled]
    OBVIOUS
  <2>4. g.enc.genuine = FALSE
    BY <2>1, <2>3 DEF Frame
  <2> QED
    BY <2>2, <2>3, <2>4 DEF Damage, IInv, FrameInv, FrameOK
<1> QED
  BY <1>1, <1>2 DEF Damage, senderVars, receiverVars, IInv, OfferInv, OfferOf, SenderInv,
        ReceiverInv, DiskIsAssembly, VerdictInv, IsComplete, Marked

LEMMA NewSessionInv == ASSUME Benign, IInv, NewSession PROVE IInv'
<1>1. TypeInv'
  BY NewSessionType DEF IInv
<1>2. Marked' = {}
  BY DEF NewSession, Marked
<1>3. session \in Nat /\ session' = session + 1
  BY DEF NewSession, IInv, TypeInv, TypeOK
<1>4. ASSUME NEW f \in channel  PROVE FrameOK(f)'
  <2>1. SUFFICES ASSUME f.enc.genuine  PROVE FrameOK(f)'
    BY DEF FrameOK
  <2>2. PICK s \in 1 .. session : f.enc.key = SenderSessionKey(s)
    BY <2>1 DEF IInv, FrameInv, FrameOK
  <2>3. s \in 1 .. session' /\ s \in Nat /\ s # session'
    BY <1>3
  <2>4. f.enc.key # SenderSessionKey(session')
    BY <1>3, <2>2, <2>3, KeysDiffer
  <2> QED
    BY <2>2, <2>3, <2>4 DEF FrameOK
<1>5. FrameInv'
  BY <1>4 DEF NewSession, FrameInv
<1> QED
  BY <1>1, <1>2, <1>5 DEF NewSession, IInv, OfferInv, SenderInv, ReceiverInv,
        DiskIsAssembly, VerdictInv, Offered

LEMMA NoHarmfulStep ==
    ASSUME Benign
    PROVE  ~EditSource /\ \A f \in channel : ~MisIndex(f)
BY DEF Benign, BenignFaults, EditSource, MisIndex

LEMMA IInvNext == Benign /\ IInv /\ HashInv /\ [Next]_vars => IInv'
<1> SUFFICES ASSUME Benign, IInv, HashInv, [Next]_vars PROVE IInv'
  OBVIOUS
<1>1. CASE UNCHANGED vars
  <2>1. TypeInv'
    BY <1>1, TypeNext DEF IInv
  <2> QED
    BY <1>1, <2>1 DEF vars, senderVars, receiverVars, IInv, OfferInv, OfferOf, SenderInv,
        ReceiverInv, FrameInv, FrameOK, DiskIsAssembly, VerdictInv, IsComplete, Marked
<1>2. CASE OfferSize       BY <1>2, OfferSizeInv
<1>3. CASE HashNext        BY <1>3, HashNextKeeps
<1>4. CASE StartSending    BY <1>4, StartSendingInv
<1>5. CASE ReadNext        BY <1>5, ReadNextInv
<1>6. CASE AcceptOffer     BY <1>6, AcceptOfferInv
<1>7. CASE VerifyIntegrity BY <1>7, VerifyIntegrityInv
<1>8. CASE NewSession      BY <1>8, NewSessionInv
<1>9. CASE SendThrows      BY <1>9, SendThrowsInv
<1>10. CASE SendReturns    BY <1>10, SendReturnsInv
<1>11. ASSUME NEW f \in channel, ReceiveThrows(f) \/ StoreChunk(f) \/ Lose(f) \/ Damage(f)
      PROVE  IInv'
  BY <1>11, ReceiveThrowsInv, StoreChunkInv, LoseInv, DamageInv
<1> QED
  BY <1>1, <1>2, <1>3, <1>4, <1>5, <1>6, <1>7, <1>8, <1>9, <1>10, <1>11, NoHarmfulStep DEF Next
-----------------------------------------------------------------------------
(* The theorems.                                                           *)

\* It is an invariant together with what Sha256File has read.
LEMMA StrongInvariance == Benign => (Spec => [](IInv /\ HashInv))
<1> SUFFICES ASSUME Benign PROVE Spec => [](IInv /\ HashInv)
  OBVIOUS
<1>1. Init => IInv /\ HashInv
  BY IInvInit DEF Init, HashInv
<1>2. IInv /\ HashInv /\ [Next]_vars => IInv' /\ HashInv'
  BY IInvNext, HashNextInv, BenignIsStable DEF IInv
<1> QED
  BY <1>1, <1>2, PTL DEF Spec

LEMMA Invariance == Benign => (Spec => []IInv)
BY StrongInvariance, PTL

\* While there is a receiver, the output file is the source with zeros for the
\* chunks still missing: under loss, repetition, reordering, damage, frames of
\* earlier transfers and restarts, for files of any size.
THEOREM DiskCorrect == Benign => (Spec => []DiskIsAssembly)
<1>1. IInv => DiskIsAssembly
  BY DEF IInv
<1> QED
  BY <1>1, Invariance, PTL

\* Under the benign faults VerifyIntegrity never reports corruption.
THEOREM NeverReportsCorruption == Benign => (Spec => []NeverCorrupted)
<1>1. IInv => NeverCorrupted
  BY DEF IInv, VerdictInv, NeverCorrupted
<1> QED
  BY <1>1, Invariance, PTL

\* Once a file has been verified, no step changes it before a new receiver
\* takes the path.
THEOREM VerifiedStays == Benign => (Spec => VerifiedIsFinal)
<1> SUFFICES ASSUME Benign PROVE Spec => VerifiedIsFinal
  OBVIOUS
<1> DEFINE Kept == verdict = "intact" /\ verdict' # "none" => out' = out /\ verdict' = "intact"
<1>1. ASSUME IInv, HashInv, [Next]_vars, verdict = "intact", verdict' # "none"
      PROVE  out' = out /\ verdict' = "intact"
  <2>1. verdict' = "intact"
    BY <1>1, IInvNext DEF IInv, VerdictInv
  <2>2. live /\ IsComplete
    BY <1>1 DEF IInv, VerdictInv
  <2>3. ASSUME NEW f \in channel, StoreChunk(f)  PROVE out' = out
    <3>1. Marked' = Marked
      BY <1>1, <2>2, <2>3, CompleteIsSource, StoreChunkEffect
    <3> QED
      BY <1>1, <2>2, <2>3, <3>1, StoreChunkEffect DEF IInv, DiskIsAssembly
  <2>4. ~AcceptOffer
    BY <1>1 DEF AcceptOffer
  <2> QED
    BY <1>1, <2>1, <2>3, <2>4, NoHarmfulStep DEF Next, vars, OfferSize, HashNext, StartSending,
        ReadNext, SendReturns, SendThrows, VerifyIntegrity, NewSession, ReceiveThrows, Lose, Damage
<1>2. IInv /\ HashInv /\ [Next]_vars => [Kept]_vars
  BY <1>1
<1>3. Spec => [](IInv /\ HashInv)
  BY StrongInvariance
<1> QED
  BY <1>2, <1>3, PTL DEF Spec, VerifiedIsFinal
\* Under the benign faults every chunk that is marked as received is on disk:
\* only a harmful fault makes the mask say more than the file shows.
THEOREM MarkedAreOnDisk == Benign => (Spec => []MarkedIsOnDisk)
<1> SUFFICES ASSUME Benign PROVE Spec => []MarkedIsOnDisk
  OBVIOUS
<1>1. ASSUME IInv, live, NEW i \in Marked  PROVE ChunkOf(out, i) = ChunkOf(source, i)
  <2>1. /\ out = Assemble(source, Marked) /\ total_chunks = TotalChunks(Len(source))
        /\ received_mask \in [0 .. total_chunks - 1 -> BOOLEAN]
    BY <1>1 DEF IInv, DiskIsAssembly, ReceiverInv, TypeInv, TypeOK
  <2>2. source \in File /\ Indexable(source) /\ TotalChunks(Len(source)) \in Nat
    BY <1>1, SourceType DEF IInv
  <2>3. i \in Nat /\ i < TotalChunks(Len(source))
    BY <2>1, <2>2 DEF Marked
  <2>4. i * ChunkSize < Len(source)
    BY <2>2, <2>3, ChunkIndices
  <2> QED
    BY <2>1, <2>2, <2>3, <2>4, AssembledChunk
<1>2. IInv => MarkedIsOnDisk
  BY <1>1 DEF MarkedIsOnDisk
<1>3. Spec => []IInv
  BY Invariance
<1> QED
  BY <1>2, <1>3, PTL
-----------------------------------------------------------------------------
(* The refinement.                                                         *)

LEMMA RInit == Benign /\ Init => R!Init
<1> SUFFICES ASSUME Benign, Init PROVE R!Init
  OBVIOUS
<1> QED
  BY DEF Init, R!Init, R!Idle, Marked

\* A step that leaves the receiver, its file and the source alone stutters.
LEMMA RStutter ==
    ASSUME UNCHANGED <<source, receiverVars, out, verdict>>
    PROVE  UNCHANGED R!rvars
BY DEF receiverVars, R!rvars, Marked

LEMMA RAcceptOffer == ASSUME Benign, IInv, AcceptOffer PROVE R!Start
<1>1. IInv'
  BY AcceptOfferInv
<1>2. live' /\ Marked' = {} /\ verdict' = "none" /\ source' = source
  BY DEF AcceptOffer, Marked
<1>3. source \in SourceFiles
  BY DEF IInv, TypeInv, TypeOK
<1>4. out' = Assemble(source, {})
  BY <1>1, <1>2 DEF IInv, DiskIsAssembly
<1> QED
  BY <1>2, <1>3, <1>4 DEF R!Start, R!Assemble, R!InChunk, Assemble, InChunk

LEMMA RStoreChunk ==
    ASSUME Benign, IInv, NEW f, StoreChunk(f)
    PROVE  R!Take(f.chunk_index) /\ f.chunk_index \in R!AllChunks
<1>1. /\ live /\ live' /\ source' = source /\ verdict' = verdict
      /\ total_chunks = TotalChunks(Len(source))
  BY DEF StoreChunk, IInv, ReceiverInv
<1>2. f.chunk_index \in R!AllChunks
  BY <1>1, StoreChunkEffect DEF R!AllChunks, R!TotalChunks, TotalChunks
<1> QED
  BY <1>1, <1>2, StoreChunkEffect DEF R!Take, R!Assemble, R!InChunk, Assemble, InChunk

LEMMA RVerifyIntegrity == ASSUME Benign, IInv, VerifyIntegrity PROVE R!Confirm
<1>1. live /\ IsComplete /\ UNCHANGED <<live, source, out, received_mask>>
  BY DEF VerifyIntegrity, receiverVars
<1>2. /\ Marked = 0 .. TotalChunks(Len(source)) - 1 /\ out = source
      /\ Marked' = Marked
  BY <1>1, CompleteIsSource DEF IInv, ReceiverInv, Marked
<1>3. verdict' = "intact"
  BY VerifyIsIntact
<1> QED
  BY <1>1, <1>2, <1>3 DEF R!Confirm, R!AllChunks, R!TotalChunks, TotalChunks

LEMMA RNewSession == ASSUME NewSession PROVE R!Finish
BY DEF NewSession, R!Finish, R!Idle, Marked

LEMMA RNext == Benign /\ IInv /\ [Next]_vars => [R!Next]_(R!rvars)
<1> SUFFICES ASSUME Benign, IInv, [Next]_vars PROVE [R!Next]_(R!rvars)
  OBVIOUS
<1>1. CASE UNCHANGED <<source, receiverVars, out, verdict>>
  BY <1>1, RStutter
<1>2. CASE AcceptOffer      BY <1>2, RAcceptOffer DEF R!Next
<1>3. CASE VerifyIntegrity  BY <1>3, RVerifyIntegrity DEF R!Next
<1>4. CASE NewSession       BY <1>4, RNewSession DEF R!Next
<1>5. ASSUME NEW f \in channel, StoreChunk(f)  PROVE R!Next
  BY <1>5, RStoreChunk DEF R!Next
<1> QED
  BY <1>1, <1>2, <1>3, <1>4, <1>5, NoHarmfulStep DEF Next, vars, OfferSize, HashNext,
     StartSending, ReadNext, SendReturns, SendThrows, ReceiveThrows, Lose, Damage

\* Under the benign faults the receiver implements Reassembly: its file and
\* its mask always show one set of chunks, which grows one by one, and only a
\* complete set is confirmed.
THEOREM Implements == Benign => (Spec => Reassembles)
<1> SUFFICES ASSUME Benign PROVE Spec => Reassembles
  OBVIOUS
<1>1. Init => R!Init
  BY RInit
<1>2. IInv /\ [Next]_vars => [R!Next]_(R!rvars)
  BY RNext
<1>3. Spec => []IInv
  BY Invariance
<1> QED
  BY <1>1, <1>2, <1>3, PTL DEF Spec, Reassembles, R!Spec
=============================================================================
