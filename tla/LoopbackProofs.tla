--------------------------- MODULE LoopbackProofs ---------------------------
(***************************************************************************)
(* A transfer over LoopbackTransports, for every chunk size, every set of  *)
(* files the index can number and any number of transfers: it is a         *)
(* behaviour of FileTransfer under the benign faults, and a SendFileChunks *)
(* that returns has had every chunk stored.                                *)
(***************************************************************************)
EXTENDS LoopbackTransfer, ReassemblyProofs

\* The hypothesis of this module.
AllIndexable == \A f \in SourceFiles : Indexable(f)

LEMMA LoopbackIsBenign == AllIndexable => Benign
BY LoopbackAssumption DEF AllIndexable, Benign, BenignFaults

-----------------------------------------------------------------------------
(* The refinement.                                                         *)

LEMMA StepIsAStep == [LoopNext]_loopVars => [Next]_vars
<1> SUFFICES ASSUME [LoopNext]_loopVars PROVE [Next]_vars
  OBVIOUS
<1>1. CASE UNCHANGED loopVars
  BY <1>1 DEF loopVars
<1>2. CASE Drive(OfferSize) \/ Drive(HashNext) \/ Drive(AcceptOffer) \/ Drive(VerifyIntegrity)
  BY <1>2 DEF Drive, Next
<1>3. CASE ConnectPeers \/ Connect \/ SetOnDataReceived
  BY <1>3 DEF ConnectPeers, Connect, SetOnDataReceived, loopVars
<1>4. CASE NewTransports \/ StartCall
  BY <1>4 DEF NewTransports, StartCall, Next
<1>5. CASE Read \/ Return \/ EncryptThrows \/ Unwind
  BY <1>5 DEF Read, Return, EncryptThrows, Unwind, InSender, Next
<1>6. CASE Send
  BY <1>6 DEF Send, Drop, Delivery, Next
<1> QED
  BY <1>1, <1>2, <1>3, <1>4, <1>5, <1>6 DEF LoopNext

\* A loopback is one of the links that FileTransfer allows.
LEMMA LoopbackIsALink == LoopSpec => Spec
<1>1. LoopInit => Init
  BY DEF LoopInit
<1> QED
  BY <1>1, StepIsAStep, PTL DEF LoopSpec, Spec

\* What holds of FileTransfer holds of a transfer over a loopback.
LEMMA LoopbackInvariance == AllIndexable => (LoopSpec => []IInv)
<1> SUFFICES ASSUME AllIndexable PROVE LoopSpec => []IInv
  OBVIOUS
<1>1. Spec => []IInv
  BY Invariance, LoopbackIsBenign
<1> QED
  BY <1>1, LoopbackIsALink, PTL
-----------------------------------------------------------------------------
(* The inductive invariant: where a call stands, and how far the receiver  *)
(* is by then.                                                             *)

\* One frame at a time, while it is in Send.
StackInv ==
    /\ call \in {"none", "send", "throw"}
    /\ call # "none" => InCall
    /\ call # "send" => channel = {}
    /\ call = "send" => \E f \in channel : channel = {f} /\ f.chunk_index = index - 1

\* A call was heard if and only if both transports were in place as it began.
HeardInv ==
    /\ on_data => live
    /\ heard => peer /\ on_data
    /\ InCall /\ peer /\ on_data => heard

\* The receiver has what the call has sent so far, perhaps from an earlier
\* call even more.
ProgressInv ==
    /\ pc = "last" => index = TotalChunks(Len(source))
    /\ heard /\ InCall /\ call = "none" => index <= received_count
    /\ heard /\ call = "send" => index - 1 <= received_count
    /\ heard /\ pc = "sent" => IsComplete

LInv == StackInv /\ HeardInv /\ ProgressInv /\ ReceivesPrefix

LEMMA LInvInit == LoopInit => LInv
BY DEF LoopInit, Init, LInv, StackInv, HeardInv, ProgressInv, InCall, ReceivesPrefix, Marked

LEMMA Counters ==
    ASSUME AllIndexable, IInv
    PROVE  /\ index \in Nat /\ received_count \in Nat
           /\ live => received_count <= TotalChunks(Len(source))
           /\ live => total_chunks = TotalChunks(Len(source))
           /\ TotalChunks(Len(source)) \in Nat
<1>1. TotalChunks(Len(source)) \in Nat
  BY LoopbackIsBenign, SourceType DEF IInv
<1> QED
  BY <1>1, ConstantTypes DEF IInv, TypeInv, TypeOK, ReceiverInv

\* A round of the loop: at the end of the file all chunks have been sent;
\* otherwise one more is, and a short one is the last.
LEMMA ReadEffect ==
    ASSUME AllIndexable, IInv, ReadNext
    PROVE  \/ /\ pc' = "sent" /\ channel' = channel /\ index' = index
              /\ TotalChunks(Len(source)) <= index
           \/ /\ pc' \in {"sending", "last"} /\ index' = index + 1
              /\ pc' = "last" => index' = TotalChunks(Len(source))
              /\ \E g : channel' = channel \cup {g} /\ g.chunk_index = index
<1>1. PICK n \in Gcount(pos, ChunkSize, "read") : SendChunk(n) \/ EndOfFile(n)
  BY DEF ReadNext
<1>2. /\ pos \in Nat /\ index \in Nat /\ index \in 0 .. IndexMod - 1
      /\ pos = index * ChunkSize /\ pos <= Len(source)
  BY ConstantTypes DEF IInv, TypeInv, TypeOK, SenderInv, ReadNext
<1>3. /\ source \in File /\ Len(source) \in Nat /\ Indexable(source)
      /\ TotalChunks(Len(source)) \in 0 .. IndexMod - 1
  BY LoopbackIsBenign, SourceType DEF IInv
<1>4. \A i \in Nat : i < TotalChunks(Len(source)) <=> i * ChunkSize < Len(source)
  BY <1>3, ChunkIndices
<1>5. n = IF pos + ChunkSize < Len(source) THEN ChunkSize ELSE Len(source) - pos
  <2>1. "read" \notin Faults
    BY LoopbackAssumption
  <2>2. n = Len(Slice(source, pos, ChunkSize))
    BY <1>1, <2>1 DEF Gcount
  <2> QED
    BY <1>2, <1>3, <2>2, ConstantTypes, SliceProperties
<1>6. CASE EndOfFile(n)
  <2>1. pos = Len(source)
    BY <1>2, <1>3, <1>5, <1>6, ConstantTypes DEF EndOfFile
  <2> QED
    BY <1>2, <1>3, <1>4, <1>6, <2>1, ConstantTypes DEF EndOfFile
<1>7. CASE SendChunk(n)
  <2>1. pos < Len(source) /\ index < TotalChunks(Len(source))
    <3>1. pos \in Nat /\ n > 0
      BY <1>2, <1>7 DEF SendChunk
    <3>2. pos < Len(source)
      BY <1>3, <1>5, <3>1, ConstantTypes
    <3> QED
      BY <1>2, <1>4, <3>2
  <2>2. (index + 1) % IndexMod = index + 1
    BY <1>2, <1>3, <2>1, ConstantTypes
  <2>3. ASSUME n < ChunkSize PROVE index + 1 = TotalChunks(Len(source))
    <3>1. (index + 1) * ChunkSize = index * ChunkSize + ChunkSize
      BY <1>2, ConstantTypes
    <3>2. Len(source) <= pos + ChunkSize
      BY <1>2, <1>3, <1>5, <2>3, ConstantTypes
    <3>3. ~((index + 1) * ChunkSize < Len(source))
      <4>1. PICK k \in Nat : k = index * ChunkSize
        BY <1>2
      <4> QED
        BY <1>2, <1>3, <3>1, <3>2, <4>1, ConstantTypes
    <3>4. ~(index + 1 < TotalChunks(Len(source)))
      BY <1>2, <1>4, <3>3
    <3> QED
      BY <1>2, <1>3, <2>1, <3>4
  <2>4. \E g : channel' = channel \cup {g} /\ g.chunk_index = index
    <3>1. PICK g : g = ChunkPayload(index, EncryptChunk(SenderSessionKey(session),
                                                        Slice(source, pos, n)))
      OBVIOUS
    <3>2. channel' = channel \cup {g}
      BY <1>7, <3>1 DEF SendChunk
    <3> QED
      BY <3>1, <3>2 DEF ChunkPayload
  <2> QED
    BY <1>7, <2>2, <2>3, <2>4 DEF SendChunk
<1> QED
  BY <1>1, <1>6, <1>7

-----------------------------------------------------------------------------
(* One lemma per action, or per group of actions that act alike.           *)

LEMMA OfferLInv ==
    ASSUME LInv, Drive(OfferSize) \/ Drive(HashNext) \/ Drive(VerifyIntegrity)
    PROVE  LInv'
<1>1. /\ ~InCall /\ ~InCall' /\ (pc' = "sent" => pc = "sent")
      /\ UNCHANGED <<source, index, channel, receiverVars, peer, on_data, call, heard>>
      /\ pc' # "last"
  BY DEF Drive, InCall, OfferSize, HashNext, HashRound, OfferHash, VerifyIntegrity, receiverVars, senderVars
<1> QED
  BY <1>1 DEF LInv, StackInv, HeardInv, ProgressInv, ReceivesPrefix, Marked, IsComplete,
     receiverVars

LEMMA AcceptLInv == ASSUME LInv, Drive(AcceptOffer) PROVE LInv'
<1>1. ~live /\ ~heard /\ ~on_data
  BY LoopbackAssumption DEF Drive, AcceptOffer, LInv, HeardInv
<1>2. ReceivesPrefix'
  BY DEF Drive, AcceptOffer, ReceivesPrefix, Marked
<1> QED
  BY <1>1, <1>2 DEF LInv, StackInv, HeardInv, ProgressInv, InCall, Drive, AcceptOffer, senderVars

LEMMA WiringLInv == ASSUME LInv, ConnectPeers \/ Connect \/ SetOnDataReceived PROVE LInv'
BY DEF LInv, StackInv, HeardInv, ProgressInv, ReceivesPrefix, Marked, InCall, IsComplete,
       ConnectPeers, Connect, SetOnDataReceived, loopVars, vars, receiverVars, senderVars

LEMMA NewTransportsLInv == ASSUME LInv, NewTransports PROVE LInv'
<1>1. call = "none" /\ channel = {}
  BY DEF NewTransports, LInv, StackInv
<1>2. ReceivesPrefix'
  BY DEF NewTransports, NewSession, ReceivesPrefix, Marked
<1> QED
  BY <1>1, <1>2 DEF NewTransports, NewSession, LInv, StackInv, HeardInv, ProgressInv, InCall

LEMMA StartCallLInv == ASSUME AllIndexable, IInv, LInv, StartCall PROVE LInv'
<1>1. call = "none" /\ channel = {}
  BY DEF StartCall, LInv, StackInv
<1>2. 0 <= received_count
  BY Counters
<1> QED
  BY <1>1, <1>2 DEF StartCall, StartSending, LInv, StackInv, HeardInv, ProgressInv, InCall,
     ReceivesPrefix, Marked, receiverVars

LEMMA ReadLInv == ASSUME AllIndexable, IInv, LInv, Read PROVE LInv'
<1>1. /\ ReadNext /\ pc = "sending" /\ call = "none" /\ channel = {}
      /\ UNCHANGED <<source, receiverVars, peer, on_data, heard>>
  BY DEF Read, InSender, ReadNext, LInv, StackInv
<1>2. HeardInv' /\ ReceivesPrefix'
  BY <1>1, ReadEffect DEF LInv, HeardInv, ReceivesPrefix, Marked, receiverVars, InCall
<1>3. /\ heard => index <= received_count /\ live
      /\ index \in Nat /\ received_count \in Nat
  BY <1>1, Counters DEF LInv, ProgressInv, HeardInv, InCall
<1>4. CASE pc' = "sent" /\ channel' = channel /\ index' = index
              /\ TotalChunks(Len(source)) <= index
  <2>1. call' = "none"
    BY <1>1, <1>4 DEF Read, InSender
  <2>2. heard => received_count = total_chunks
    BY <1>3, <1>4, Counters
  <2> QED
    BY <1>1, <1>2, <1>4, <2>1, <2>2 DEF LInv, StackInv, ProgressInv, InCall, IsComplete,
       receiverVars
<1>5. CASE /\ pc' \in {"sending", "last"} /\ index' = index + 1
           /\ pc' = "last" => index' = TotalChunks(Len(source))
           /\ \E g : channel' = channel \cup {g} /\ g.chunk_index = index
  <2>1. PICK g : channel' = {g} /\ g.chunk_index = index
    BY <1>1, <1>5
  <2>2. call' = "send"
    BY <2>1 DEF Read, InSender
  <2>3. index' - 1 = index
    BY <1>3, <1>5
  <2> QED
    BY <1>1, <1>2, <1>3, <1>5, <2>1, <2>2, <2>3 DEF LInv, StackInv, ProgressInv, InCall,
       receiverVars
<1> QED
  BY <1>1, <1>4, <1>5, ReadEffect

LEMMA ReturnLInv == ASSUME AllIndexable, IInv, LInv, Return PROVE LInv'
<1>1. heard => live /\ TotalChunks(Len(source)) <= received_count
  BY DEF Return, InSender, SendReturns, LInv, HeardInv, ProgressInv, InCall
<1>2. heard => IsComplete
  BY <1>1, Counters DEF IsComplete
<1> QED
  BY <1>2 DEF Return, InSender, SendReturns, LInv, StackInv, HeardInv, ProgressInv, InCall,
     ReceivesPrefix, Marked, IsComplete, receiverVars

LEMMA ThrowLInv == ASSUME LInv, EncryptThrows \/ Unwind PROVE LInv'
<1>1. channel = {} /\ call' = "none" /\ SendThrows /\ UNCHANGED <<peer, on_data, heard>>
  BY DEF EncryptThrows, Unwind, InSender, LInv, StackInv
<1> QED
  BY <1>1 DEF SendThrows, LInv, StackInv, HeardInv, ProgressInv, InCall, ReceivesPrefix, Marked,
     receiverVars

\* A frame that has been handled is gone, and was the only one.
LEMMA Handled ==
    ASSUME LInv, call = "send", NEW f \in channel, Deliver(f) \/ Lose(f)
    PROVE  channel' = {} /\ f.chunk_index = index - 1
BY LoopbackAssumption DEF LInv, StackInv, Deliver, Lose

LEMMA DropLInv ==
    ASSUME LInv, NEW f \in channel, Drop(f), UNCHANGED <<peer, on_data, heard>>
    PROVE  LInv'
<1>1. channel' = {} /\ call' = "none" /\ ~heard
  BY Handled DEF Drop, LInv, HeardInv
<1> QED
  BY <1>1 DEF Drop, Lose, LInv, StackInv, HeardInv, ProgressInv, InCall, ReceivesPrefix, Marked,
     receiverVars, senderVars

LEMMA CallbackThrowsLInv ==
    ASSUME LInv, NEW f \in channel, call = "send", ReceiveThrows(f), call' = "throw",
           UNCHANGED <<peer, on_data, heard>>
    PROVE  LInv'
<1>1. channel' = {}
  BY Handled DEF ReceiveThrows
<1> QED
  BY <1>1 DEF ReceiveThrows, LInv, StackInv, HeardInv, ProgressInv, InCall, ReceivesPrefix,
     Marked, IsComplete, receiverVars, senderVars

\* The chunk that is stored is the one behind the prefix, or one within it that
\* an earlier call has sent.
LEMMA CallbackReturnsLInv ==
    ASSUME AllIndexable, IInv, LInv, NEW f \in channel, call = "send", peer, on_data,
           StoreChunk(f), call' = "none", UNCHANGED <<peer, on_data, heard>>
    PROVE  LInv'
<1>1. channel' = {} /\ f.chunk_index = index - 1
  BY Handled DEF StoreChunk
<1>2. InCall /\ heard /\ index - 1 <= received_count
  BY DEF LInv, StackInv, HeardInv, ProgressInv
<1>3. /\ f.chunk_index \in 0 .. total_chunks - 1
      /\ Marked' = Marked \cup {f.chunk_index}
  BY LoopbackIsBenign, StoreChunkEffect
<1>4. /\ index \in Nat /\ received_count \in Nat /\ total_chunks \in Nat
      /\ Marked = 0 .. received_count - 1
  BY Counters DEF LInv, ReceivesPrefix, IInv, TypeInv, TypeOK
<1>5. received_mask[f.chunk_index] <=> f.chunk_index \in Marked
  BY <1>3 DEF Marked, IInv, TypeInv, TypeOK
<1>6. received_count' = IF f.chunk_index \in Marked THEN received_count ELSE received_count + 1
  BY <1>5 DEF StoreChunk, Mark
<1>7. Marked' = 0 .. received_count' - 1 /\ index <= received_count'
  <2>1. CASE index - 1 < received_count
    BY <1>1, <1>3, <1>4, <1>6, <2>1
  <2>2. CASE index - 1 = received_count
    BY <1>1, <1>3, <1>4, <1>6, <2>2
  <2> QED
    BY <1>2, <1>4, <2>1, <2>2
<1> QED
  BY <1>1, <1>2, <1>7 DEF StoreChunk, LInv, StackInv, HeardInv, ProgressInv, ReceivesPrefix,
     InCall, senderVars
-----------------------------------------------------------------------------
LEMMA LInvNext == AllIndexable /\ IInv /\ LInv /\ [LoopNext]_loopVars => LInv'
<1> SUFFICES ASSUME AllIndexable, IInv, LInv, [LoopNext]_loopVars PROVE LInv'
  OBVIOUS
<1>1. CASE UNCHANGED loopVars
  BY <1>1 DEF loopVars, vars, receiverVars, senderVars, LInv, StackInv, HeardInv, ProgressInv,
     ReceivesPrefix, Marked, InCall, IsComplete
<1>2. CASE Drive(OfferSize) \/ Drive(HashNext) \/ Drive(VerifyIntegrity)
  BY <1>2, OfferLInv
<1>3. CASE Drive(AcceptOffer)  BY <1>3, AcceptLInv
<1>4. CASE ConnectPeers \/ Connect \/ SetOnDataReceived  BY <1>4, WiringLInv
<1>5. CASE NewTransports  BY <1>5, NewTransportsLInv
<1>6. CASE StartCall      BY <1>6, StartCallLInv
<1>7. CASE Read           BY <1>7, ReadLInv
<1>8. CASE Return         BY <1>8, ReturnLInv
<1>9. CASE EncryptThrows \/ Unwind  BY <1>9, ThrowLInv
<1>10. CASE Send
  <2>1. PICK f \in channel : (Drop(f) \/ Delivery(f)) /\ UNCHANGED <<peer, on_data, heard>>
    BY <1>10 DEF Send
  <2>2. CASE Drop(f)      BY <2>1, <2>2, DropLInv
  <2>3. CASE Delivery(f)  BY <2>1, <2>3, CallbackReturnsLInv, CallbackThrowsLInv DEF Delivery
  <2> QED
    BY <2>1, <2>2, <2>3
<1> QED
  BY <1>1, <1>2, <1>3, <1>4, <1>5, <1>6, <1>7, <1>8, <1>9, <1>10 DEF LoopNext

LEMMA LoopInvariance == AllIndexable => (LoopSpec => [](IInv /\ LInv))
<1> SUFFICES ASSUME AllIndexable PROVE LoopSpec => [](IInv /\ LInv)
  OBVIOUS
<1>1. LoopInit => LInv
  BY LInvInit
<1>2. IInv /\ LInv /\ [LoopNext]_loopVars => LInv'
  BY LInvNext
<1>3. LoopSpec => []IInv
  BY LoopbackInvariance
<1> QED
  BY <1>1, <1>2, <1>3, PTL DEF LoopSpec

\* What the receiver has is a prefix of the file at all times.
THEOREM PrefixReceived == AllIndexable => (LoopSpec => []ReceivesPrefix)
<1>1. IInv /\ LInv => ReceivesPrefix
  BY DEF LInv
<1> QED
  BY <1>1, LoopInvariance, PTL

\* A SendFileChunks that was heard and returns has had every chunk stored.
THEOREM ReturnedIsStored == AllIndexable => (LoopSpec => []ReturnMeansStored)
<1> SUFFICES ASSUME AllIndexable PROVE LoopSpec => []ReturnMeansStored
  OBVIOUS
<1>1. ASSUME IInv, LInv PROVE ReturnMeansStored
  <2>1. pc = "sent" /\ heard => live /\ IsComplete
    BY <1>1 DEF LInv, HeardInv, ProgressInv
  <2> QED
    BY <1>1, <2>1, LoopbackIsBenign, CompleteIsSource DEF ReturnMeansStored
<1> QED
  BY <1>1, LoopInvariance, PTL

\* A transfer over a loopback implements Reassembly: what the receiver shows is
\* a set of chunks that grows one by one, and only a complete one is confirmed.
THEOREM LoopbackReassembles == AllIndexable => (LoopSpec => Reassembles)
<1> SUFFICES ASSUME AllIndexable PROVE LoopSpec => Reassembles
  OBVIOUS
<1>1. Spec => Reassembles
  BY Implements, LoopbackIsBenign
<1> QED
  BY <1>1, LoopbackIsALink, PTL
-----------------------------------------------------------------------------
(* How long a call takes.                                                  *)

\* The types, and the position within the file, need no hypothesis: the source
\* of a loopback is read without errors.
LEMMA LoopbackPosition == LoopSpec => [](TypeInv /\ SentInv)
<1>1. SourceReadable
  BY LoopbackAssumption DEF SourceReadable, SourceStable
<1>2. Spec => []SentInv
  BY <1>1, SentInvariance
<1>3. Spec => []TypeInv
  BY TypeInit, TypeNext, PTL DEF Spec
<1> QED
  BY <1>2, <1>3, LoopbackIsALink, PTL

LEMMA LeftShrinks ==
    ASSUME TypeInv, SentInv, SentInv', [LoopNext]_loopVars, loopVars' # loopVars, InCall, InCall'
    PROVE  Left' < Left /\ Left' >= 0
<1>1. pos \in Nat /\ source \in File /\ Len(source) \in Nat /\ pos <= Len(source)
  BY ConstantTypes DEF TypeInv, TypeOK, File, SentInv, PositionInv, InCall
<1>2. CASE Read
  <2>1. call = "none" /\ ReadNext /\ source' = source
    BY <1>2 DEF Read, InSender, ReadNext
  <2>2. PICK n \in Gcount(pos, ChunkSize, "read") : SendChunk(n) \/ EndOfFile(n)
    BY <2>1 DEF ReadNext
  <2>3. SendChunk(n)
    BY <2>2 DEF EndOfFile, InCall
  <2>4. n \in Nat /\ n > 0 /\ pos' = pos + n
    BY <1>1, <2>2, <2>3, GcountType, ConstantTypes DEF SendChunk
  <2>5. pos' <= Len(source)
    BY <1>1, <2>1, <2>4 DEF SentInv, PositionInv, InCall
  <2>6. Left = 2 * (Len(source) - pos)
    BY <1>1, <2>1 DEF Left
  <2>7. PICK k \in {0, 1} : Left' = 2 * (Len(source) - pos') + k
    BY <2>1 DEF Left
  <2> QED
    BY <1>1, <2>4, <2>5, <2>6, <2>7
<1>3. CASE Send
  <2>1. call = "send" /\ call' # "send" /\ UNCHANGED <<source, pos>>
    BY <1>3 DEF Send, Drop, Delivery, Lose, StoreChunk, ReceiveThrows, senderVars
  <2>2. Left = 2 * (Len(source) - pos) + 1 /\ Left' = 2 * (Len(source) - pos)
    BY <1>1, <2>1 DEF Left
  <2> QED
    BY <1>1, <2>2
<1>4. ~(Return \/ EncryptThrows \/ Unwind)
  BY DEF Return, EncryptThrows, Unwind, InSender, SendReturns, SendThrows, InCall
<1>5. /\ ~(Drive(OfferSize) \/ Drive(HashNext) \/ Drive(AcceptOffer) \/ Drive(VerifyIntegrity))
      /\ ~(ConnectPeers \/ Connect \/ SetOnDataReceived \/ NewTransports \/ StartCall)
  BY DEF Drive, ConnectPeers, Connect, SetOnDataReceived, NewTransports, StartCall
<1> QED
  BY <1>2, <1>3, <1>4, <1>5 DEF LoopNext

\* Every step of a call of SendFileChunks brings its end nearer: for a file of n
\* bytes no call takes more than 2 n + 1 steps, whatever fails on the way.
THEOREM CallsShrink == LoopSpec => CallShrinks
<1> DEFINE Shrinks == InCall /\ InCall' => Left' < Left /\ Left' >= 0
<1>1. TypeInv /\ SentInv /\ SentInv' /\ [LoopNext]_loopVars => [Shrinks]_loopVars
  BY LeftShrinks
<1> QED
  BY <1>1, LoopbackPosition, PTL DEF LoopSpec, CallShrinks
=============================================================================
