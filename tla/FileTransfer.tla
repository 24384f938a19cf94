---------------------------- MODULE FileTransfer ----------------------------
(***************************************************************************)
(* One file after another sent from one device to the other: the sender    *)
(* functions and the FileReceiver of core/src/chunking.cpp, the keys of    *)
(* core/src/crypto.cpp, and between them the link of which the code says   *)
(* that it repeats, reorders and damages chunks (chunking.hpp:27-28,       *)
(* protocol.hpp:74-76).  The order of the calls is the one of              *)
(* core/tests/test_chunking_e2e.cpp, the only caller in the repository.    *)
(***************************************************************************)
EXTENDS Chunking, ChunkCrypto, FiniteSets

CONSTANTS
    SourceFiles,  \* the contents a file to send may have
    HashBlock,    \* how many bytes Sha256File reads at a time: 64 KB
    MaxSessions,  \* bound: how many files are sent one after another
    MaxInFlight,  \* bound: how many frames the link holds
    Faults        \* what the environment may do in this instance

\* "throw" lets the sink or EncryptChunk throw inside SendFileChunks, "open"
\* lets ReceiveChunk fail to open the output, "restart" lets the receiving side
\* begin again.
BenignFaults == {"lose", "duplicate", "damage", "throw", "open", "restart"}

\* "misindex" changes the chunk index of a frame, "write" and "read" cut short file
\* operations whose result the code ignores, "hash" fails reads of Sha256File,
\* "edit" changes the source file during the transfer.
HarmfulFaults == {"misindex", "write", "read", "hash", "edit"}

ASSUME FileTransferAssumption ==
    /\ SourceFiles \subseteq File
    /\ SourceFiles # {}
    /\ HashBlock \in Nat \ {0}
    /\ MaxSessions \in Nat \ {0}
    /\ MaxInFlight \in Nat
    /\ Faults \subseteq BenignFaults \cup HarmfulFaults

VARIABLES
    session,          \* number of the current transfer
    source,           \* content of the file at file_path
    pc,               \* what the sender has done for this transfer
    hashed,           \* the bytes Sha256File has read so far
    offer,            \* the FileOfferPayload
    pos,              \* read position of the ifstream in SendFileChunks
    index,            \* the uint32_t index in SendFileChunks
    channel,          \* frames on their way, delivered in any order
    live,             \* there is a FileReceiver for this transfer
    expected_size,    \* from here on: its fields
    total_chunks,
    expected_sha256,
    received_mask,
    received_count,
    out,              \* content of the file at output_path
    verdict           \* what VerifyIntegrity last returned

senderVars   == <<pc, hashed, offer, pos, index>>
receiverVars == <<live, expected_size, total_chunks, expected_sha256, received_mask, received_count>>
vars         == <<session, source, senderVars, channel, receiverVars, out, verdict>>
-----------------------------------------------------------------------------
(* Keys: a fresh pair on both sides of every session (crypto.hpp:32).      *)

Info == "airdrop-session-v1"

SenderKeys(s)   == <<"sender", s>>
ReceiverKeys(s) == <<"receiver", s>>

SenderSessionKey(s)   == DeriveSessionKey(SenderKeys(s), ReceiverKeys(s), Info)
ReceiverSessionKey(s) == DeriveSessionKey(ReceiverKeys(s), SenderKeys(s), Info)

KeyId      == {"sender", "receiver"} \X (1 .. MaxSessions)
SessionKey == [secret : SUBSET KeyId, info : {Info}]
Digest     == [sha256 : File]
Offer      == [file_size : Nat, sha256 : Digest, total_chunks : Nat]
Frame      == [chunk_index : 0 .. IndexMod - 1,
               enc : [key : SessionKey, plaintext : File, genuine : BOOLEAN]]

ChunkPayload(i, enc) == [chunk_index |-> i, enc |-> enc]

\* What Sha256File may return for a file that nobody writes meanwhile, the one
\* of the receiver: its read loop takes an error for the end of the file.
Digests(f) ==
    {Sha256(SubSeq(f, 1, n)) : n \in IF "hash" \in Faults THEN 0 .. Len(f) ELSE {Len(f)}}
-----------------------------------------------------------------------------
NoOffer == [file_size |-> 0, sha256 |-> Sha256(<<>>), total_chunks |-> 0]

Init ==
    /\ session = 1
    /\ source \in SourceFiles
    /\ pc = "idle" /\ hashed = <<>> /\ offer = NoOffer /\ pos = 0 /\ index = 0
    /\ channel = {}
    /\ live = FALSE /\ expected_size = 0 /\ total_chunks = 0
    /\ expected_sha256 = Sha256(<<>>)
    /\ received_mask = <<>> /\ received_count = 0
    /\ out = <<>>
    /\ verdict = "none"
-----------------------------------------------------------------------------
(* The sender.                                                             *)

\* PrepareFileOffer, first look at the file: fs::file_size.
OfferSize ==
    /\ pc = "idle"
    /\ pc' = "sized"
    /\ offer' = [offer EXCEPT !.file_size = Len(source)]
    /\ UNCHANGED <<session, source, hashed, pos, index, channel, receiverVars, out, verdict>>

\* How many bytes f.read of size bytes may deliver.  A read error ends the data
\* early.
Gcount(at, size, fault) ==
    LET there == Len(Slice(source, at, size))
    IN  IF fault \in Faults THEN 0 .. there ELSE {there}

HashedWith(n) == hashed \o Slice(source, Len(hashed), n)

\* A round of the loop in Sha256File after which the stream is still good.
HashRound(n) ==
    /\ n = HashBlock
    /\ hashed' = HashedWith(n)
    /\ UNCHANGED <<pc, offer>>

\* The last round, a read that was short; then the offer is sent.
OfferHash(n) ==
    /\ n < HashBlock
    /\ pc' = "offered"
    /\ hashed' = <<>>
    /\ offer' = [offer EXCEPT !.sha256 = Sha256(HashedWith(n)),
                             !.total_chunks = TotalChunks(offer.file_size)]

\* PrepareFileOffer, second look at the file: Sha256File, one read at a time.
HashNext ==
    /\ pc = "sized"
    /\ \E n \in Gcount(Len(hashed), HashBlock, "hash") : HashRound(n) \/ OfferHash(n)
    /\ UNCHANGED <<session, source, pos, index, channel, receiverVars, out, verdict>>

\* A call of SendFileChunks after the offer, or after an earlier call has ended.
\* A caller that repeats failed chunks calls it again: the code has no
\* other way to send a chunk.
StartSending ==
    /\ pc \in {"offered", "sent"}
    /\ pc' = "sending"
    /\ pos' = 0
    /\ index' = 0
    /\ UNCHANGED <<session, source, hashed, offer, channel, receiverVars, out, verdict>>

\* Mutant of SendChunk: the position stays where it was, and the chunk is read
\* again.
SendChunkStays(n) ==
    /\ n > 0
    /\ channel' = channel \cup
          {ChunkPayload(index, EncryptChunk(SenderSessionKey(session), Slice(source, pos, n)))}
    /\ index' = (index + 1) % IndexMod
    /\ UNCHANGED <<pc, pos>>

\* One round of the loop in SendFileChunks, from the read to the ++index.  The
\* stream is good for a further round only if the read was complete; otherwise
\* the function returns once the sink has.
SendChunk(n) ==
    /\ n > 0
    /\ channel' = channel \cup
          {ChunkPayload(index, EncryptChunk(SenderSessionKey(session), Slice(source, pos, n)))}
    /\ pos' = pos + n
    /\ index' = (index + 1) % IndexMod
    /\ pc' = IF n < ChunkSize THEN "last" ELSE "sending"

\* Mutant of EndOfFile: the loop goes on where nothing was read.
EndOfFileIgnored(n) == n = 0 /\ UNCHANGED <<pc, pos, index, channel>>

\* if (n <= 0) break;
EndOfFile(n) ==
    /\ n = 0
    /\ pc' = "sent"
    /\ UNCHANGED <<pos, index, channel>>

ReadNext ==
    /\ pc = "sending"
    /\ Cardinality(channel) < MaxInFlight
    /\ \E n \in Gcount(pos, ChunkSize, "read") : SendChunk(n) \/ EndOfFile(n)
    /\ UNCHANGED <<session, source, hashed, offer, receiverVars, out, verdict>>

\* while (f) ends the loop after the short read.
SendReturns ==
    /\ pc = "last"
    /\ pc' = "sent"
    /\ UNCHANGED <<session, source, hashed, offer, pos, index, channel, receiverVars, out, verdict>>

\* SendFileChunks is left by an exception: the sink could not send the chunk it
\* got (with LoopbackTransport: the receiver threw), or EncryptChunk failed.
SendThrows ==
    /\ "throw" \in Faults
    /\ pc \in {"sending", "last"}
    /\ pc' = "offered"
    /\ UNCHANGED <<session, source, hashed, offer, pos, index, channel, receiverVars, out, verdict>>
-----------------------------------------------------------------------------
(* The receiver.                                                           *)

\* The FileReceiver constructor.  Without "restart" a transfer has one
\* receiver.  The result of the preallocation is not looked at.
AcceptOffer ==
    /\ pc \in {"offered", "sending", "last", "sent"}
    /\ live => "restart" \in Faults
    /\ live' = TRUE
    /\ expected_size' = offer.file_size
    /\ total_chunks' = offer.total_chunks
    /\ expected_sha256' = offer.sha256
    /\ received_mask' = [i \in 0 .. offer.total_chunks - 1 |-> FALSE]
    /\ received_count' = 0
    /\ \/ out' = NewOutput(out, offer.file_size)
       \/ "write" \in Faults /\ out' = Truncate(out)
    /\ verdict' = "none"
    /\ UNCHANGED <<session, source, senderVars, channel>>

\* The frame has been delivered; a link that duplicates may deliver it again.
Deliver(f) ==
    /\ f \in channel
    /\ \/ channel' = channel \ {f}
       \/ "duplicate" \in Faults /\ channel' = channel

\* ReceiveChunk throws: index out of range, not authentic, or the output file
\* does not open.  It has changed nothing.
ReceiveThrows(f) ==
    /\ live
    /\ \/ f.chunk_index >= total_chunks
       \/ ~Authentic(ReceiverSessionKey(session), f.enc)
       \/ "open" \in Faults
    /\ Deliver(f)
    /\ UNCHANGED <<session, source, senderVars, receiverVars, out, verdict>>

\* How many bytes f.write may have put into the file.
Written(data) == IF "write" \in Faults THEN 0 .. Len(data) ELSE {Len(data)}

\* Mutant of Mark: the counter moves without a look at the mask.
MarkAgain(i) ==
    /\ received_mask' = [received_mask EXCEPT ![i] = TRUE]
    /\ received_count' = received_count + 1

\* The mask is set and the counter moves whatever became of the write.
Mark(i) ==
    /\ received_mask' = [received_mask EXCEPT ![i] = TRUE]
    /\ received_count' = IF received_mask[i] THEN received_count ELSE received_count + 1

\* ReceiveChunk runs to its end.
StoreChunk(f) ==
    /\ live
    /\ f.chunk_index < total_chunks
    /\ Authentic(ReceiverSessionKey(session), f.enc)
    /\ Deliver(f)
    /\ LET data == DecryptChunk(f.enc)
       IN  \E n \in Written(data) :
              out' = Overwrite(out, ChunkOffset(f.chunk_index), SubSeq(data, 1, n))
    /\ Mark(f.chunk_index)
    /\ UNCHANGED <<session, source, senderVars, live, expected_size, total_chunks,
                   expected_sha256, verdict>>

IsComplete == received_count = total_chunks

\* Mutant of VerifyIntegrity: only the sizes are compared.
VerifySize ==
    /\ live
    /\ IsComplete
    /\ verdict' = IF Len(out) = expected_size THEN "intact" ELSE "corrupted"
    /\ UNCHANGED <<session, source, senderVars, channel, receiverVars, out>>

\* Called when IsComplete() holds (chunking.hpp:41), as often as one likes.
VerifyIntegrity ==
    /\ live
    /\ IsComplete
    /\ \E digest \in Digests(out) :
          verdict' = IF digest = expected_sha256 THEN "intact" ELSE "corrupted"
    /\ UNCHANGED <<session, source, senderVars, channel, receiverVars, out>>
-----------------------------------------------------------------------------
(* The environment.                                                        *)

\* The link loses a frame.
Lose(f) ==
    /\ "lose" \in Faults
    /\ f \in channel
    /\ channel' = channel \ {f}
    /\ UNCHANGED <<session, source, senderVars, receiverVars, out, verdict>>

\* The link changes nonce, ciphertext or tag; each changed byte of the
\* ciphertext would decrypt to another byte, and to none that could be taken
\* for a preallocated zero.
Damage(f) ==
    /\ "damage" \in Faults
    /\ f \in channel
    /\ f.enc.genuine
    /\ LET garbled == [p \in 1 .. Len(f.enc.plaintext) |->
                          CHOOSE b \in Byte : b \notin {0, f.enc.plaintext[p]}]
       IN  channel' = (channel \ {f}) \cup
              {[f EXCEPT !.enc.genuine = FALSE, !.enc.plaintext = garbled]}
    /\ UNCHANGED <<session, source, senderVars, receiverVars, out, verdict>>

\* The link changes the chunk index, which no tag covers.
MisIndex(f) ==
    /\ "misindex" \in Faults
    /\ f \in channel
    /\ \E i \in 0 .. IndexMod - 1 :
          channel' = (channel \ {f}) \cup {[f EXCEPT !.chunk_index = i]}
    /\ UNCHANGED <<session, source, senderVars, receiverVars, out, verdict>>

\* Another program writes the file that is being sent.
EditSource ==
    /\ "edit" \in Faults
    /\ source' \in SourceFiles
    /\ UNCHANGED <<session, senderVars, channel, receiverVars, out, verdict>>

\* The next transfer, with new keys and a new FileReceiver for the same path.
\* Frames of the old one may still be on their way.
NewSession ==
    /\ pc # "idle"
    /\ session < MaxSessions
    /\ session' = session + 1
    /\ source' \in SourceFiles
    /\ pc' = "idle" /\ hashed' = <<>> /\ offer' = NoOffer /\ pos' = 0 /\ index' = 0
    /\ live' = FALSE /\ expected_size' = 0 /\ total_chunks' = 0
    /\ expected_sha256' = Sha256(<<>>)
    /\ received_mask' = <<>> /\ received_count' = 0
    /\ verdict' = "none"
    /\ UNCHANGED <<channel, out>>
-----------------------------------------------------------------------------
Next ==
    \/ OfferSize \/ HashNext \/ StartSending \/ ReadNext \/ SendReturns \/ SendThrows
    \/ AcceptOffer \/ VerifyIntegrity
    \/ EditSource \/ NewSession
    \/ \E f \in channel :
          ReceiveThrows(f) \/ StoreChunk(f) \/ Lose(f) \/ Damage(f) \/ MisIndex(f)

Spec == Init /\ [][Next]_vars
-----------------------------------------------------------------------------
(* Safety.                                                                 *)

Marked == {i \in DOMAIN received_mask : received_mask[i]}

\* Every variable keeps its type, the mask always has total_chunks bits and
\* the counter never exceeds them: ReceiveChunk (chunking.cpp:66-87) neither
\* indexes the mask out of range nor counts past total_chunks.
TypeOK ==
    /\ session \in 1 .. MaxSessions
    /\ source \in SourceFiles
    /\ pc \in {"idle", "sized", "offered", "sending", "last", "sent"}
    /\ hashed \in File
    /\ offer \in Offer
    /\ pos \in Nat
    /\ index \in 0 .. IndexMod - 1
    /\ channel \subseteq Frame
    /\ live \in BOOLEAN
    /\ expected_size \in Nat
    /\ total_chunks \in Nat
    /\ expected_sha256 \in Digest
    /\ received_mask \in [0 .. total_chunks - 1 -> BOOLEAN]
    /\ received_count \in 0 .. total_chunks
    /\ out \in File
    /\ verdict \in {"none", "intact", "corrupted"}

\* received_count is the number of different chunks received, however often
\* each of them came (chunking.cpp:83-86): IsComplete() says that none is
\* missing.
CountMatchesMask == received_count = Cardinality(Marked)

\* While a receiver exists, the output file is the source with zeros for the
\* chunks still missing: late, repeated, reordered and damaged frames, frames
\* of an earlier transfer and a second receiver on the same path never leave
\* a wrong byte (chunking.cpp:58-63, 71-81).
DiskIsAssembly == live => out = Assemble(source, Marked)

\* Under the benign faults a complete transfer is an intact one: VerifyIntegrity
\* (chunking.cpp:89-92) never reports corruption.
NeverCorrupted == verdict # "corrupted"

\* Once VerifyIntegrity has returned true, no late frame changes the file and
\* the answer stays true until a new receiver takes the path.
VerifiedIsFinal ==
    [][verdict = "intact" /\ verdict' # "none" => out' = out /\ verdict' = "intact"]_vars

BlockOf(f, k) == Slice(f, k * HashBlock, HashBlock)

\* Whatever the link, the disk of the receiver and other programs do, and as long
\* as Sha256File meets no read error, a file that VerifyIntegrity
\* accepts (chunking.cpp:89-92) has no misplaced chunk, no gap and no missing
\* end: each block of it is what Sha256File read there at once on the sending
\* side (crypto.cpp:185-192), a block of one version of the source.  Only at the
\* borders of these blocks may it change from one version to another; a file
\* shorter than a block existed as a whole.
IntactIsBlockwise ==
    [][verdict # "intact" /\ verdict' = "intact" =>
          \A k \in 0 .. Len(out') : k * HashBlock <= Len(out') =>
              \E f \in SourceFiles : BlockOf(out', k) = BlockOf(f, k)]_vars

\* Whatever goes wrong, a byte on disk is a preallocated zero or a byte of the
\* source from the same place of some chunk: nothing unauthenticated, nothing
\* shifted inside a chunk is ever written (chunking.cpp:75-81).
OnlySourceBytes ==
    live => \A p \in DOMAIN out :
        \/ out[p] = 0
        \/ \E f \in SourceFiles : \E q \in DOMAIN f :
              f[q] = out[p] /\ q % ChunkSize = p % ChunkSize

\* The comment at chunking.hpp:35: ReceiveChunk decrypts the chunk and writes
\* it at its offset.  Every marked chunk is on disk.
MarkedIsOnDisk ==
    live => \A i \in Marked : ChunkOf(out, i) = ChunkOf(source, i)

\* The comment at chunking.hpp:21: a file that cannot be read makes the sender
\* functions throw.  If they return, they have read all of it.
ReadOrThrow ==
    /\ pc = "offered" => offer.sha256 = Sha256(source)
    /\ pc = "sent" => pos = Len(source)
-----------------------------------------------------------------------------
(* Liveness.  The code takes its steps as long as it is called; the caller *)
(* that protocol.hpp:74-76 asks for sends again until the file has         *)
(* arrived; a frame sent again and again gets through in the end, and none *)
(* is repeated for ever.                                                   *)

StoreIndex(i) == \E f \in channel : f.chunk_index = i /\ StoreChunk(f)

Fairness ==
    /\ WF_vars(OfferSize) /\ WF_vars(HashNext) /\ WF_vars(ReadNext)
    /\ WF_vars(SendReturns) /\ WF_vars(StartSending)
    /\ WF_vars(~live /\ AcceptOffer) /\ WF_vars(VerifyIntegrity)
    /\ WF_vars(\E f \in channel : ReceiveThrows(f) /\ f \notin channel')
    /\ \A i \in 0 .. IndexMod - 1 : SF_vars(StoreIndex(i))

FairSpec == Spec /\ Fairness

\* From some point on no exception leaves SendFileChunks, no receiver begins
\* again and no further transfer takes the path.
CalmInTheEnd ==
    <>[][~SendThrows /\ ~(live /\ AcceptOffer) /\ ~NewSession]_vars

\* A file that is offered over a link that loses, repeats, reorders and damages
\* frames is in the end received and verified, whatever exceptions, receivers
\* and transfers there were before.
Delivered == CalmInTheEnd => ((pc = "offered") ~> (verdict = "intact"))

\* A call of SendFileChunks reaches the end of the file and returns
\* (chunking.cpp:30-46), also for an empty file and for full last chunks.
SendTerminates == CalmInTheEnd => ((pc = "sending") ~> (pc = "sent"))
-----------------------------------------------------------------------------
(* The transfer as its user sees it: a set of chunks that grows.           *)

R == INSTANCE Reassembly WITH
        active  <- live,
        content <- IF live THEN source ELSE <<>>,
        have    <- Marked,
        disk    <- IF live THEN out ELSE <<>>,
        result  <- verdict

\* Under the benign faults the receiver implements Reassembly.
Reassembles == R!Spec
=============================================================================
