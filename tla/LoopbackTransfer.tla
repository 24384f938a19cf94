-------------------------- MODULE LoopbackTransfer --------------------------
(***************************************************************************)
(* A transfer over two LoopbackTransports (core/include/transport.hpp),    *)
(* driven as in core/tests/test_chunking_e2e.cpp: Send calls the data      *)
(* callback of the other side before it returns.  The callback decodes the *)
(* frame (module Wire) and calls ReceiveChunk, so that an exception of the *)
(* receiver goes through Send and the sink out of SendFileChunks.  There   *)
(* is one thread: while SendFileChunks runs, nothing runs but what it      *)
(* calls.                                                                  *)
(***************************************************************************)
EXTENDS FileTransfer

\* What a loopback can do to a frame: drop it, or hand it to a callback that
\* throws.
ASSUME LoopbackAssumption == Faults = {"lose", "throw", "open"}

VARIABLES
    peer,     \* ConnectPeers has set peer_ on both sides
    on_data,  \* the receiving side has a data callback
    call,     \* "send": in Send; "throw": an exception is on its way; or "none"
    heard     \* the last SendFileChunks began with both in place

loopVars == <<vars, peer, on_data, call, heard>>

LoopInit == Init /\ peer = FALSE /\ on_data = FALSE /\ call = "none" /\ heard = FALSE

\* SendFileChunks is on the stack.
InCall == pc \in {"sending", "last"}

\* The driver makes its next call.
Drive(A) == ~InCall /\ A /\ UNCHANGED <<peer, on_data, call, heard>>

\* SendFileChunks takes its next step; Send has returned.
InSender(A) == InCall /\ call = "none" /\ A /\ UNCHANGED <<peer, on_data, heard>>
-----------------------------------------------------------------------------
\* ConnectPeers(a, b).
ConnectPeers == ~InCall /\ peer' = TRUE /\ UNCHANGED <<vars, on_data, call, heard>>

\* Connect reports success at once and sets nothing, with or without a peer;
\* so do Disconnect, scanning and advertising, without the report.
Connect == ~InCall /\ UNCHANGED loopVars

\* SetOnDataReceived: the callback holds a reference to the FileReceiver.
SetOnDataReceived ==
    ~InCall /\ live /\ on_data' = TRUE /\ UNCHANGED <<vars, peer, call, heard>>

\* The next transfer, over two new transports.
NewTransports ==
    /\ ~InCall /\ NewSession
    /\ peer' = FALSE /\ on_data' = FALSE /\ heard' = FALSE
    /\ UNCHANGED call

StartCall ==
    ~InCall /\ StartSending /\ heard' = (peer /\ on_data) /\ UNCHANGED <<peer, on_data, call>>

\* A round of the loop, up to Send in the sink.
Read ==
    InSender(ReadNext /\ call' = IF channel' = {} THEN "none" ELSE "send")

Return == InSender(SendReturns /\ UNCHANGED call)

\* EncryptChunk throws for the chunk that was read.
EncryptThrows ==
    InSender(pc = "sending" /\ pos < Len(source) /\ SendThrows /\ UNCHANGED call)

\* if (peer_ && peer_->on_data_): without them the bytes are dropped.
Drop(f) == call = "send" /\ ~(peer /\ on_data) /\ Lose(f) /\ call' = "none"

\* The callback returns, or throws.
Delivery(f) ==
    /\ call = "send" /\ peer /\ on_data
    /\ \/ StoreChunk(f) /\ call' = "none"
       \/ ReceiveThrows(f) /\ call' = "throw"

Send == \E f \in channel : (Drop(f) \/ Delivery(f)) /\ UNCHANGED <<peer, on_data, heard>>

\* Mutants of Unwind: somebody between Send and the caller catches the
\* exception and SendFileChunks goes on, or returns as if nothing had been.
SwallowAndGoOn  == call = "throw" /\ call' = "none" /\ UNCHANGED <<vars, peer, on_data, heard>>
SwallowAndReturn ==
    /\ call = "throw" /\ call' = "none"
    /\ pc' = "sent"
    /\ UNCHANGED <<session, source, hashed, offer, pos, index, channel, receiverVars, out, verdict,
                   peer, on_data, heard>>

\* Nothing catches it before the caller of SendFileChunks.
Unwind == call = "throw" /\ call' = "none" /\ SendThrows /\ UNCHANGED <<peer, on_data, heard>>

LoopNext ==
    \/ Drive(OfferSize) \/ Drive(HashNext) \/ Drive(AcceptOffer) \/ Drive(VerifyIntegrity)
    \/ ConnectPeers \/ Connect \/ SetOnDataReceived \/ NewTransports \/ StartCall
    \/ Read \/ Return \/ EncryptThrows \/ Unwind
    \/ Send

\* A function that was called goes on.
LoopFairness ==
    /\ WF_loopVars(Read) /\ WF_loopVars(Return) /\ WF_loopVars(Unwind)
    /\ WF_loopVars(Send)

LoopSpec == LoopInit /\ [][LoopNext]_loopVars /\ LoopFairness
-----------------------------------------------------------------------------
\* ITransport asks for whole blocks in order (transport.hpp:48-49): what the
\* receiver has is always a prefix of the file, whatever failed and however
\* often the sender began again.
ReceivesPrefix == Marked = 0 .. received_count - 1

\* SendFileChunks returns only if every chunk has been stored: no exception is
\* lost on its way through callback, Send and sink (transport.hpp:72).
ReturnMeansStored == pc = "sent" /\ heard => IsComplete /\ out = source

\* How far a call of SendFileChunks still has to go: the bytes to read, and for
\* the chunk in hand the way through Send.
Left == 2 * (Len(source) - pos) + (IF call = "send" THEN 1 ELSE 0)

\* Nothing inside a call of SendFileChunks goes round in circles
\* (chunking.cpp:30-46): each step of loop, sink, Send and callback brings its end
\* nearer, whatever fails, and however often the same chunks were sent before.
CallShrinks == [][InCall /\ InCall' => Left' < Left /\ Left' >= 0]_loopVars

\* A call of SendFileChunks ends, with all chunks stored or with an exception.
\* No repetition and no luck with the link are needed.
CallEnds ==
    (InCall /\ heard) ~> ((pc = "sent" /\ IsComplete) \/ pc = "offered")
=============================================================================
