---------------------------- MODULE CApiBuffers -----------------------------
(***************************************************************************)
(* The functions of core/src/c_api.cpp, the heap blocks they hand out, and *)
(* what their two users do with them: the functions of                     *)
(* cmd/daemon/bridge.go in the daemon, CoreSelfTest.run in the macOS       *)
(* application.  Callers of a process run side by side on its heap         *)
(* (goroutines; self tests on a global queue), so that a block that was    *)
(* freed may at once hold the bytes of another caller.                     *)
(***************************************************************************)
EXTENDS Integers, Sequences, FiniteSets

CONSTANTS
    GoCallers,     \* goroutines that encrypt a chunk and may decrypt it again
    SwiftCallers,  \* runs of the self test
    Blocks,        \* bound: the blocks of the heap
    ChunkLens,     \* lengths of the chunks a goroutine encrypts
    MaxRounds      \* bound: how often a caller goes through its program

NULL == "NULL"
kGcmNonceSize == 12
kGcmTagSize   == 16
SelfTestLen   == 31   \* the length of a text that is not empty

Callers == GoCallers \cup SwiftCallers
Chunk   == {"nonce", "ciphertext", "tag"}
Names   == Chunk \cup {"plaintext"}

ASSUME CApiAssumption ==
    /\ GoCallers \cap SwiftCallers = {}
    /\ NULL \notin Blocks \cup Callers
    /\ ChunkLens \subseteq Nat
    /\ MaxRounds \in Nat

VARIABLES
    heap,    \* block -> the bytes it holds, or Free
    bad,     \* a block was freed that was not in use by its caller
    pc,      \* caller -> its next step, or Stopped
    round,   \* caller -> how often it has begun
    len,     \* caller -> length of its plaintext
    buf,     \* caller -> name -> airdrop_buffer
    copy,    \* caller -> name -> the caller's own copy of the bytes
    steps    \* self test -> the success of its SelfTestSteps

vars == <<heap, bad, pc, round, len, buf, copy, steps>>

Nothing  == [owner |-> NULL, name |-> NULL, round |-> 0, len |-> 0]
Free     == Nothing
NoBuffer == [data |-> NULL, len |-> 0]
Stopped  == 0

\* The bytes that the core computes for a caller.
Output(c, name, n) == [owner |-> c, name |-> name, round |-> round[c], len |-> n]
-----------------------------------------------------------------------------
(* The programs of the callers.                                            *)

Step(op, name) == [op |-> op, name |-> name]
Call(op)       == <<Step(op, NULL)>>
Each(op, names) == [i \in DOMAIN names |-> Step(op, names[i])]

\* Mutant of bufToBytes: the block is freed before its bytes are copied.
bufToBytesFreesFirst(name) == <<Step("free", name), Step("copy", name)>>

\* bufToBytes: C.GoBytes copies, the deferred airdrop_free_buffer follows.
bufToBytes(name) == <<Step("copy", name), Step("free", name)>>

\* The order of the calls is that of the daemon's main.
GoProgram ==
    Call("keypair") \o Call("derive") \o Call("encrypt")
        \o bufToBytes("nonce") \o bufToBytes("ciphertext") \o bufToBytes("tag")
        \o Call("decrypt") \o bufToBytes("plaintext")

\* CoreSelfTest.run, up to the buffers that are freed after the encryption.
SelfTestFreeing(names) ==
    Call("keypair") \o Call("derive") \o Call("encrypt")
        \o Each("copy", <<"nonce", "ciphertext", "tag">>) \o Each("free", names)
        \o Call("decrypt") \o <<Step("copy", "plaintext"), Step("free", "plaintext")>>
        \o Call("compare") \o Call("tamper")

\* Mutants of SwiftProgram: nonceBuf is freed where tagBuf should be; tagBuf is
\* never freed.
SwiftProgramFreesNonceTwice == SelfTestFreeing(<<"nonce", "ciphertext", "nonce">>)
SwiftProgramKeepsTag == SelfTestFreeing(<<"nonce", "ciphertext">>)

\* CoreSelfTest.run.
SwiftProgram == SelfTestFreeing(<<"nonce", "ciphertext", "tag">>)

Program(c) == IF c \in GoCallers THEN GoProgram ELSE SwiftProgram

End(c) == Len(Program(c)) + 1

At(c, op) == pc[c] \in DOMAIN Program(c) /\ Program(c)[pc[c]].op = op
Name(c)   == Program(c)[pc[c]].name
Buffer(c) == buf[c][Name(c)]
Goto(c, step)  == pc' = [pc EXCEPT ![c] = step]
Advance(c, n)  == Goto(c, pc[c] + n)

\* The self test appends a step to its list; the bridge returns nil or an error.
Report(c, ok) == steps' = IF c \in SwiftCallers THEN [steps EXCEPT ![c] = Append(@, ok)] ELSE steps
-----------------------------------------------------------------------------
(* core/src/c_api.cpp                                                      *)

InUse(b) == heap[b] # Free

\* MakeBuffer for each name: malloc gives a block that is not in use, or NULL
\* if there is no memory or nothing is asked for; len is set all the same.
MakeBuffers(c, lens) ==
    \E data \in [DOMAIN lens -> {b \in Blocks : ~InUse(b)} \cup {NULL}] :
        /\ \A x, y \in DOMAIN lens : x # y /\ data[x] # NULL => data[x] # data[y]
        /\ buf' = [buf EXCEPT ![c] = [x \in Names |->
                      IF x \in DOMAIN lens THEN [data |-> data[x], len |-> lens[x]] ELSE @[x]]]
        /\ heap' = [b \in Blocks |->
                      IF \E x \in DOMAIN lens : data[x] = b
                      THEN LET x == CHOOSE y \in DOMAIN lens : data[y] = b
                           IN  Output(c, x, lens[x])
                      ELSE heap[b]]

airdrop_free_buffer(c, name) ==
    LET b == buf[c][name].data
    IN  IF b = NULL THEN UNCHANGED <<heap, bad>>
        ELSE /\ heap' = [heap EXCEPT ![b] = Free]
             /\ bad' = (bad \/ heap[b].owner # c \/ heap[b].name # name)
-----------------------------------------------------------------------------
\* One of the two programs runs: they are different processes.
Init ==
    /\ heap = [b \in Blocks |-> Free]
    /\ bad = FALSE
    /\ \E running \in {GoCallers, SwiftCallers} :
          pc = [c \in Callers |-> IF c \in running THEN 1 ELSE Stopped]
    /\ round = [c \in Callers |-> 0]
    /\ len = [c \in Callers |-> 0]
    /\ buf = [c \in Callers |-> [x \in Names |-> NoBuffer]]
    /\ copy = [c \in Callers |-> [x \in Names |-> Nothing]]
    /\ steps = [c \in SwiftCallers |-> <<>>]

\* A call for each of the two devices that fills an array of the caller; the
\* caller goes on only if it succeeds.
CallForBoth(c, op) ==
    /\ At(c, op)
    /\ \E ok \in BOOLEAN :
          /\ Report(c, ok)
          /\ Goto(c, IF ok THEN pc[c] + 1 ELSE End(c))
    /\ UNCHANGED <<heap, bad, round, len, buf, copy>>

airdrop_generate_keypair(c)   == CallForBoth(c, "keypair")
airdrop_derive_session_key(c) == CallForBoth(c, "derive")

\* airdrop_encrypt_chunk succeeds: nonce, ciphertext and tag are handed out.
Encrypt(c) ==
    /\ At(c, "encrypt")
    /\ \E n \in IF c \in GoCallers THEN ChunkLens ELSE {SelfTestLen} :
          /\ len' = [len EXCEPT ![c] = n]
          /\ MakeBuffers(c, [x \in Chunk |->
                CASE x = "nonce" -> kGcmNonceSize [] x = "tag" -> kGcmTagSize [] OTHER -> n])
    /\ Report(c, TRUE)
    /\ Advance(c, 1)
    /\ UNCHANGED <<bad, round, copy>>

\* Mutants of EncryptFails: the error comes after out_nonce has been filled;
\* the self test returns before it has noted the failure.
EncryptFailsLate(c) ==
    /\ At(c, "encrypt")
    /\ MakeBuffers(c, [x \in {"nonce"} |-> kGcmNonceSize])
    /\ Goto(c, End(c))
    /\ Report(c, FALSE)
    /\ UNCHANGED <<bad, round, len, copy>>

EncryptFailsUnnoted(c) ==
    /\ At(c, "encrypt")
    /\ Goto(c, End(c))
    /\ UNCHANGED <<heap, bad, round, len, buf, copy, steps>>

\* It fails, and EncryptChunk throws before the first MakeBuffer: nothing is
\* handed out and the caller gives up.
EncryptFails(c) ==
    /\ At(c, "encrypt")
    /\ Report(c, FALSE)
    /\ Goto(c, End(c))
    /\ UNCHANGED <<heap, bad, round, len, buf, copy>>

\* Mutants of GoNil: a nonce counts as no bytes; a step too many is skipped.
GoNilShort(c) ==
    /\ c \in GoCallers /\ At(c, "copy")
    /\ Buffer(c).data = NULL \/ Buffer(c).len <= kGcmNonceSize
    /\ Advance(c, 2)
    /\ UNCHANGED <<heap, bad, round, len, buf, copy, steps>>

GoNilSkips(c) ==
    /\ c \in GoCallers /\ At(c, "copy")
    /\ Buffer(c).data = NULL \/ Buffer(c).len = 0
    /\ Advance(c, 3)
    /\ UNCHANGED <<heap, bad, round, len, buf, copy, steps>>

\* bufToBytes returns nil for NULL or no bytes, without the call to free.
GoNil(c) ==
    /\ c \in GoCallers /\ At(c, "copy")
    /\ Buffer(c).data = NULL \/ Buffer(c).len = 0
    /\ Advance(c, 2)
    /\ UNCHANGED <<heap, bad, round, len, buf, copy, steps>>

\* The bytes that are in the block now.
Copy(c) ==
    /\ At(c, "copy")
    /\ Buffer(c).data # NULL
    /\ c \in GoCallers => Buffer(c).len > 0
    /\ copy' = [copy EXCEPT ![c][Name(c)] = heap[Buffer(c).data]]
    /\ Advance(c, 1)
    /\ UNCHANGED <<heap, bad, round, len, buf, steps>>

\* Swift refuses a pointer that is nil for a count that is not zero, and the
\* process ends.
SwiftTrap(c) ==
    /\ c \in SwiftCallers /\ At(c, "copy")
    /\ Buffer(c).data = NULL
    /\ Goto(c, Stopped)
    /\ UNCHANGED <<heap, bad, round, len, buf, copy, steps>>

FreeBuffer(c) ==
    /\ At(c, "free")
    /\ airdrop_free_buffer(c, Name(c))
    /\ Advance(c, 1)
    /\ UNCHANGED <<round, len, buf, copy, steps>>

\* The caller still has the bytes that the core made for it.
Genuine(c) == \A x \in Chunk : copy[c][x] = Output(c, x, buf[c][x].len)

\* &chunk.Ciphertext[0] of an empty slice panics before the call is made.
GoPanic(c) ==
    /\ c \in GoCallers /\ At(c, "decrypt")
    /\ \E x \in Chunk : copy[c][x] = Nothing
    /\ Goto(c, Stopped)
    /\ UNCHANGED <<heap, bad, round, len, buf, copy, steps>>

\* EncryptChunk has returned and the goroutine is a sender: it does not decrypt.
GoSends(c) ==
    /\ c \in GoCallers /\ At(c, "decrypt")
    /\ Goto(c, End(c))
    /\ UNCHANGED <<heap, bad, round, len, buf, copy, steps>>

\* airdrop_decrypt_chunk: the plaintext, if the bytes are what was encrypted.
Decrypt(c) ==
    /\ At(c, "decrypt")
    /\ Genuine(c)
    /\ MakeBuffers(c, [x \in {"plaintext"} |-> copy[c]["ciphertext"].len])
    /\ Advance(c, 1)
    /\ UNCHANGED <<bad, round, len, copy, steps>>

\* It fails, for other bytes than those or an error of the library: no buffer.
\* The bridge returns an error, the self test goes on to the comparison.
DecryptFails(c) ==
    /\ At(c, "decrypt")
    /\ \A x \in Chunk : copy[c][x] # Nothing
    /\ Goto(c, IF c \in GoCallers THEN End(c) ELSE pc[c] + 3)
    /\ UNCHANGED <<heap, bad, round, len, buf, copy, steps>>

\* roundTripOk: what Bob got is what Alice sent.
Compare(c) ==
    /\ At(c, "compare")
    /\ Report(c, copy[c]["plaintext"] = Output(c, "plaintext", len[c]))
    /\ Advance(c, 1)
    /\ UNCHANGED <<heap, bad, round, len, buf, copy>>

\* A decryption with a changed tag.  It is refused and hands out no buffer, or
\* is taken for genuine: then the buffer is given back at once, which leaves the
\* heap as it was, and the step has failed.
Tamper(c) ==
    /\ At(c, "tamper")
    /\ \E tamperDetected \in BOOLEAN : Report(c, tamperDetected)
    /\ Advance(c, 1)
    /\ UNCHANGED <<heap, bad, round, len, buf, copy>>

\* The functions have returned; their local variables are gone.
Return(c) ==
    /\ pc[c] = End(c)
    /\ round[c] < MaxRounds
    /\ round' = [round EXCEPT ![c] = @ + 1]
    /\ Goto(c, 1)
    /\ buf' = [buf EXCEPT ![c] = [x \in Names |-> NoBuffer]]
    /\ copy' = [copy EXCEPT ![c] = [x \in Names |-> Nothing]]
    /\ steps' = [d \in SwiftCallers |-> IF d = c THEN <<>> ELSE steps[d]]
    /\ UNCHANGED <<heap, bad, len>>

Next == \E c \in Callers :
    \/ airdrop_generate_keypair(c) \/ airdrop_derive_session_key(c)
    \/ Encrypt(c) \/ EncryptFails(c) \/ GoNil(c) \/ Copy(c) \/ SwiftTrap(c)
    \/ FreeBuffer(c) \/ GoPanic(c) \/ GoSends(c) \/ Decrypt(c) \/ DecryptFails(c)
    \/ Compare(c) \/ Tamper(c) \/ Return(c)

Spec == Init /\ [][Next]_vars
-----------------------------------------------------------------------------
Held == [owner : Callers \cup {NULL}, name : Names \cup {NULL}, round : Nat, len : Nat]

\* Types of the variables; no caller runs past the end of its program.
TypeOK ==
    /\ heap \in [Blocks -> Held]
    /\ bad \in BOOLEAN
    /\ pc \in [Callers -> Nat] /\ \A c \in Callers : pc[c] <= End(c)
    /\ round \in [Callers -> 0 .. MaxRounds]
    /\ len \in [Callers -> Nat]
    /\ buf \in [Callers -> [Names -> [data : Blocks \cup {NULL}, len : Nat]]]
    /\ copy \in [Callers -> [Names -> Held]]
    /\ steps \in [SwiftCallers -> Seq(BOOLEAN)]

\* No block is freed twice, and none that another caller or another buffer has
\* got in the meantime (bridge.go:71, CoreSelfTest.swift:80-82, 98).
NoBadFree == ~bad

\* A caller's copies are the bytes the core made for it, never what another
\* caller wrote into a block that was freed too early.
OwnBytes ==
    \A c \in Callers, x \in Names :
        copy[c][x] # Nothing => copy[c][x] = Output(c, x, buf[c][x].len)

\* When a goroutine is through, or panics, each of its blocks that holds bytes
\* has been given back, whatever failed on the way (bridge.go:71).
NonEmptyReleased ==
    \A c \in GoCallers : pc[c] \in {1, Stopped, End(c)} =>
        \A b \in Blocks : heap[b].owner = c => heap[b].len = 0

\* A self test that has come to its end, early or late, has given back every
\* block (CoreSelfTest.swift:75-98).
SelfTestReleases ==
    \A c \in SwiftCallers : pc[c] = End(c) => \A b \in Blocks : heap[b].owner # c

\* DecryptChunk of the bridge (bridge.go:104-106) panics only for an empty
\* chunk or where malloc failed and MakeBuffer reported success all the same.
PanicNeedsEmpty ==
    \A c \in GoCallers : pc[c] = Stopped =>
        len[c] = 0 \/ \E x \in Names : buf[c][x].data = NULL /\ buf[c][x].len > 0

\* A list of successes only, which the screen shows as "all checks have passed"
\* (ContentView.swift:57), is never the list of a run that stopped early: all
\* five checks were made and the run's own text came back.
AllOkIsEarned ==
    \A c \in SwiftCallers :
        pc[c] = End(c) /\ (\A i \in DOMAIN steps[c] : steps[c][i]) =>
            Len(steps[c]) = 5 /\ copy[c]["plaintext"] = Output(c, "plaintext", len[c])

\* c_api.h:7-8: every buffer the library has allocated is given back with
\* airdrop_free_buffer, here when its caller is through.
AllReleased ==
    \A c \in Callers : pc[c] = End(c) => \A b \in Blocks : heap[b].owner # c
=============================================================================
