----------------------------- MODULE Reassembly -----------------------------
(***************************************************************************)
(* What a FileReceiver promises (chunking.hpp:27-43), without chunks in    *)
(* flight, keys, masks and counters: a set of chunks that grows one by     *)
(* one, a file that always shows exactly these chunks, and a confirmation  *)
(* only when all of them are there.                                        *)
(***************************************************************************)
EXTENDS Chunking

CONSTANT SourceFiles

VARIABLES
    active,    \* a transfer is being received
    content,   \* the file that is being sent
    have,      \* the chunks received
    disk,      \* the output file
    result     \* the last answer about the file's integrity

rvars == <<active, content, have, disk, result>>

AllChunks == 0 .. TotalChunks(Len(content)) - 1

Idle == active = FALSE /\ content = <<>> /\ have = {} /\ disk = <<>> /\ result = "none"

Init == Idle

\* A receiver is made for a file; one that was there before is given up.
Start ==
    /\ active' = TRUE
    /\ content' \in SourceFiles
    /\ have' = {}
    /\ disk' = Assemble(content', {})
    /\ result' = "none"

\* A chunk is stored: a new one, or one more time.
Take(i) ==
    /\ active
    /\ i \in AllChunks
    /\ have' = have \cup {i}
    /\ disk' = Assemble(content, have')
    /\ UNCHANGED <<active, content, result>>

\* The complete file is found to be intact; there is no other answer.
Confirm ==
    /\ active
    /\ have = AllChunks
    /\ disk = content
    /\ result' = "intact"
    /\ UNCHANGED <<active, content, have, disk>>

\* The transfer is over or is given up.
Finish == Idle'

Next == Start \/ (\E i \in AllChunks : Take(i)) \/ Confirm \/ Finish

Spec == Init /\ [][Next]_rvars
=============================================================================
