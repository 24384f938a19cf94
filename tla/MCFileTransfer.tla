--------------------------- MODULE MCFileTransfer ---------------------------
(***************************************************************************)
(* Small instances of FileTransfer.  All bytes of a file differ, so that a *)
(* byte in a wrong place is seen.                                          *)
(***************************************************************************)
EXTENDS FileTransfer

\* Chunks of two bytes: no chunk, one full chunk, a full one followed by a
\* short one, and three chunks.
CleanFiles == {<<>>, <<1, 2>>, <<3, 4, 5>>, <<5, 6, 7, 8, 9>>}

\* Two versions of one file of two chunks, and a file with as many chunks as
\* there are indices, which total_chunks counts as none.
FaultyFiles == {<<1, 2, 3>>, <<1, 4, 5>>, <<1, 2, 6, 7, 8>>}

\* Files of at most two chunks, for the runs that show a divergence.
LiveFiles == {<<>>, <<1>>, <<1, 2>>, <<1, 2, 3>>}
=============================================================================
