---------------------------- MODULE ChunkCrypto -----------------------------
(***************************************************************************)
(* core/src/crypto.cpp with ideal primitives.  A key pair is named by one  *)
(* identity, its public and its private half alike; X25519 depends only on *)
(* the two identities that meet; AES-GCM opens a box only with the key it  *)
(* was closed with and only if nothing in it was changed; SHA-256 has no   *)
(* collisions.  The random nonce is left out: it separates equal           *)
(* plaintexts, which no property tells apart.                              *)
(***************************************************************************)
EXTENDS Integers, Sequences

\* X25519 followed by HKDF: both ends of a session compute the same key.
DeriveSessionKey(my_private, peer_public, info) ==
    [secret |-> {my_private, peer_public}, info |-> info]

EncryptChunk(session_key, plaintext) ==
    [key |-> session_key, plaintext |-> plaintext, genuine |-> TRUE]

\* Mutants of Authentic: the key is not part of the check; the tag is not.
AuthenticAnyKey(session_key, chunk) == chunk.genuine
AuthenticAnyTag(session_key, chunk) == chunk.key = session_key

\* The checks of DecryptChunk: sizes of nonce and tag, and the tag itself.
\* Where they fail DecryptChunk throws.
Authentic(session_key, chunk) == chunk.genuine /\ chunk.key = session_key

\* What DecryptChunk returns if it does not throw.
DecryptChunk(chunk) == chunk.plaintext

\* Sha256File: the digest of a content stands for that content.
Sha256(content) == [sha256 |-> content]
=============================================================================
