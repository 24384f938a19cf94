------------------------------- MODULE MCWire -------------------------------
(***************************************************************************)
(* Wire with bytes of eight values, two bytes for a 32-bit number and three *)
(* for a 64-bit one: numbers of one and of more bytes, empty and non-empty *)
(* blocks, and blocks whose bytes look like length prefixes.               *)
(***************************************************************************)
EXTENDS Wire

Hellos == {[type |-> "hello", fields |-> <<name, key>>] :
              name \in {<<>>, <<5>>, <<1, 0>>}, key \in {<<3, 4>>}}

Offers == {[type |-> "offer", fields |-> <<name, size, <<6, 7>>, chunks>>] :
              name \in {<<2>>}, size \in {0, 9, 511}, chunks \in {0, 63}}

Chunks == {[type |-> "chunk", fields |-> <<index, nonce, ciphertext, <<1, 0>>>>] :
              index \in {0, 9}, nonce \in {<<2>>}, ciphertext \in {<<>>, <<1, 0, 4>>, <<2, 0, 1, 0>>}}

AllMessages == Hellos \cup Offers \cup Chunks

ASSUME MessagesAreRepresentable == Representable
=============================================================================
