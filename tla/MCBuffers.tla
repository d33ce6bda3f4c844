----------------------------- MODULE MCBuffers -----------------------------
(* Buffers with the values TLC needs. *)
EXTENDS Buffers

MCOctet == <<7>>
MCNetascii == <<7, 7>>
MCHeads == {<<"/">>, <<"/", "d">>, <<"/", "d", "/">>}
MCTails == UNION {[1 .. n -> {"/", "f"}] : n \in 0 .. 4}
============================================================================
