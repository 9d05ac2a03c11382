----------------------------- MODULE MCStreams ------------------------------
(***************************************************************************)
(* Vocabularies for the three families. Bytes: 0 space, 1 and 5 letters, 2 *)
(* and 3 the halves of a two-byte character, 4 a tag or control token. Two *)
(* tokens of moonshine extend one another, so that its texts can agree     *)
(* where its tokens do not.                                                *)
(***************************************************************************)
EXTENDS StreamFamilies

MCSpecial == {<< 4 >>}

MCPieces ==
  [f \in Families |->
     CASE f = "parakeet"  -> {<< 0, 1 >>, << 0 >>, << 2 >>, << 3 >>, << 4 >>}
       [] f = "moonshine" -> {<< 0, 1 >>, << 0, 1, 5 >>}
       [] f = "voxtral"   -> {<< 0, 1 >>, << 2 >>, << 3 >>, << 4 >>}]

MCMaxTokens == [f \in Families |-> IF f = "moonshine" THEN 2 ELSE 3]

MCAgreements ==
  [f \in Families |->
     CASE f = "parakeet"  -> {0}
       [] f = "moonshine" -> {2}
       [] f = "voxtral"   -> {1, 2}]
=============================================================================
