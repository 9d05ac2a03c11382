----------------------------- MODULE MCSession ------------------------------
(***************************************************************************)
(* Session over the six sorts of family; a streaming one of each loop that *)
(* has one (moonshine_streaming, voxtral_realtime, parakeet).              *)
(***************************************************************************)
EXTENDS Session

MCFamilies == {[loop |-> "none",     streams |-> FALSE],
               [loop |-> "clears",   streams |-> TRUE],
               [loop |-> "appends",  streams |-> TRUE],
               [loop |-> "moss",     streams |-> FALSE],
               [loop |-> "slices",   streams |-> TRUE],
               [loop |-> "captures", streams |-> FALSE]}
=============================================================================
