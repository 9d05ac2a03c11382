--------------------------- MODULE MCStreamChunks ---------------------------
(***************************************************************************)
(* Geometries for StreamChunks.  parakeet: hop 160, n_fft 512, subsampling *)
(* 8, one first frame, a history of 9 mel frames of which 2 encoder frames *)
(* are dropped; Hop 5 and Pad 8 keep their ratio.  voxtral: a window of    *)
(* 400 samples and 8 mel frames per token; Win 12 keeps the ratio.         *)
(***************************************************************************)
EXTENDS StreamChunks

Frames(l, c, r) == [left |-> l, chunk |-> c, right |-> r]

MCFeeds ==
  [p \in Paths |-> IF p = "voxtral" THEN {13, 95} ELSE {3, 17, 40, 95}]
MCMaxAudio == [p \in Paths |-> IF p = "voxtral" THEN 300 ELSE 400]

MCCachedMenu   == {Frames(0, 1, r) : r \in {0, 1, 3}}
MCBufferedMenu == {Frames(2, 1, 1), Frames(1, 2, 2), Frames(2, 1, 0)}
=============================================================================
