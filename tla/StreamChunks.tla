----------------------------- MODULE StreamChunks -----------------------------
(***************************************************************************)
(* The audio of a stream of any family: the three modules of cursors over  *)
(* the buffer and the calls that they share.                               *)
(***************************************************************************)
EXTENDS AudioCursors

CONSTANTS
  Hop, Pad, Subsampling, SamplingFirst, PreEncodeCache, Drop, CachedMenu,
  BufferedMenu,                                               \* parakeet
  FrameLen, FrontPad, LeftContext, RightContext, Throttles,   \* moonshine
  Win, Down, MelPerTok, LeftTokens, RightTokens, EncWindow, RingSlots,
  MaxBatch, MaxPosition, Delays, Intervals                    \* voxtral

ASSUME GeometryAssumption ==
  /\ Paths \subseteq {"cached", "buffered", "moonshine", "voxtral"}
  /\ {Hop, Pad, Subsampling, SamplingFirst, PreEncodeCache, Drop}
       \subseteq Nat \ {0}
  /\ MaxAudio \in [Paths -> Nat]
  /\ \A p \in Paths :
       /\ Feeds[p] \subseteq Nat \ {0}
       /\ \E most \in Feeds[p] : \A n \in Feeds[p] : n <= most
  /\ \A g \in CachedMenu \cup BufferedMenu :
       /\ {g.left, g.right} \subseteq Nat
       /\ g.chunk \in Nat \ {0}

\* The comment at k_frontend_pad_enc_frames asks for the embedder frames that
\* two convolutions read before a frame: twelve of them, four to a frame.
ASSUME MoonshineAssumption ==
  /\ {FrontPad, LeftContext, RightContext} \subseteq Nat
  /\ 4 * FrontPad >= 12
  /\ FrameLen \in Nat \ {0}
  /\ Throttles \subseteq Nat \ {0}

\* The comment at GUARD asks that half a window fit into the frames that are
\* recomputed, the one at k_enc_ring_ctx for the last two lines, of the ring.
ASSUME VoxtralAssumption ==
  /\ {Win, Down, LeftTokens, RightTokens, EncWindow, RingSlots, MaxBatch,
      MaxPosition} \subseteq Nat \ {0}
  /\ MelPerTok = 2 * Down /\ Win <= LeftTokens * MelPerTok * Hop
  /\ Win <= 2 * 4 * Hop
  /\ Delays \subseteq Nat \ {0} /\ Intervals \subseteq Nat
  /\ \A d \in Delays : 1 + LeftTokens + d <= MaxPosition
  /\ MaxBatch + EncWindow <= RingSlots
  /\ MaxBatch % Down = 0

VARIABLES
  geom, frameOffset, consumed, firstChunk, nextRead, ctx, initialized,
  decoded,                                                    \* parakeet
  emitted,                                                    \* moonshine
  delay, melDone, toEncode, encDone, ring, slot, absBase, tokReady, audioBase,
  promptDone, decPos, eos, clamp, truncated,                  \* voxtral
  step, interval, lastDecode                                  \* the last two

Parakeet  == INSTANCE ParakeetChunks
Moonshine == INSTANCE MoonshineChunks
Voxtral   == INSTANCE VoxtralChunks

\* Of the encoder of parakeet's cached path: what the code supports, and that
\* the frames which the history of a chunk adds are those that are dropped.
ASSUME ParakeetAssumption ==
  /\ Subsampling = 8 /\ SamplingFirst = 1
  /\ Drop = Parakeet!EncFrames(PreEncodeCache, TRUE)

parakeetVars  == <<geom, frameOffset, consumed, firstChunk, nextRead, ctx,
                   initialized, decoded>>
throttleVars  == <<step, interval, lastDecode>>
voxtralVars   == <<delay, melDone, toEncode, encDone, ring, slot, absBase, tokReady,
                   audioBase, promptDone, decPos, eos, clamp, truncated>>
vars == <<cursors, parakeetVars, emitted, throttleVars, voxtralVars>>

Init ==
  /\ CursorsInit
  /\ Parakeet!ParakeetInit
  /\ emitted = 0
  /\ Voxtral!VoxtralInit
  /\ step = "idle" /\ interval = 0 /\ lastDecode = 0

Next ==
  \/ /\ path \in {"cached", "buffered"} /\ Parakeet!ParakeetNext
     /\ UNCHANGED <<emitted, throttleVars, voxtralVars>>
  \/ /\ path = "moonshine" /\ Moonshine!MoonshineNext
     /\ UNCHANGED <<parakeetVars, voxtralVars>>
  \/ /\ path = "voxtral" /\ Voxtral!VoxtralNext
     /\ UNCHANGED <<parakeetVars, emitted>>

Spec == Init /\ [][Next]_vars

-----------------------------------------------------------------------------
(* Properties *)

TypeOK ==
  /\ path \in Paths
  /\ stream \in {"IDLE", "ACTIVE", "FINISHED", "FAILED"}
  /\ call \in {"none", "feed", "finalize"}
  /\ {fed, input, committed, pcm, pcmStart} \subseteq Nat
  /\ Parakeet!TypeOK
  /\ step \in {"idle", "arrived", "flushed", "mel", "encode", "decode", "leave", "wait"}
  /\ {emitted, interval, lastDecode} \subseteq Nat
  /\ {melDone, toEncode, encDone, slot, absBase, tokReady, audioBase, decPos}
       \subseteq Nat
  /\ delay \in Delays \cup {-1} /\ clamp \in Nat \cup {-1}
  /\ ring \in [0 .. RingSlots - 1 -> Nat \cup {-1}]
  /\ {promptDone, eos, truncated} \subseteq BOOLEAN

\* Every mel or encoder frame that a step reads comes from audio that is still
\* in the buffer, and has around it the audio that it has in the whole stream:
\* neither the trim after an earlier feed nor the end of the buffer reaches
\* into it.  Only the tail may read the padded end.
FramesClean ==
  Parakeet!FramesClean /\ Moonshine!FramesClean /\ Voxtral!FramesClean

\* The steps of parakeet's buffered path decode the audio without gap.
ChunksTile == Parakeet!ChunksTile

\* The ring of voxtral's encoder holds what a batch attends to.
RingHoldsWindow == Voxtral!RingHoldsWindow

\* While a stream runs, the cursors that count the same audio in different
\* units agree: token times do not drift.
FramesKeepTime == Parakeet!FramesKeepTime /\ Voxtral!FramesKeepTime

\* A finished stream has encoded and decoded its audio to the end, with the
\* exceptions that the families state.
TailDecoded ==
  Parakeet!TailDecoded /\ Moonshine!TailDecoded /\ Voxtral!TailDecoded

\* Between two calls no sample is lost count of, what is committed was fed,
\* and the backlog stays below a bound that the geometry gives.
BacklogBounded ==
  /\ stream = "ACTIVE" /\ call = "none" => pcmStart + pcm = fed /\ committed <= input
  /\ Parakeet!BacklogBounded /\ Moonshine!BacklogBounded
  /\ Voxtral!BacklogBounded

\* "Flushes buffered audio, satisfies right-context / lookahead requirements, and
\* emits remaining text" (transcribe.h, of finalize).
AllDecoded == Parakeet!AllDecoded

\* "input_received_ms  Total audio received by the stream since begin"
\* (transcribe.h, of an update).
InputIsTotal == stream \in {"ACTIVE", "FINISHED"} /\ call = "none" => input = fed
===============================================================================
