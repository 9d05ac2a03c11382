--------------------------- MODULE MoonshineChunks ---------------------------
(***************************************************************************)
(* Which audio a moonshine stream encodes, and when: the cursors of        *)
(* arch/moonshine_streaming/model.cpp.  A feed encodes the frames whose    *)
(* right context has arrived, in a window that reaches back over their     *)
(* left context and over what the convolutions read, drops the audio that  *)
(* no later window reads, and decodes when enough frames are new.          *)
(***************************************************************************)
EXTENDS AudioCursors

CONSTANTS
  FrameLen,      \* samples of an embedder frame (enc_frame_len)
  FrontPad,      \* stream_frontend_pad_frames, in encoder frames
  LeftContext,   \* stream_L_total_frames
  RightContext,  \* stream_R_total_frames
  Throttles      \* bound: values of stream_min_decode_frames

VARIABLES
  step,        \* where in a call the hook is
  interval,    \* stream_min_decode_frames
  lastDecode,  \* stream_last_decoded_T
  emitted      \* stream_T_emitted: encoder frames in the cross-attention cache

moonshineVars == <<step, interval, lastDecode, emitted>>

\* samples_per_encoder_frame: two convolutions of stride two.
Spf == 4 * FrameLen

-----------------------------------------------------------------------------
(* Windows *)

WinStart   == NonNeg(emitted - LeftContext)
SliceStart == WinStart - Min({FrontPad, WinStart})

\* The checks of flush_stable_frames, for a window that ends at frame end.
WindowFits(end) == /\ SliceStart * Spf >= pcmStart
                   /\ end * Spf <= pcmStart + pcm

\* Frames of which the right context is there, and all of them at the end,
\* when the buffer has been padded to whole embedder frames.
Available == (pcmStart + pcm) \div Spf
Stable    == Available - RightContext
Padded    == CeilDiv(pcm, FrameLen) * FrameLen
Total     == (pcmStart + Padded) \div Spf

\* Mutant: the history of the convolutions is dropped.
Trimmed_NoFrontPad(frames) ==
  LET drop == NonNeg(frames - LeftContext) * Spf - pcmStart
  IN  IF 0 < drop /\ drop < pcm THEN drop ELSE 0

\* trim_pcm_buffer: what no later window reads, in whole frames.
Trimmed(frames) ==
  LET drop == NonNeg(frames - LeftContext - FrontPad) * Spf - pcmStart
  IN  IF 0 < drop /\ drop < pcm THEN drop ELSE 0

-----------------------------------------------------------------------------
(* Feed *)

FlushDue  == Stable > emitted
DecodeDue == emitted > lastDecode /\ emitted - lastDecode >= interval

Feed(n) ==
  /\ Appends(n)
  /\ input' = input + n
  /\ step' = "arrived"
  /\ UNCHANGED <<interval, lastDecode, emitted>>

\* flush_stable_frames and the trim.
FeedFlushes ==
  /\ call = "feed" /\ step = "arrived" /\ FlushDue
  /\ WindowFits(Stable + RightContext)
  /\ emitted' = Stable
  /\ committed' = Stable * Spf
  /\ pcm' = pcm - Trimmed(Stable)
  /\ pcmStart' = pcmStart + Trimmed(Stable)
  /\ step' = "flushed"
  /\ UNCHANGED <<path, stream, call, fed, input, interval, lastDecode>>

\* The partial decode of a feed, unless throttled.
FeedEnds ==
  /\ call = "feed"
  /\ \/ step = "arrived" /\ ~FlushDue /\ UNCHANGED lastDecode
     \/ step = "flushed" /\ lastDecode' = IF DecodeDue THEN emitted ELSE lastDecode
  /\ call' = "none" /\ step' = "idle"
  /\ UNCHANGED <<path, stream, fed, input, committed, pcm, pcmStart, interval,
                 emitted>>

-----------------------------------------------------------------------------
(* Finalize *)

Finalize ==
  /\ FinalizeStarts
  /\ step' = "arrived"
  /\ UNCHANGED <<interval, lastDecode, emitted>>

\* A stream that was never fed has an empty result.
FinalizeEmpty ==
  /\ call = "finalize" /\ step = "arrived" /\ pcm = 0 /\ pcmStart = 0
  /\ Finishes
  /\ committed' = input
  /\ step' = "idle"
  /\ UNCHANGED <<input, pcm, interval, lastDecode, emitted>>

\* The frames that waited for their right context.
FinalizeFlushes ==
  /\ call = "finalize" /\ step = "arrived" /\ (pcm > 0 \/ pcmStart > 0)
  /\ pcm' = Padded
  /\ IF Total > emitted
       THEN /\ SliceStart * Spf >= pcmStart
            /\ emitted' = Total
       ELSE UNCHANGED emitted
  /\ step' = "flushed"
  /\ UNCHANGED <<path, stream, call, fed, input, committed, pcmStart, interval,
                 lastDecode>>

\* Mutant: the throttle of the feeds holds for the last decode, too.
FinalizeEnds_Throttled ==
  /\ call = "finalize" /\ step = "flushed"
  /\ lastDecode' = IF DecodeDue THEN emitted ELSE lastDecode
  /\ Finishes
  /\ committed' = input
  /\ step' = "idle"
  /\ UNCHANGED <<input, pcm, interval, emitted>>

\* The last decode, of everything, if frames are new or the decode before
\* gave no result.  Without a frame there is nothing to decode.
FinalizeEnds ==
  /\ call = "finalize" /\ step = "flushed"
  /\ lastDecode' = emitted
  /\ Finishes
  /\ committed' = input
  /\ step' = "idle"
  /\ UNCHANGED <<input, pcm, interval, emitted>>

-----------------------------------------------------------------------------
(* Begin, failures, reset *)

Begin ==
  /\ Begins
  /\ interval' \in Throttles
  /\ lastDecode' = 0 /\ emitted' = 0
  /\ UNCHANGED step

\* An abort or an error within a step; finalize has padded the buffer by then.
Fails ==
  /\ HookFails
  /\ pcm' \in IF call = "finalize" THEN {pcm, Padded} ELSE {pcm}
  /\ step' = "idle"
  /\ UNCHANGED <<pcmStart, interval, lastDecode, emitted>>

\* stream_feed polls before it appends.
FeedAborts == AbortsAtOnce /\ UNCHANGED moonshineVars

Reset ==
  /\ Resets
  /\ pcmStart' = 0 /\ lastDecode' = 0 /\ emitted' = 0
  /\ UNCHANGED <<step, interval>>

MoonshineNext ==
  \/ Begin
  \/ \E n \in Feeds[path] : Feed(n)
  \/ FeedFlushes \/ FeedEnds
  \/ Finalize \/ FinalizeEmpty \/ FinalizeFlushes \/ FinalizeEnds
  \/ Fails \/ FeedAborts \/ Reset

-----------------------------------------------------------------------------
(* Properties *)

\* A frame reads this many embedder frames before its own: two convolutions of
\* width 5 and stride 2.
ConvReach == 12

\* A window that is about to be encoded lies in the audio that is still there,
\* and gives every frame that is emitted from it, and every frame in its left
\* context, the same audio as an encoder that sees the whole stream.
FramesClean ==
  LET last  == call = "finalize"
      upto  == IF last THEN Total ELSE Stable
      heard == pcmStart + IF last THEN Padded ELSE pcm
  IN  path = "moonshine" /\ call # "none" /\ step = "arrived" /\ upto > emitted =>
        /\ SliceStart * Spf >= pcmStart
        /\ SliceStart = 0 \/ 4 * (WinStart - SliceStart) >= ConvReach
        /\ \A f \in emitted .. upto - 1 :
             /\ WinStart <= NonNeg(f - LeftContext)
             /\ last \/ (f + RightContext + 1) * Spf <= heard

\* A finished stream has encoded its audio but for what is short of a whole
\* encoder frame, and its last decode saw every frame, throttled or not.
TailDecoded ==
  path = "moonshine" /\ stream = "FINISHED" =>
    /\ emitted = (CeilDiv(input, FrameLen) * FrameLen) \div Spf
    /\ lastDecode = emitted

\* Between two calls less than the right context and a frame waits, what is
\* committed was encoded, and the buffer holds no more than one window back.
BacklogBounded ==
  path = "moonshine" /\ stream = "ACTIVE" /\ call = "none" =>
    /\ committed = emitted * Spf
    /\ input - committed < (RightContext + 1) * Spf
    /\ pcm < (LeftContext + FrontPad + RightContext + 1) * Spf
    /\ emitted - lastDecode < interval
==============================================================================
