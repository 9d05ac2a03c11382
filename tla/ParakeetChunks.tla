--------------------------- MODULE ParakeetChunks ---------------------------
(***************************************************************************)
(* Which audio a parakeet stream encodes, and when: the cursors of         *)
(* arch/parakeet/model.cpp.  Sound and text are abstracted away; samples,  *)
(* mel frames and encoder frames are counted.  A model streams in one of   *)
(* two ways.  "cached" (chunked_limited): mel frames of a PCM buffer that  *)
(* is trimmed after every feed, an encoder with caches.  "buffered"        *)
(* (chunked_limited_with_rc): the offline encoder over a sliding window    *)
(* [left | chunk | right] of a PCM buffer that is kept whole.              *)
(***************************************************************************)
EXTENDS AudioCursors

CONSTANTS
  Hop,             \* samples between two mel frames (fe_hop_length)
  Pad,             \* half of an STFT window (fe_n_fft / 2)
  Subsampling,     \* mel frames of one encoder frame
  SamplingFirst,   \* sampling_frames_first of the streaming configuration
  PreEncodeCache,  \* mel frames of history put before a chunk
  Drop,            \* encoder frames of that history (drop_extra_pre_encoded)
  CachedMenu,      \* [left, chunk, right] a caller may choose, in frames
  BufferedMenu

VARIABLES
  geom,         \* the geometry that stream_begin resolved
  frameOffset,  \* stream_dec_state.frame_offset
  consumed,     \* cached: mel_frames_consumed
  firstChunk,   \* cached: is_first_chunk
  nextRead,     \* buffered: buf_next_audio_read
  ctx,          \* buffered: buf_ctx_left, buf_ctx_chunk, buf_ctx_right
  initialized,  \* buffered: buf_initialized
  decoded       \* history, buffered: where the decoded audio ends

cachedVars   == <<consumed, firstChunk>>
bufferedVars == <<nextRead, ctx, initialized, decoded>>
parakeetVars == <<geom, frameOffset, cachedVars, bufferedVars>>

Frame     == Subsampling * Hop
NoContext == [left |-> 0, chunk |-> 0, right |-> 0]
Menu      == IF path = "cached" THEN CachedMenu ELSE BufferedMenu

-----------------------------------------------------------------------------
(* Frames *)

\* MelFrontend::compute: centred frames, none for less than two of them.
MelFrames(samples) ==
  IF samples < Hop THEN 0 ELSE samples \div Hop + 1

\* Three convolutions of stride two, causal in the cached path alone.
ConvOut(t, causal)   == IF causal THEN t \div 2 + 1 ELSE (t - 1) \div 2 + 1
EncFrames(t, causal) == ConvOut(ConvOut(ConvOut(t, causal), causal), causal)

-----------------------------------------------------------------------------
(* The cached path *)

Margin  == (Pad + Hop - 1) \div Hop
Advance == (IF firstChunk THEN SamplingFirst ELSE Subsampling)
             + Subsampling * geom.right
Prepend == IF firstChunk THEN 0 ELSE PreEncodeCache
Avail   == pcmStart \div Hop + MelFrames(pcm)

CachedDue == /\ MelFrames(pcm) > 0
             /\ Avail - consumed >= Advance + Margin

\* Mutant: the frames of the history are decoded a second time.
EmitCached_NoDrop(take) ==
  /\ frameOffset' = frameOffset + EncFrames(Prepend + take, TRUE)
  /\ consumed' = consumed + take
  /\ firstChunk' = FALSE

\* emit_streaming_chunk of take mel frames behind the prepended history.
EmitCached(take) ==
  /\ frameOffset' = frameOffset + EncFrames(Prepend + take, TRUE)
                      - (IF firstChunk THEN 0 ELSE Drop)
  /\ consumed' = consumed + take
  /\ firstChunk' = FALSE

\* Mutant: the left half of the first window is forgotten.
KeepFrom_NoPad == (consumed - PreEncodeCache) * Hop

\* What stays in the buffer after a feed: the history of the next chunk and
\* the left half of its first window; what is dropped is whole hops.
KeepFrom == (consumed - PreEncodeCache) * Hop - Pad
Trimmed  == LET whole == ((KeepFrom - pcmStart) \div Hop) * Hop
            IN  IF KeepFrom > pcmStart /\ whole <= pcm THEN whole ELSE 0

FeedChunkCached ==
  /\ path = "cached" /\ call = "feed" /\ CachedDue
  /\ EmitCached(Advance)
  /\ UNCHANGED <<cursors, geom, bufferedVars>>

\* Mutant: samples are erased, and pcm_start_sample stays.
FeedEndsCached_KeepsStart ==
  /\ path = "cached" /\ call = "feed" /\ ~CachedDue
  /\ call' = "none"
  /\ pcm' = pcm - Trimmed
  /\ committed' = consumed * Hop
  /\ UNCHANGED <<path, stream, fed, input, pcmStart, parakeetVars>>

\* A buffer too short for a mel frame ends the feed before the trim and the
\* commit, which would change nothing: nothing has been consumed then.
FeedEndsCached ==
  /\ path = "cached" /\ call = "feed" /\ ~CachedDue
  /\ call' = "none"
  /\ pcm' = pcm - Trimmed
  /\ pcmStart' = pcmStart + Trimmed
  /\ committed' = consumed * Hop
  /\ UNCHANGED <<path, stream, fed, input, parakeetVars>>

\* Mutant: a tail shorter than a chunk is left out.
FinalizeCached_WholeChunks ==
  /\ path = "cached" /\ call = "finalize"
  /\ IF MelFrames(pcm) > 0 /\ Avail - consumed >= Advance
       THEN EmitCached(Avail - consumed)
       ELSE UNCHANGED <<frameOffset, consumed, firstChunk>>
  /\ Finishes /\ committed' = input
  /\ UNCHANGED <<input, pcm, geom, bufferedVars>>

\* The tail: every mel frame that is left, the right edge included.
FinalizeCached ==
  /\ path = "cached" /\ call = "finalize"
  /\ IF MelFrames(pcm) > 0 /\ Avail > consumed
       THEN EmitCached(Avail - consumed)
       ELSE UNCHANGED <<frameOffset, consumed, firstChunk>>
  /\ Finishes /\ committed' = input
  /\ UNCHANGED <<input, pcm, geom, bufferedVars>>

-----------------------------------------------------------------------------
(* The buffered path *)

\* Mutant: every step waits for, and takes, the audio of a first one.
NumNew_AlwaysFirst == (geom.chunk + geom.right) * Frame

\* New samples of the next step: the first also takes the right context.
NumNew == (geom.chunk + (IF initialized THEN 0 ELSE geom.right)) * Frame

BufferedDue == nextRead + NumNew <= pcm

\* Mutant: the last step does not fold the right context into the chunk.
AddFrames_NoFold(num_new, is_last) ==
  LET left  == ctx.left + ctx.chunk
      chunk == IF is_last THEN num_new ELSE geom.chunk * Frame
      right == IF is_last THEN 0 ELSE ctx.right + num_new - chunk
      extra == Max({0, left + chunk + right
                         - (geom.left + geom.chunk + geom.right) * Frame})
  IN  [left |-> left - extra, chunk |-> chunk, right |-> right]

\* buf_ctx_add_frames: what was new becomes right context, of which a chunk
\* moves on, or on the last step everything; the left context makes room.
AddFrames(num_new, is_last) ==
  LET left  == ctx.left + ctx.chunk
      ahead == ctx.right + num_new
      chunk == IF is_last THEN ahead ELSE geom.chunk * Frame
      extra == Max({0, left + ahead
                         - (geom.left + geom.chunk + geom.right) * Frame})
  IN  [left |-> left - extra, chunk |-> chunk, right |-> ahead - chunk]

Window(c)     == c.left + c.chunk + c.right
LeftFrames(c) == c.left \div Frame

\* Encoder frames decoded of a window: the chunk's, or on the last step all
\* behind the left context.
ToDecode(c, is_last) ==
  LET avail == EncFrames(MelFrames(Window(c)), FALSE) - LeftFrames(c)
  IN  Max({0, IF is_last THEN avail ELSE Min({c.chunk \div Frame, avail})})

\* Where in the stream the window of a step, and what it decodes, begins.
WindowStart(c, num_new) == nextRead + num_new - Window(c)
DecodeStart(c, num_new) == WindowStart(c, num_new) + LeftFrames(c) * Frame

EmitBuffered(num_new, is_last) ==
  LET c == AddFrames(num_new, is_last)
      n == ToDecode(c, is_last)
  IN  /\ ctx' = c
      /\ nextRead' = nextRead + num_new
      /\ initialized' = TRUE
      /\ frameOffset' = frameOffset + n
      /\ decoded' = IF n = 0 THEN decoded
                             ELSE DecodeStart(c, num_new) + n * Frame

FeedChunkBuffered ==
  /\ path = "buffered" /\ call = "feed" /\ BufferedDue
  /\ EmitBuffered(NumNew, FALSE)
  /\ UNCHANGED <<cursors, geom, cachedVars>>

\* The commit cursor follows only when the feed decoded a token.
FeedEndsBuffered ==
  /\ path = "buffered" /\ call = "feed" /\ ~BufferedDue
  /\ call' = "none"
  /\ committed' \in {committed, nextRead}
  /\ UNCHANGED <<path, stream, fed, input, pcm, pcmStart, parakeetVars>>

\* A last step over what no feed has read yet, if there is any.  A stream
\* too short for two mel frames fails in it.
FinalizeBuffered ==
  /\ path = "buffered" /\ call = "finalize"
  /\ IF nextRead < pcm
       THEN /\ MelFrames(Window(AddFrames(pcm - nextRead, TRUE))) > 0
            /\ EmitBuffered(pcm - nextRead, TRUE)
       ELSE UNCHANGED <<frameOffset, bufferedVars>>
  /\ Finishes /\ committed' = input
  /\ UNCHANGED <<input, pcm, geom, cachedVars>>

-----------------------------------------------------------------------------
(* Calls *)

\* stream_begin: the part both paths share, and the cursors of each.
Begin(g) == Begins /\ geom' = g /\ frameOffset' = 0

BeginCached ==
  /\ path = "cached"
  /\ \E g \in CachedMenu : Begin(g)
  /\ consumed' = 0 /\ firstChunk' = TRUE
  /\ UNCHANGED bufferedVars

BeginBuffered ==
  /\ path = "buffered"
  /\ \E g \in BufferedMenu : Begin(g)
  /\ nextRead' = 0 /\ ctx' = NoContext /\ initialized' = FALSE /\ decoded' = 0
  /\ UNCHANGED cachedVars

\* stream_feed appends before anything else.
Feed(n) == Appends(n) /\ input' = input + n /\ UNCHANGED parakeetVars

Finalize == FinalizeStarts /\ UNCHANGED parakeetVars

\* An abort before or a failure within a step.  The step may already have
\* cleared is_first_chunk, or moved the context of the window.
Fails ==
  /\ HookFails
  /\ UNCHANGED <<pcm, pcmStart, geom, frameOffset, consumed, nextRead,
                 initialized, decoded>>

FailsCached ==
  /\ path = "cached"
  /\ Fails
  /\ firstChunk' \in {firstChunk, FALSE}
  /\ UNCHANGED ctx

FailsBuffered ==
  /\ path = "buffered"
  /\ Fails
  /\ \/ UNCHANGED ctx
     \/ call = "feed" /\ BufferedDue /\ ctx' = AddFrames(NumNew, FALSE)
     \/ /\ call = "finalize" /\ nextRead < pcm
        /\ ctx' = AddFrames(pcm - nextRead, TRUE)
  /\ UNCHANGED firstChunk

\* The hook clears the buffer and leaves the cursors to the next begin.
Reset == Resets /\ UNCHANGED <<pcmStart, parakeetVars>>

ParakeetInit ==
  /\ geom = NoContext
  /\ frameOffset = 0
  /\ consumed = 0 /\ firstChunk = TRUE
  /\ nextRead = 0 /\ ctx = NoContext /\ initialized = FALSE /\ decoded = 0

ParakeetNext ==
  \/ BeginCached \/ BeginBuffered
  \/ \E n \in Feeds[path] : Feed(n)
  \/ FeedChunkCached \/ FeedEndsCached
  \/ FeedChunkBuffered \/ FeedEndsBuffered
  \/ Finalize \/ FinalizeCached \/ FinalizeBuffered
  \/ FailsCached \/ FailsBuffered \/ Reset

-----------------------------------------------------------------------------
(* Properties *)

\* The cursors are counts, and the context of the window never goes negative.
TypeOK ==
  /\ geom \in Menu \cup {NoContext}
  /\ {frameOffset, consumed, nextRead, decoded, ctx.left, ctx.chunk, ctx.right}
       \subseteq Nat
  /\ {firstChunk, initialized} \subseteq BOOLEAN

\* Half a window of mel frame f lies inside the buffer, or beyond the real
\* start of the stream.
LeftClean(f)  == pcmStart = 0 \/ f * Hop - Pad >= pcmStart
RightClean(f) == f * Hop + Pad <= pcmStart + pcm

\* Every mel frame that a chunk reads, its history included, comes from a
\* window of real audio: neither the trim after an earlier feed nor the end
\* of the buffer reaches into it.  Only the tail may read the padded end.
FramesClean ==
  path = "cached" /\ stream = "ACTIVE" =>
    /\ call = "feed" /\ CachedDue =>
         \A f \in consumed - Prepend .. consumed + Advance - 1 :
           f >= 0 => LeftClean(f) /\ RightClean(f)
    /\ call = "finalize" =>
         \A f \in consumed - Prepend .. Avail - 1 : f >= 0 => LeftClean(f)

\* A buffered step reads a window that lies in the audio that was fed, and
\* decodes from where the step before ended: no gap, and on the last step,
\* whose left context is not whole frames, an overlap of less than a frame.
ChunksTile ==
  path = "buffered" /\ stream = "ACTIVE" =>
    LET last    == call = "finalize"
        num_new == IF last THEN pcm - nextRead ELSE NumNew
        c       == AddFrames(num_new, last)
        start   == DecodeStart(c, num_new)
    IN  (call = "feed" /\ BufferedDue) \/ (last /\ nextRead < pcm) =>
          /\ WindowStart(c, num_new) >= 0
          /\ start <= decoded
          /\ decoded - start < IF last THEN Frame ELSE 1

\* While a stream runs, the frame that the decoder stamps on its next token is
\* the one of the audio that comes next, whichever chunks were cut: token
\* times do not drift.
FramesKeepTime ==
  stream = "ACTIVE" =>
    /\ path = "cached" =>
         frameOffset = (consumed + Subsampling - 1) \div Subsampling
    /\ path = "buffered" => frameOffset * Frame = decoded

\* A finished stream has encoded its audio to the last mel frame.  The
\* buffered path has one exception: when the feeds have read everything, the
\* right context of the last window is not decoded.
TailDecoded ==
  stream = "FINISHED" /\ input >= Hop =>
    /\ path = "cached" => consumed = MelFrames(input)
    /\ path = "buffered" =>
         \/ decoded >= input
         \/ /\ nextRead = input
            /\ decoded + geom.right * Frame = input

\* Between two calls the audio that the cached path holds back, and the buffer
\* it is held in, stay below a bound that the geometry gives.
BacklogBounded ==
  path = "cached" /\ stream = "ACTIVE" /\ call = "none" =>
    /\ input - committed < (Advance + Margin) * Hop
    /\ pcm < (Advance + Margin + PreEncodeCache) * Hop + Pad

\* transcribe.h says of finalize that it flushes buffered audio, satisfies
\* right-context requirements and emits the remaining text: a finished stream
\* of at least a frame would have decoded all its audio.
AllDecoded ==
  path = "buffered" /\ stream = "FINISHED" /\ input >= Frame
    => decoded >= input
=============================================================================
