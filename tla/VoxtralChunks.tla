---------------------------- MODULE VoxtralChunks ----------------------------
(***************************************************************************)
(* Which audio a voxtral_realtime stream encodes and decodes, and when:    *)
(* stream_process and the hooks around it in                               *)
(* arch/voxtral_realtime/model.cpp.  The stream is audio behind a pad of   *)
(* silence.  A call computes the mel frames of a window at its end, turns  *)
(* whole tokens' worth of them into frames of an encoder whose cache is a  *)
(* ring, and decodes one token for each that the encoder has finished.     *)
(***************************************************************************)
EXTENDS AudioCursors

CONSTANTS
  Hop,           \* samples between two mel frames (fe_hop_length)
  Win,           \* samples of an STFT window (fe_win_length, fe_n_fft)
  Down,          \* encoder frames of a token (proj_downsample)
  MelPerTok,     \* mel frames of a token (audio_length_per_tok)
  LeftTokens,    \* silence before the audio, in tokens (n_left_pad)
  RightTokens,   \* silence behind it, the delay not counted (1 + 10)
  EncWindow,     \* frames that the encoder attends to (enc_sliding_window)
  RingSlots,     \* k_enc_ring_ctx
  MaxBatch,      \* k_enc_max_batch
  MaxPosition,   \* dec_max_position
  Delays,        \* bound: values of num_delay
  Intervals      \* bound: decode intervals, in samples

VARIABLES
  step,        \* where in a call the hook is
  interval,    \* stream_min_decode_ms, in samples
  lastDecode,  \* stream_last_decode_samples
  delay,       \* stream_num_delay
  melDone,     \* stream_n_mel_committed
  toEncode,    \* encoder frames of this call that are still to be encoded
  encDone,     \* stream_n_enc_committed
  ring,        \* enc_kv: which frame each slot holds
  slot,        \* stream_enc_slot
  absBase,     \* stream_enc_abs_base
  tokReady,    \* stream_n_tok_ready
  audioBase,   \* stream_audio_base
  promptDone,  \* stream_prompt_done
  decPos,      \* stream_dec_pos
  eos,         \* stream_eos
  clamp,       \* stream_n_audio_clamp
  truncated    \* was_truncated

encoderVars  == <<melDone, toEncode, encDone, ring, slot, absBase, tokReady>>
decoderVars  == <<audioBase, promptDone, decPos, eos, clamp, truncated>>
throttleVars == <<interval, lastDecode, delay>>
voxtralVars  == <<step, throttleVars, encoderVars, decoderVars>>

RawPerTok == MelPerTok * Hop
Left      == LeftTokens * RawPerTok
Prompt    == 1 + LeftTokens + delay
Guard     == 4
Final     == call = "finalize"

Empty     == -1
EmptyRing == [s \in 0 .. RingSlots - 1 |-> Empty]

-----------------------------------------------------------------------------
(* The mel window *)

Audio      == pcmStart + pcm
MelOff     == NonNeg(melDone - Guard)
WinSample  == MelOff * Hop
TotalAbs   == IF Final
                THEN Left + CeilDiv(Audio, RawPerTok) * RawPerTok
                       + (delay + RightTokens) * RawPerTok
                ELSE Left + Audio

\* Mutant: audio is erased up to the first new frame, without the guard.
Erased_NoGuard == NonNeg(melDone * Hop - Left - pcmStart)

\* Audio in front of the window is erased: no later window reads it.
Erased == NonNeg(WinSample - Left - pcmStart)

\* MelFrontend::compute with a fixed maximum drops the last, centred frame.  A
\* feed takes only frames whose window lies in the audio.
MelReady ==
  LET shown == MelOff + (TotalAbs - WinSample) \div Hop
  IN  IF Final THEN shown
               ELSE Min({NonNeg((TotalAbs - Win) \div Hop + 1), shown})

\* New mel frames, whole tokens' worth.
NewMel == ((MelReady - melDone) \div (2 * Down)) * 2 * Down

\* stream_process up to the convolutions.  Too little audio ends the call
\* with nothing published.
ComputeMel ==
  /\ step = "mel"
  /\ IF (pcm = 0 /\ ~Final) \/ TotalAbs <= WinSample
       THEN step' = "leave" /\ UNCHANGED <<pcm, pcmStart, melDone, toEncode, clamp>>
       ELSE /\ TotalAbs - WinSample >= Hop
            /\ pcm' = pcm - Erased
            /\ pcmStart' = pcmStart + Erased
            /\ IF MelReady <= 4
                 THEN step' = "leave" /\ UNCHANGED <<melDone, toEncode, clamp>>
                 ELSE /\ melDone' = melDone + NonNeg(NewMel)
                      /\ toEncode' = NonNeg(NewMel) \div 2
                      /\ clamp' = IF Final THEN ((MelReady - 2) \div 2 + 1) \div Down
                                           ELSE clamp
                      /\ step' = IF NewMel > 0 THEN "encode" ELSE "decode"
  /\ UNCHANGED <<path, stream, call, fed, input, committed, throttleVars, encDone,
                 ring, slot, absBase, tokReady, audioBase, promptDone, decPos,
                 eos, truncated>>

-----------------------------------------------------------------------------
(* The encoder ring *)

Batch == Min({toEncode, MaxBatch})

\* Mutant: the ring is compacted, and the position of its first slot stays.
Compacted_KeepsBase ==
  LET keep == Min({slot, EncWindow})
  IN  [ring |-> [s \in DOMAIN ring |->
                   IF s < keep THEN ring[slot - keep + s] ELSE ring[s]],
       slot |-> keep, base |-> absBase]

\* compact_enc_ring: the last EncWindow frames move to the front.
Compacted ==
  LET keep == Min({slot, EncWindow})
  IN  [ring |-> [s \in DOMAIN ring |->
                   IF s < keep THEN ring[slot - keep + s] ELSE ring[s]],
       slot |-> keep, base |-> absBase + slot - keep]

\* The ring that a batch is written to: compacted if it would overflow.
Room == IF slot + Batch > RingSlots
          THEN Compacted
          ELSE [ring |-> ring, slot |-> slot, base |-> absBase]

ReadStart == NonNeg(Room.slot - (EncWindow - 1))

EncodeBatch ==
  /\ step = "encode"
  /\ Room.slot + Batch <= RingSlots
  /\ ring' = [s \in DOMAIN ring |->
                IF s \in Room.slot .. Room.slot + Batch - 1
                  THEN encDone + s - Room.slot ELSE Room.ring[s]]
  /\ slot' = Room.slot + Batch
  /\ absBase' = Room.base
  /\ encDone' = encDone + Batch
  /\ tokReady' = tokReady + Batch \div Down
  /\ toEncode' = toEncode - Batch
  /\ step' = IF toEncode' = 0 THEN "decode" ELSE "encode"
  /\ UNCHANGED <<cursors, throttleVars, melDone, decoderVars>>

-----------------------------------------------------------------------------
(* The decoder *)

\* Tokens that may be decoded, before and with the limit of the model.
Due == IF Final /\ clamp >= 0 THEN Min({tokReady, clamp}) ELSE tokReady
Cap == Min({Due, MaxPosition})

PromptDue == ~promptDone /\ tokReady >= Prompt
TokenDue  == promptDone /\ ~eos /\ decPos < Cap

\* The prompt is read at once; its token is not compared with the end.
ReadPrompt ==
  /\ step = "decode" /\ PromptDue
  /\ promptDone' = TRUE
  /\ decPos' = Prompt
  /\ UNCHANGED <<cursors, step, throttleVars, encoderVars, audioBase, eos, clamp,
                 truncated>>

DecodeToken ==
  /\ step = "decode" /\ TokenDue
  /\ decPos' = decPos + 1
  /\ eos' \in BOOLEAN
  /\ UNCHANGED <<cursors, step, throttleVars, encoderVars, audioBase, promptDone,
                 clamp, truncated>>

\* The embeddings of decoded tokens are released, and the text is published.
Publish ==
  /\ step = "decode" /\ ~PromptDue /\ ~TokenDue
  /\ truncated' = (truncated \/ (promptDone /\ ~eos /\ MaxPosition < Due
                                   /\ decPos >= Cap))
  /\ audioBase' = Max({audioBase, decPos})
  /\ step' = "leave"
  /\ UNCHANGED <<cursors, throttleVars, encoderVars, promptDone, decPos, eos, clamp>>

-----------------------------------------------------------------------------
(* Calls *)

Begin ==
  /\ Begins
  /\ delay' \in Delays /\ interval' \in Intervals /\ lastDecode' = 0
  /\ melDone' = 0 /\ toEncode' = 0 /\ encDone' = 0 /\ tokReady' = 0
  /\ ring' = EmptyRing /\ slot' = 0 /\ absBase' = 0
  /\ audioBase' = 0 /\ promptDone' = FALSE /\ decPos' = 0
  /\ eos' = FALSE /\ clamp' = -1 /\ truncated' = FALSE
  /\ UNCHANGED step

\* What is reported as received is what the buffer holds.
Feed(n) ==
  /\ Appends(n)
  /\ input' = pcm'
  /\ step' = IF pcm' - lastDecode >= interval THEN "mel" ELSE "wait"
  /\ UNCHANGED <<throttleVars, encoderVars, decoderVars>>

FeedEnds ==
  /\ call = "feed" /\ step \in {"wait", "leave"}
  /\ call' = "none" /\ step' = "idle"
  /\ lastDecode' = IF step = "leave" THEN pcm ELSE lastDecode
  /\ UNCHANGED <<path, stream, fed, input, committed, pcm, pcmStart, interval, delay,
                 encoderVars, decoderVars>>

Finalize ==
  /\ FinalizeStarts
  /\ step' = "mel"
  /\ UNCHANGED <<throttleVars, encoderVars, decoderVars>>

FinalizeEnds ==
  /\ call = "finalize" /\ step = "leave"
  /\ Finishes
  /\ input' = pcm /\ committed' = pcm
  /\ step' = "idle"
  /\ UNCHANGED <<pcm, throttleVars, encoderVars, decoderVars>>

\* Both hooks poll before they do anything.
Aborts == AbortsAtOnce /\ UNCHANGED voxtralVars

\* An abort between two steps, or an error in one.  It may have erased audio,
\* or compacted the ring, by then.
Fails ==
  /\ HookFails
  /\ \/ UNCHANGED <<pcm, pcmStart>>
     \/ step = "mel" /\ pcm' = pcm - Erased /\ pcmStart' = pcmStart + Erased
  /\ \/ UNCHANGED <<ring, slot, absBase>>
     \/ /\ step = "encode"
        /\ ring' = Room.ring /\ slot' = Room.slot /\ absBase' = Room.base
  /\ step' = "idle"
  /\ UNCHANGED <<throttleVars, melDone, toEncode, encDone, tokReady, decoderVars>>

Reset ==
  /\ Resets
  /\ pcmStart' = 0 /\ lastDecode' = 0 /\ delay' = -1
  /\ melDone' = 0 /\ toEncode' = 0 /\ encDone' = 0 /\ tokReady' = 0
  /\ ring' = EmptyRing /\ slot' = 0 /\ absBase' = 0
  /\ audioBase' = 0 /\ promptDone' = FALSE /\ decPos' = 0
  /\ eos' = FALSE /\ clamp' = -1
  /\ UNCHANGED <<step, interval, truncated>>

VoxtralInit ==
  /\ delay = -1
  /\ melDone = 0 /\ toEncode = 0 /\ encDone = 0 /\ tokReady = 0
  /\ ring = EmptyRing /\ slot = 0 /\ absBase = 0
  /\ audioBase = 0 /\ promptDone = FALSE /\ decPos = 0
  /\ eos = FALSE /\ clamp = -1 /\ truncated = FALSE

VoxtralNext ==
  \/ Begin
  \/ \E n \in Feeds[path] : Feed(n)
  \/ ComputeMel \/ EncodeBatch \/ ReadPrompt \/ DecodeToken \/ Publish
  \/ FeedEnds \/ Finalize \/ FinalizeEnds
  \/ Aborts \/ Fails \/ Reset

-----------------------------------------------------------------------------
(* Properties *)

\* The window that is about to be transformed lies in the audio that is still
\* there, and every new mel frame in it comes from samples that are neither
\* mirrored at its start nor missing at its end: it is the frame that a
\* transform of the whole stream would give.
FramesClean ==
  path = "voxtral" /\ step = "mel" =>
    /\ pcmStart <= NonNeg(WinSample - Left)
    /\ \A m \in melDone .. melDone + NewMel - 1 :
         /\ WinSample = 0 \/ m * Hop - Win \div 2 >= WinSample
         /\ Final \/ m * Hop + Win \div 2 <= TotalAbs

\* When a batch is written, the ring has room for it, and the slots that it
\* attends to hold every frame of the encoder's window, at the position that
\* the mask takes each slot for.
RingHoldsWindow ==
  path = "voxtral" /\ step = "encode" =>
    /\ Room.slot + Batch <= RingSlots
    /\ Room.base + Room.slot = encDone
    /\ \A s \in ReadStart .. Room.slot - 1 : Room.ring[s] = Room.base + s
    /\ \A q \in encDone .. encDone + Batch - 1 :
         \A key \in NonNeg(q - EncWindow + 1) .. q :
           key - Room.base \in ReadStart .. Room.slot + Batch - 1

\* While a stream runs, its cursors name one point in time in three units: mel
\* frames, encoder frames, tokens.
FramesKeepTime ==
  path = "voxtral" /\ stream = "ACTIVE" =>
    /\ melDone = 2 * (encDone + toEncode)
    /\ step # "encode" => toEncode = 0
    /\ encDone = Down * tokReady
    /\ audioBase <= decPos /\ decPos <= tokReady

\* A finished stream has encoded its audio, rounded up to tokens, between the
\* silence before and after it, and decoded a token for each, unless the model
\* ended the text or its last position was reached; the latter is told.
TailDecoded ==
  path = "voxtral" /\ stream = "FINISHED" =>
    /\ tokReady = LeftTokens + CeilDiv(fed, RawPerTok) + delay + RightTokens
    /\ eos \/ truncated \/ decPos = tokReady
    /\ truncated => decPos = MaxPosition /\ decPos < tokReady

\* Between two calls the audio that is held is bounded, whatever the length of
\* the stream, and what was encoded has been decoded, as far as there is more
\* to be said.
BacklogBounded ==
  path = "voxtral" /\ stream = "ACTIVE" /\ call = "none" =>
    /\ pcm - lastDecode < Max({1, interval})
    /\ melDone > 0 =>
         Left + Audio - melDone * Hop < MelPerTok * Hop + Win + pcm - lastDecode
    /\ pcm < (Guard + MelPerTok) * Hop + Win + 2 * (interval + Max(Feeds[path]))
    /\ promptDone /\ ~eos /\ ~truncated => decPos = tokReady
==============================================================================
