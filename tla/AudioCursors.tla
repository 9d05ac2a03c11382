---------------------------- MODULE AudioCursors ----------------------------
(***************************************************************************)
(* What the streaming hooks of every family share: a buffer of samples     *)
(* that feeds extend and that is erased from the front, the progress that  *)
(* is reported, and the course of a call.  Sound and text are abstracted   *)
(* away; samples are counted.  Between the start of a hook and its return  *)
(* the family takes steps of its own.                                      *)
(***************************************************************************)
EXTENDS Integers, FiniteSetsExt

CONSTANTS
  Paths,    \* ways of streaming: "cached", "buffered", "moonshine", "voxtral"
  Feeds,    \* bound: for each path, sample counts of a feed
  MaxAudio  \* bound: for each path, samples of a stream

VARIABLES
  path,       \* the way of streaming, a property of the loaded model
  stream,     \* stream_state of the session
  call,       \* the hook that is running: "none", "feed" or "finalize"
  fed,        \* history: samples fed since begin
  input,      \* stream_audio_input_us, as the last update told it, in samples: the half
              \* microsecond that a feed may lose in samples_to_us is left out
  committed,  \* stream_audio_committed_us, likewise
  pcm,        \* stream_pcm_buffer.size(), stream_pcm.size()
  pcmStart    \* samples erased before it: pcm_start_sample, stream_pcm_drop

cursors == <<path, stream, call, fed, input, committed, pcm, pcmStart>>

NonNeg(n)      == Max({0, n})
CeilDiv(a, b)  == (a + b - 1) \div b

CursorsInit ==
  /\ path \in Paths
  /\ stream = "IDLE" /\ call = "none"
  /\ fed = 0 /\ input = 0 /\ committed = 0 /\ pcm = 0 /\ pcmStart = 0

\* stream_begin, the part of the dispatcher included.
Begins ==
  /\ stream # "ACTIVE"
  /\ stream' = "ACTIVE"
  /\ fed' = 0 /\ input' = 0 /\ committed' = 0 /\ pcm' = 0 /\ pcmStart' = 0
  /\ UNCHANGED <<path, call>>

\* stream_feed appends before it looks at the audio.
Appends(n) ==
  /\ stream = "ACTIVE" /\ call = "none" /\ fed + n <= MaxAudio[path]
  /\ call' = "feed"
  /\ fed' = fed + n
  /\ pcm' = pcm + n
  /\ UNCHANGED <<path, stream, committed, pcmStart>>

FinalizeStarts ==
  /\ stream = "ACTIVE" /\ call = "none"
  /\ call' = "finalize"
  /\ UNCHANGED <<path, stream, fed, input, committed, pcm, pcmStart>>

Finishes ==
  /\ stream' = "FINISHED" /\ call' = "none"
  /\ UNCHANGED <<path, fed, pcmStart>>

\* An answer other than OK: the dispatcher declares the stream failed.
HookFails ==
  /\ call # "none"
  /\ stream' = "FAILED" /\ call' = "none"
  /\ UNCHANGED <<path, fed, input, committed>>

\* A hook that polls the abort callback before it does anything.
AbortsAtOnce ==
  /\ stream = "ACTIVE" /\ call = "none"
  /\ stream' = "FAILED"
  /\ UNCHANGED <<path, call, fed, input, committed, pcm, pcmStart>>

\* The hook clears the buffer, the dispatcher the state and what is reported.
Resets ==
  /\ call = "none"
  /\ stream' = "IDLE"
  /\ pcm' = 0 /\ fed' = 0 /\ input' = 0 /\ committed' = 0
  /\ UNCHANGED <<path, call>>
=============================================================================
