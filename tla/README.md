# rtranscribe: a formal model

`rtranscribe` is an R package that transcribes speech: R code (`R/*.R`) over an
Rcpp glue layer (`src/transcribe_glue.cpp`) over the vendored C++ library
transcribe.cpp (`src/transcribe-cpp`), which drives some fifteen model families
over ggml. Almost all of it is numeric code whose results nobody can specify.
What can be specified, and what is hard to test, is the thin layer of state
around the decoders: which text of a live stream may be relied on, what a
session shows after an aborted batch, what becomes of a Ctrl-C, of a log
message, of a download that two R sessions make at once, which samples a live
stream still holds when the encoder wants them. This directory holds TLA+
modules for those parts, TLC configurations that check them, and proofs checked
by TLAPS.

Paths below are relative to the root of the repository; `transcribe.cpp` and
`transcribe.h` are `src/transcribe-cpp/src/transcribe.cpp` and
`src/transcribe-cpp/include/transcribe.h`.

## 1. Inventory

| component | state it keeps | operations | interacts with |
|---|---|---|---|
| **stream text** (`transcribe.cpp` 1076-1341, 1695-2045) | `committed_text`, `tentative_text`, `raw_tentative_start_bytes`, `stream_raw_history`, revision, commit policy, agreement | begin, feed, finalize, reset, get_text | calls the hooks of the family, which rewrite the snapshot |
| **streaming families** (`arch/parakeet`, `arch/moonshine_streaming`, `arch/voxtral_realtime`) | emitted ids, token rows, `full_text`, `has_result`, `n_committed_tokens`, id history, audio cursors | stream_begin, stream_feed, stream_finalize, stream_reset | write the session's snapshot; their progress decides what the dispatcher may commit |
| **runs, batches, session lifecycle** (`transcribe.cpp` 1695-2369) | result slot, `batch_results`, `was_aborted`, `was_truncated`, `stream_state`, `stream_last_status` | run, run_batch, stream_*, reset, accessors | the abort callback of the caller; the drivers of the families |
| **batch hooks of the families** (`transcribe-batch-util.cpp`, `arch/*/model.cpp`) | entries of the batch; the counter and the flag of the worker pool; positions, masks, cache and budget of the batched decode | loops over utterances, sliced decodes, features in parallel, lockstep decodes | write `batch_results` themselves; threads of their own |
| **audio of the streaming families** (`stream_process`, `flush_stable_frames`, `emit_streaming_chunk`, ...) | sample buffers that are erased from the front, cursors in samples, mel frames, encoder frames and tokens, throttles, an encoder ring | feed, the chunks or windows of a call, finalize | called by the dispatcher; decide what the decoder hears |
| **abort callback, ticks, hooks** (`transcribe_glue.cpp` 329-447) | process globals `g_interrupted`, `g_check_interrupt`, `g_tick_fn`; the callback on the session | install, poll, tick, remove, re-raise | polled by the library; evaluates R code |
| **log buffer and verbosity** (`transcribe_glue.cpp` 245-326, `R/utils.R`, `R/devices.R`) | buffered messages, threshold, `the$verbosity` | sink, drain, set level | the sink is called from any thread; drained by ticks and at the end of calls |
| **download and cache** (`R/download.R`) | files in a cache directory shared by R sessions | fetch, look, rename, unlink | other R sessions, through the file system |
| handles (`transcribe_glue.cpp` 160-243, `R/session.R`, `R/model.R`) | external pointers, protection slots | create, borrow, finalize | the R collector |
| models, backends, log sink (`transcribe.cpp` 456, 881-946, 1407-1647) | registry of loaded directories, sink | init_backends, load, open, free | once per process or per model |
| whisper long-form (`arch/whisper`) | seek position, prompt, temperature | decode loop with fallback | its session only |
| other decoders, mel, tokenizers, GGUF, ggml | tensors | numeric | none |
| R arguments, audio, results | none | pure functions | none |

The hard behaviours are: hypotheses that revise earlier ones; hooks that fail or
throw half-way; a callback that answers *true* only once; polls at many levels
of loops; flags that survive from one utterance or call to the next; process
globals that must not outlive a call; buffers that are trimmed under cursors
counted in three units; messages that are logged while they are drained; threads
that share a counter; a ring and a read window that are laid out anew in the
middle of a decode; files that several processes share. `PROJECT.json` lists
each hazard at its line, with the properties that would catch it.

What makes each component correct:

* *stream text*: what was once committed never changes while the stream lives;
  only text that the hypotheses agree on is committed; committed and tentative
  text join without a gap; finalize loses nothing; every change is reported.
* *families*: the snapshot they write keeps those promises readable, and their
  own token counts are justified by agreement; the audio they are fed is encoded
  whole, once, and at its own time.
* *audio*: what is erased is never wanted again; the cursors agree on the time;
  a finished stream has been encoded and decoded to its end.
* *batched decodes*: a batch gives what single runs would, and it returns.
* *sessions*: one entry per utterance, each with its own text and its own
  outcome; no accessor shows the text of an earlier call; an abort and a
  truncation are told, and a flag is never that of an earlier call. The loops of
  the families keep this with exceptions, which the properties name (section 4).
* *hooks and log*: a Ctrl-C ends the call and is never silently dropped; hooks
  never outlive their call; each accepted message is shown once, in order.
* *download*: what stands under the model's name is the whole model, as far as
  failures can be noticed.

## 2. Modules

| module | models | state and actions |
|---|---|---|
| `CaptionLog` | the abstract promise of `transcribe.h` (1976): an append-only log | `open`, `log`; `Clear`, `Grow` |
| `StreamText` | the dispatcher's text policy, for **any** family | one action per entry point and outcome: `Begin`, `FeedOk`, `FinalizeOk`, `HookFails`, `Reset`, `Run`; the snapshot that a hook leaves is any value of its type |
| `StreamTokens` | what the families share: rows of tokens, their bytes, tidied spaces | operators over `StreamText`, and what the hooks keep: `emitted` (`raw_tokens` of parakeet, `stream_generated` of voxtral), `tokens`, `idHistory`, `feeds` |
| `ParakeetStream` | append-only emission, all rows committed | `ParakeetBegin/Feed/Finalize/Fails/Reset`, each of which includes the dispatcher's action |
| `MoonshineStream` | decoding afresh at each feed, with an id history | `MoonshineBegin/Buffer/Decode/Finalize*/Fails/Reset/Run` |
| `VoxtralStream` | append-only ids, agreement left to the dispatcher | `VoxtralBegin/Buffer/Decode/Finalize/Fails/Reset` |
| `StreamFamilies` | a session whose model is of one of the three families | `FamiliesNext`: the actions of that family; the properties of all |
| `AudioCursors` | what the audio of all families shares: the buffer, what was fed and reported, the course of a call | `Begins`, `Appends`, `FinalizeStarts`, `Finishes`, `HookFails`, `AbortsAtOnce`, `Resets`, parts of the actions below |
| `ParakeetChunks` | which audio a parakeet stream encodes, and when, in its cached and its buffered way | `BeginCached/Buffered`, `Feed`, one action per chunk (`FeedChunkCached/Buffered`), `FeedEnds*`, `Finalize*`, `Fails*`, `Reset` |
| `MoonshineChunks` | the same of moonshine: stable frames, windows with context on both sides, the trim, the throttle | `Feed`, `FeedFlushes`, `FeedEnds`, `Finalize`, `FinalizeEmpty/Flushes/Ends`, `Fails`, `FeedAborts`, `Begin`, `Reset` |
| `VoxtralChunks` | the same of voxtral: the mel window behind a pad of silence, the encoder ring, the decoder up to its last position | `Feed`, `ComputeMel`, `EncodeBatch` (with the compaction of the ring), `ReadPrompt`, `DecodeToken`, `Publish`, `FeedEnds`, `Finalize`, `FinalizeEnds`, `Aborts`, `Fails`, `Begin`, `Reset` |
| `StreamChunks` | the three over one buffer | `Next`, the actions of the model's family; the properties of all |
| `Session` | a session across its calls, of a model of any family of `Families` | acceptance (`Accept`, `Refuse`, `RefuseRun`), the loop of the dispatcher (`Poll`, `MalformedUtterance`, `SerialUtterance`, `FinishBatch`), those of the families in five shapes (`FamilyUtterance` over a run that clears the slot or appends to it, `MossUtterance`, `SliceUtterance` with and without a clearing before the abort), the batched graph (`GraphBatch`, `GraphFails`), `Throws`, the stream lifecycle, `Reset`; beside them the owner of the callback (`Raise`, `Lower`) |
| `WorkerPool` | `parallel_for_all`: threads that take indices from an atomic counter | the caller (`Call`, `NoItems`, `Start`, `Join`), each thread (`Fetch`, `Work`, `Store`) |
| `BatchedDecode` | `run_batch` of canary over the pool: the encoder by row, then `run_batched_encdec_step_loop` | `PoolEnds`, `Encode`, `NothingToDecode`, `Load`, `FeedPrompt`, `Generate`, `Capture`, `GivesUp` |
| `NativeCall` | one call from R into the library | `Call`, the library (`NextUtterance`, `UtteranceEnds`, `BatchEnds`, `Interrupted`), the ticks, `Return`, `Drain`; beside them the logging threads (`Log`) and the user (`Press`, `Handle`, `SetVerbosity`) |
| `ModelDownload` | `transcribe_download_model` by several sessions | per session `Start`, the fetch in two ways, `Look`, `Rename`, `Unlink`, `Kill`; a fetch may end in an R error (`FetchFails`) or, with `download.file`, fail without one (`FetchFailsUnnoticed`) |
| `StreamTextProofs`, `StreamFamilyProofs`, `SessionProofs`, `NativeCallProofs`, `BatchProofs`, `ModelDownloadProofs` | | theorems about the module of that name |
| `CursorProofs`, `StreamChunkProofs` | | the cursors of moonshine and parakeet; the ring and cursors of voxtral, and the theorems about `StreamChunks` as a whole |
| `MCStreams`, `MCStreamChunks`, `MCSession` | | the alphabets, token pieces, geometries and families of the runs |

How they compose. `ParakeetStream`, `MoonshineStream` and `VoxtralStream`
extend `StreamTokens`, which extends `StreamText`: a family's action is the
family's part conjoined with the dispatcher's. `StreamFamilies` extends the
three, of which the model has one; what another family keeps stays as it is.
Its specification implements `Spec` of `StreamText`, the dispatcher with
arbitrary hooks (theorem `FamiliesImplement`), which in turn implements
`CaptionLog` (`CaptionSpec`). `StreamChunks` instantiates the three modules of
cursors over one buffer. It stands beside
`StreamFamilies`: the one says when a feed decodes, the other what may come of
it, and no state is shared but the call itself. `BatchedDecode` extends
`WorkerPool`, and implements it (`BatchUsesPool`): a batch runs the pool, and
goes on when the pool has answered. `Session` and `NativeCall` look at the same
calls from two sides: `Session` has the results and takes the callback's answer
as given (it may be raised and lowered at any time, since the glue's answers
*true* once per Ctrl-C); `NativeCall` has the callback and leaves the results
out. What `Session` knows of a batched graph (`GraphBatch`) is its outcome;
`BatchedDecode` is what happens inside.

What is data and what is control. A text is a short sequence over an alphabet
of a space, a letter, the two halves of a two-byte character and a tag: enough
to tell trimming, collapsing, byte offsets and character boundaries apart. In
`Session` a text is only the call and the utterance that made it, and a slot the
set of texts whose words it shows, which is what its properties are about. A log message is its level. A file is a number. In the
modules of cursors audio is its length, and a slot of the encoder ring holds the
number of a frame. In `BatchedDecode` the network is a function of what the mask
lets a row see of its own cache: it answers in order as long as it sees its
prompt and its own earlier answers, all of them and nothing else, and noise
otherwise; an answer is its number. All guards, early returns, resets and error paths of the mapped functions are kept.

Definitions whose names are `X_Y`, beside a definition `X`, are mutants: `X` as
a plausible bug would have it. No specification uses them; they show that each
property can fail.

## 3. Runs

| run | what it asks | bounds |
|---|---|---|
| `streams` | Does the dispatcher over each family keep its promises, for all three policies, failures and exceptions included? What is committed was agreed on and said, the seam joins, changes are reported; over the two append-only families the committed text stays readable. | parakeet: 3 tokens of 5 pieces; moonshine: 2 of 2, agreement 2; voxtral: 3 of 4, agreements 1 and 2; 3 feeds |
| `stream_chunks` | Do the steps of a stream read only whole windows of audio that is still there, cover the audio without gap or repetition, keep its time, leave no tail and hold a bounded backlog, in all four ways of streaming? Does the encoder ring hold what a batch attends to? | below |
| `session` | Runs, batches over the dispatcher's loop, the five shapes of family loops and the batched graph, streams and resets on one session: entries, slot, status and flags under aborts, failures and exceptions. | six sorts of family, 3 utterances, 3 calls |
| `batched_decode` | Features in parallel, encoder, lockstep decode: is each utterance's work done once, does a batch give what single runs would, and does it return? | 3 utterances, 2 threads, a budget of 3 answers, prompts of 1 and 3, contexts of 4, 5 and 8, a window from 2 |
| `native_call` | Ctrl-C, ticks, hooks, log and verbosity around a call. | 2 utterances, 3 accepted messages, a buffer of 2, 2 levels |
| `model_download` | Two sessions download one model, by either method, with failures that are noticed and failures that are not, and kills. | 2 sessions, 3 fetches |

and six runs that end in a counterexample, section 6.

Why the bounds are enough. *Streams*: the policies compare the last
`agreementN` hypotheses, so two hypotheses agreeing and a third that contradicts
them is the first interesting case; three feeds reach it, and a second stream on
the session begins anew within the run. Three tokens leave room for a character
split over two tokens with something before it. *Sessions*: two utterances are
one that succeeds, or is truncated, before one that fails or is whole; three let
an abort hit the middle.
Three calls are a batch, something that refuses or replaces it, and what follows.
*Chunks of parakeet*: hop 5 and half window 8 keep the ratio of 160 to 256
samples, and so the margin of two mel frames; subsampling, first chunk, history
and dropped frames have the values of the real models; lookaheads 0, 1, 3 and
windows (2,1,1), (1,2,2), (2,1,0). Feeds of 3, 17, 40 and 95 samples add up to
nearly every length, so that a stream may end, and a feed may stop, at any offset
within a hop and a chunk; 400 samples are ten encoder frames, several chunks of
every geometry. *Of moonshine*: embedder frames of 3 samples, left context 3,
right 2, front pad 4 (three encoder frames of convolution history, rounded up),
throttles 1 and 4: 400 samples are 33 encoder frames, and the buffer is trimmed
from the tenth on. *Of voxtral*: a window of 12 samples over a hop of 5 (400 over
160), 8 mel frames and 4 encoder frames per token as in the model, silence of 2
tokens before and 3 behind, delays 1 and 2, decode at every feed or every 60
samples; an encoder window of 10, a ring of 20 and batches of 8, so that the ring
is compacted in each stream of more than five tokens, in different positions;
a last position of 12, which some streams reach. *Batches*: three rows are one
left out, one finished and one that goes on; contexts of 4 and 5 end a decode at
the ceiling, 8 lets the budget end it; the window grows twice.
*Calls*: a buffer of two with three messages fills up, overflows and is drained
in parts. *Downloads*: two sessions suffice for every race over two names, and
three fetches for one of them to retry. What the proofs cover holds without
bounds.

Fairness. The streams, `StreamChunks`, `Session` and `ModelDownload` have only
safety properties and assume none: a stream may stop after any call, a session
may be killed. `BatchedDecode` assumes weak fairness of each thread of the pool
and of the calling thread: the system schedules them, and nothing but the join
waits for another. It does not assume that a decode ends by itself: `BatchReturns`
rests on the budget and the ceiling. `NativeCall` assumes weak fairness of `Interrupted` (the library polls
the callback at every decode step and between chunks; `transcribe.h` 1593), of
the tick, of `Return` and of `Drain` (R code and destructors that run through).
It assumes nothing about decodes that end by themselves, so
`InterruptStopsRun` says that Ctrl-C, not luck, ends the run.

## 4. Properties

* `CaptionSpec` (refinement), `ReadableAppendOnly`, `CommittedIsSpoken`,
  `CommitNeedsAgreement`, `TokenCountNeedsAgreement`, `SeamCoherent`,
  `FinalizedCovers`, `FinalIsWhole`, `OnFinalizeHides`, `ReportTells`,
  `AppendersReadable`: the streams. `SeamCoherent` has two preconditions, and needs them: a hypothesis
  that contradicts what was committed cannot join it, and half a character that
  was committed (section 6) moves the boundary.
* `BatchAnswersAll`, `EntryIsOwn`, `SlotIsFresh`, `TruncationTold`: the results.
  The first two hold without exception over the loop of the dispatcher, over the
  batched graph and over `decode_batch_slices`. Over a family's own loop
  `BatchAnswersAll` allows a whole utterance to be told truncated behind one that
  was, as the flag is not lowered between them; moss lowers it, but when such a
  batch is aborted its flag is that of the last utterance, which `TruncationTold`
  excepts. `EntryIsOwn` allows the texts of earlier utterances of the same batch
  in two places: in an OK entry where `run` appends its segments, and in an
  aborted one where the loop captures a slot that `run` did not come to clear.
  What no loop does is show a later utterance, an earlier call, or another status.
  Section 6 has the lines.
  `AbortTold`: a raised abort flag shows in the answer of the call, in a failed
  stream or, under a family's loop, in the entry of an utterance.
* `FramesClean`, `ChunksTile`, `RingHoldsWindow`, `FramesKeepTime`, `TailDecoded`,
  `BacklogBounded`: the audio. `FramesClean` compares a frame computed from the
  buffer with the one an encoder of the whole stream would see: its audio has not
  been erased, and no end of the buffer reaches into its window or its context.
  `RingHoldsWindow` looks at every frame that a batch attends to, across
  compactions. `TailDecoded` states exactly what may be left undecoded: the right
  context of a buffered parakeet stream (section 6), less than an encoder frame of
  a moonshine stream, and whatever follows the end of the text or the last
  position of a voxtral stream, the latter told by `was_truncated`.
* `PoolAnswersAll`, `MaskIsPast`, `BatchAsSingle` and the liveness property
  `BatchReturns`: batched decodes. `BatchAsSingle` compares each entry with what a
  run of its own would give, and allows one more answer where the context ceiling
  ends the decode (section 6).
* `HooksRemoved`, `InterruptTold`, `NothingLost`, `CallShowsLog`,
  `VerbosityKept`, and the liveness property `InterruptStopsRun`: the calls.
* `InstalledIsWhole`, `InstalledStays`, `SavedAlone`, `NoLeftovers`: downloads.
  `InstalledIsWhole` excludes sessions that write in place (no `curl` package)
  beside another session, and files of a `download.file` that failed without an
  error: in both cases the code installs partial files (section 6).

## 5. Theorems

`StreamTextProofs` proves, for any set of bytes, any agreement between 0 and 32
and **any** behaviour of a family's hooks: `TypeCorrect`,
`CommittedIsCaptionLog` (the refinement of `CaptionLog`), `Seamless`
(`SeamCoherent`), `FinishedStreamsCover` (`FinalizedCovers`),
`HiddenUntilFinalize` (`OnFinalizeHides`), `CommitsAreSpoken`
(`CommittedIsSpoken`), `CommitsAreAgreed` (`CommitNeedsAgreement`) and
`ReportsAreHonest` (`ReportTells`). The argument: lemmas about `Utf8Floor`,
`CommonPrefix`, `Window` and prefixes first; then `FeedView` and `FinalView`,
once each, for what they do to the committed text; then an inductive invariant,
TypeOK with the facts that tie `raw_tentative_start_bytes` to the committed text
and the tentative text to the hypothesis. It is needed because `SeamCoherent`
speaks of a state alone, while the tentative text was cut at an offset that an
earlier call computed. The assumptions are those of `StreamTextAssumption`.

`StreamFamilyProofs` proves, for any pieces of tokens, control tokens, spaces,
agreements and lengths that `StreamTokensAssumption` allows:

* `FamiliesTypeCorrect` (`FamiliesTypeOK`) and `FamiliesImplement` (`Spec`): each
  step of a family is one of the dispatcher's, with a snapshot and a stable
  prefix that are of their types. So everything proved of arbitrary hooks holds
  of the three (`FamiliesInherit`).
* `TokenCountsAreAgreed` (`TokenCountNeedsAgreement`): `StableTokens` counts a
  prefix that every hypothesis of a full history shares.
* `FinalTextsAreWhole` (`FinalIsWhole`) and `AppendersStayReadable`
  (`AppendersReadable`), of the two families that only add tokens. The inductive
  invariant is `AppendersKept`: while a stream runs, the committed text starts
  the text that is shown, which in turn starts the text of all that was emitted.
  The last is needed because a hook that fails has emitted tokens and not yet
  rebuilt the text. It is inductive because adding tokens only adds to the end
  of the text: shown for each step from ids to text (leaving out control tokens,
  joining bytes, collapsing spaces, trimming), which are loops in the code and
  folds here. A trimmed trailing space does come back when a letter follows, but
  at the place where it was.

`NativeCallProofs` proves, for any number of utterances, any bounds on the log
and any levels: `HooksNeverLeft` (`HooksRemoved`), `CtrlCNeverSilent`
(`InterruptTold`), `LogComplete` (`NothingLost`), `LevelRestored`
(`VerbosityKept`), `LogShownAtEnd` (`CallShowsLog`) and `TypeCorrect`. The
inductive invariant adds what is known while a call is under way: that only a
batch is ever between two decodes (`DecodesOne`), that a caught Ctrl-C is still
remembered by `g_interrupted` or by an entry of the batch (`CaughtKept`), and
that `saved` is the level the user chose (`LevelKept`).

`SessionProofs` proves, for any families, numbers of utterances and calls:
`EveryUtteranceAnswered` (`BatchAnswersAll`), `EntriesAreOwn` (`EntryIsOwn`),
`ResultsAreFresh` (`SlotIsFresh`), `AbortsAreTold` (`AbortTold`),
`TruncationsAreTold` (`TruncationTold`) and `TypeCorrect`. The inductive
invariant ties the entries and flags of a batch under way to the history of its
outcomes, each shape of loop in its own way: in a loop that never lowers the
flag, the flag is up exactly when some utterance so far was truncated, which is
why the status of a later entry follows from what came before it, and that much
cannot be seen in the state in which the batch returns. The exceptions of section
4 are part of the statements, so the theorems say that there are no others.

`BatchProofs` proves, for any number of utterances and threads and every
interleaving: `FeaturesOnce` (`PoolAnswersAll`), from the invariant that the
indices below the counter have been worked once or are in the hands of exactly
one thread; and `BatchUsesPool`, that a batch implements `PoolSpec`. Of the
lockstep decode, for any prompt lengths, contexts, budget and first window:
`BatchTypeCorrect` (`BatchTypeOK`), `RowsSeeTheirPast` (`MaskIsPast`), and
`BatchesAreSingles` (`BatchAsSingle`). The invariant `DecodeInv` says that a row
which goes on has written its prompt and its own answers in order, that the mask
shows those and no more, and that the window holds them when the graph is built;
a row that ended keeps what it generated while the others go on.

`CursorProofs` and `StreamChunkProofs` prove every property of the run
`stream_chunks`, for every geometry that the assumptions allow, every sequence of
feeds and every place at which a call may fail: `StreamsTypeCorrect` (`TypeOK`),
`WindowsReadCleanAudio` (`FramesClean`), `ChunksFollow` (`ChunksTile`),
`RingNeverLoses` (`RingHoldsWindow`), `TokenTimesHold` (`FramesKeepTime`;
`CursorsAgree` is voxtral's part of it), `TailIsDecoded` (`TailDecoded`) and
`BacklogsBounded` (`BacklogBounded`). Each way of streaming has an invariant of
its own, and `StreamsKept` is all of them together:

* `CachedKept`: a parakeet stream with caches has committed whole mel frames, its
  buffer begins no later than the next chunk with its margin and context wants,
  and between calls less than a chunk is left. Frames keep time because three
  rounding convolutions of a chunk give exactly an eighth of its mel frames, once
  the frames of the pre-encode cache are dropped.
* `BufferedKept`: the context of the sliding window is whole frames of what was
  read, what is decoded ends before the right context, and between calls no step
  is due.
* `MoonshineKept`: what is emitted has arrived, the buffer begins where the next
  window with its left context and front pad does, and no more than a right
  context and a frame are held back.
* `VoxtralKept`: mel frames are computed up to the last whole window less those
  that are recomputed, the buffer begins no later than the next of these wants, and
  the decoder stands at the end of the text, the last position or the last token.
* `RingKept` says that the ring holds the last frames at their positions, and all
  of them or a window's worth. `KeepsTime`: no rounding between mel frames,
  encoder frames and tokens ever loses or repeats any.
* `Unused`: a family leaves the cursors of the others alone.

Trims are where these invariants are needed: `FramesClean` speaks of a window when
it is read, and the samples it needs were kept or erased calls earlier.

`ModelDownloadProofs` proves, for any number of sessions and fetches:
`InstalledModelsAreWhole` (`InstalledIsWhole`), `InstalledModelsStay`
(`InstalledStays`), `SavedMeansThere` (`SavedAlone`), `NothingLeft`
(`NoLeftovers`) and `TypeCorrect`. The invariant says what the .part file is at
each point of a call: its writer's own while it is written, from then on whole or
cut short by a failure that the call did not notice, never the installed file
itself.

The type invariants of `Session` and `NativeCall` are proved and no longer among
the properties of the runs.

What the proofs assume of the constants, beyond their types, and where it stands
in the code:

* text (`StreamTextAssumption`, `StreamTokensAssumption`): continuation bytes,
  lead bytes and the space differ; no piece of text is empty; `agreement_n` is
  refused above 32 (`transcribe.cpp` 1736).
* cursors (`GeometryAssumption`): lengths are positive, and a family's feeds have
  a largest (a feed is a buffer in memory), so that there is a bound to state.
* moonshine: `4 * FrontPad >= 12`, from the comment at `k_frontend_pad_enc_frames`.
* parakeet (`ParakeetAssumption`): subsampling 8, the only one that its encoder
  accepts (`arch/parakeet/encoder.cpp` 325 and 665), `sampling_frames_first` 1,
  and as many dropped frames as the pre-encode cache makes: what the streaming
  models have, and for the dropped frames also what the code falls back to
  (`arch/parakeet/model.cpp` 2707); for a missing `sampling_frames_first` it
  takes 8. Nothing is proved of a model file without it.
* voxtral: `Win <= 2 * 4 * Hop`, the four frames of `GUARD`
  (`arch/voxtral_realtime/model.cpp` 1400; 400 samples against 1280), and that a
  window and a batch fit into the ring, which is what the comment at
  `k_enc_ring_ctx` asks for.
* batches: a prompt fits into its context.

The tokens' texts and the answers of a row are functions of sequences of any
length, so those proofs go by induction over data. The library's induction
theorems take an operator as a parameter, which no installed prover can
instantiate; the proofs take a least counterexample instead
(`LeastExists` in `StreamFamilyProofs`, from the well-foundedness of the
naturals), of one formula at a time. The modules declare no recursive operator.

Only model-checked: the liveness properties `InterruptStopsRun` and
`BatchReturns`, as liveness under fairness is outside what the provers reach,
and what the runs of section 6 show by counterexample. All other properties of
the runs are theorems; the runs show that the bounds let each of them matter.

## 6. Where the code and its documents disagree

Runs that end in a counterexample:

* `native_batch` (code): one Ctrl-C during a batch of a family with a loop of its
  own aborts one utterance; the batch goes on and returns a value.
  `InterruptTold` is what remains true: the entry says so.
* `download_saved` (code): "Saved", but the `.part` had been unlinked by another
  session, and `file.rename` failed unnoticed.
* `voxtral_utf8` (code): half a character is committed at the end of a text.
* `moonshine_readable` (doc): a feed whose decode yields nothing makes the
  committed text unreadable until the next one.
* `parakeet_tail` (code): a buffered stream whose feeds have read all its audio
  (chunk, right context and any number of further chunks, to the sample) is
  finalized without its last step, and the right context is never decoded.
  `TailDecoded` is what remains true: in no other case is audio left out.
* `voxtral_clock` (code): a feed reports as received what the buffer holds, not
  what was fed (`arch/voxtral_realtime/model.cpp` 1989), and the buffer is erased
  from the front: `input_received_ms`, which `transcribe.h` calls the total since
  begin, stops or runs backwards.

Smaller divergences met while modelling, which the models follow (they do what
the code does) and no run repeats:

* moonshine: committed *tokens* may differ from the tokens of the committed
  *text*, as tokens and texts agree in different places (`transcribe.cpp` 1076
  against `transcribe.h` 1887); a begin that fails leaves the id history of the
  stream before.
* moonshine: an aborted or truncated finalize can lower the committed token
  count (`arch/moonshine_streaming/model.cpp` 1756, `transcribe.h` 1778).
* voxtral_realtime: buffering feeds count as agreeing hypotheses
  (`transcribe.cpp` 1177), so that two feeds with one decode between them commit
  a text that was decoded once; `transcribe.h` 1887 speaks of decodes.
* voxtral_realtime: a finalize that changes nothing leaves the revision
  (`arch/voxtral_realtime/model.cpp` 2011; `transcribe.h` 2186).
* parakeet: rows are committed at once, while the text follows the policy
  (`transcribe.cpp` 1126 against 1086).
* voxtral_realtime: `audio_committed_ms` stays 0 until finalize; after the end of
  the text, or at the last position, feeds go on encoding, and the embeddings are
  kept, as only those of decoded tokens are released (1830).
* moonshine: finalize pads the tail to an embedder frame, a quarter of an encoder
  frame, so that up to three embedder frames of audio are never encoded, and a
  stream shorter than one encoder frame ends with an empty result.
* batches of canary and cohere: where the context ceiling ends a decode, the
  lockstep loop reads one answer more than a single run, and may report a row as
  complete that alone is truncated (`arch/canary/model.cpp` 1097, whose comment
  speaks of parity); a failing encoder is INVALID_ARG in an entry, and GGUF or OOM
  of a single run. A prompt longer than a lowered context ceiling is not refused.
* family batch loops: an abort inside an utterance is recorded in its entry, and
  the batch goes on and answers OK (`run_batch_serial`, for example
  `arch/moonshine_streaming/model.cpp` 1807; `transcribe.h` 1593). `AbortTold`
  allows for it.
* family batch loops: nothing lowers `was_truncated` between two utterances, and
  `run` returns it as a status, so that after one truncated utterance every whole
  one of the batch is told OUTPUT_TRUNCATED, with an empty entry (for example
  `arch/moonshine_streaming/model.cpp` 1204 and 1807,
  `arch/canary/model.cpp` 1356 and 1466, `arch/voxtral/model.cpp` 942 and 954).
  `transcribe.h` 1671 ties the flag to what the run returned, and so it is, but the
  status is not that utterance's. moss lowers the flag, and raises it again at the
  end of the batch (`arch/moss/model.cpp` 973 and 986), which an abort between two
  utterances skips (965).
* `run` of granite, qwen3_asr, voxtral and voxtral_realtime adds its segments
  without clearing the slot (for example `arch/voxtral/model.cpp` 938), and
  `run_batch_serial` does not clear it either: the entry of an utterance also has
  the segments of those before it. With word timestamps granite reads its words
  together with the older ones (`arch/granite/model.cpp` 759).
* sensevoice: an abort that `run` sees first (`arch/sensevoice/model.cpp` 395)
  comes before `clear_result` (400), and the fallback loop captures whatever is in
  the slot (859): the aborted entry shows the text of the utterance before it.
* `utils::download.file` tells some failures by a warning and the status that it
  returns; `R/download.R` 404 drops it, and what was written so far, if anything,
  passes the check at 417 and becomes the model: a partial file that every later
  call takes for cached. `transcribe_download_model` does so without the `curl`
  package only.
* `transcribe_stream_reset` clears the slot through `clear_result`, which leaves
  `batch_results`: the batch accessors still answer (`transcribe.cpp` 1965;
  `transcribe.h` says that reset clears every result-visible field).
* parakeet, buffered: the committed position that a feed reports counts the right
  context, which is read but not decoded yet (`arch/parakeet/model.cpp` 2790);
  and a stream shorter than one mel frame fails at finalize, which the cached
  path accepts (2177 against 3015).
* a refused `transcribe_run` has already dropped the batch (`transcribe.cpp`
  2196 and its comment at 2111).
* an exception in a stream hook answers an error but leaves the stream ACTIVE
  (`transcribe.cpp` 1837; `transcribe.h` 2101).

## 7. Not modelled

The composition of `StreamChunks` with `StreamFamilies` (a feed there decodes
nondeterministically, which covers whatever the cursors allow); an exception
between two steps of a chunk (the cursors know failures by status, `StreamText`
has the exception); batched decoders with a prompt per row and the chunk loop of
moss; a thread that cannot be created, and work that throws, which end the
process; the numbers that decide fallback in whisper; handles and finalizers,
whose order is R's; hooks installed by R code in a tick, which no code of the
package does; model loading and backends; `transcribe_log_set` with another
host's user data; the catalogue of models; the window between raising the level
of a verbose run and registering its restoration; a log buffer at its bound
dropping errors behind warnings (`NothingLost` speaks of accepted messages), and
the messages that a change of level drops with the buffer (`R/devices.R` 108,
`R/run.R` 164); the half microsecond that `samples_to_us` may drop at each feed;
the condition by which a Ctrl-C reaches R (a comment in `transcribe_glue.cpp`,
435, calls it a normal R interrupt, the code raises an error: the model says
*interrupted* for either).
ggml is third-party, and with the graphs of the families it is most of the code:
numeric, without shared state, and specified by its results alone. Pure functions
(arguments, results, audio, tokenizers) have unit tests and no state.

## 8. Plan

Done, in this order: `CaptionLog`, `StreamText` and its proofs, the three
families, `Session`, `NativeCall` and its proofs, `ModelDownload`,
`ParakeetChunks`; then `SessionProofs`, `StreamFamilies`, `WorkerPool` and
`BatchedDecode` with proofs, `MoonshineChunks`, `VoxtralChunks` and
`StreamChunks` with proofs about voxtral's, `ModelDownloadProofs`; then the
proofs about the decode of a batch, the cursors of all families, and
`StreamFamilyProofs`.

Next:

1. Proofs of what the properties rest on and do not say: that a result is shown
   by one accessor at a time (`Session`), that a log message once shown is not
   shown again (`NativeCall`), as action properties.
2. `Handles`: models, sessions, borrowed handles and the collector; abstract
   specification: no freed object is used, each is freed once.
3. `StreamAll`: the R loop over feed, text and finalize with its on.exit, over
   `Session`.
4. Whisper's seek loop: progress, and the order of its chunk results.
5. The batched decoders with a prompt per row.
6. The refresh of the catalogue.
7. Backend registration and the log sink, if a host other than R is considered.
