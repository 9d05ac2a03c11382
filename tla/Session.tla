------------------------------- MODULE Session -------------------------------
(***************************************************************************)
(* A session of transcribe.cpp across its calls: one-shot runs, offline    *)
(* batches and streams all write into one result slot, beside which a      *)
(* batch keeps a list with one entry per utterance. The module follows     *)
(* what the accessors show, the flags that qualify it, and the lifecycle   *)
(* of the stream, while calls are refused, aborted, truncated, fail or     *)
(* throw. What a stream commits is the subject of StreamText.              *)
(*                                                                         *)
(* A call is one thread in one function; what runs beside it is whoever    *)
(* raises the flag that the abort callback reads.                          *)
(***************************************************************************)
EXTENDS Integers, Sequences, SequencesExt

CONSTANTS
  Families,       \* the sorts of family: the loop of its run_batch hook, and streaming
  MaxUtterances,  \* bound: utterances of a batch
  MaxCalls        \* bound: calls that are accepted

\* How the run_batch hook of a family goes through a batch, one utterance at a time:
\* "none"     no hook, the loop of the dispatcher runs (granite_nar);
\* "clears"   run drops what is in the slot (canary, canary_qwen, cohere, funasr_nano,
\*            moonshine, moonshine_streaming, whisper);
\* "appends"  run adds its segments to those in the slot (granite, qwen3_asr, voxtral,
\*            voxtral_realtime);
\* "moss"     the loop drops the slot and the flag before each run (moss);
\* "slices"   the loop drops the slot and captures what the decode made of it
\*            (gigaam, medasr, parakeet);
\* "captures" the same, but run drops the slot, after it asked whether to abort
\*            (sensevoice).
Loops == {"none", "clears", "appends", "moss", "slices", "captures"}

ASSUME SessionAssumption ==
  /\ Families \subseteq [loop : Loops, streams : BOOLEAN]
  /\ MaxUtterances \in Nat \ {0}
  /\ MaxCalls \in Nat

VARIABLES
  family,     \* the sort of the model's family, for good
  call,       \* where the library is: "none", in a one-shot "run", or in a batch,
              \* about to "poll" or to "decode" the next utterance
  inputs,     \* the utterances of the last accepted run or batch: FALSE, malformed
  outcomes,   \* history: how the decode of each of them ended, so far
  calls,      \* history: calls accepted so far, which name the texts they make
  kind,       \* history: what the last accepted call was
  refused,    \* history: the last call was refused
  stream,     \* stream_state
  lastStatus, \* stream_last_status
  slot,       \* the result slot: the texts whose words it shows
  batch,      \* batch_results
  aborted,    \* was_aborted
  truncated,  \* was_truncated
  answer,     \* what the last accepted call returned
  request     \* the abort callback answers true from now on

callVars    == << call, inputs, outcomes, calls, kind, refused, answer >>
resultVars  == << slot, batch, aborted, truncated >>
streamVars  == << stream, lastStatus >>
sessionVars == << family, callVars, resultVars, streamVars, request >>

\* The text that call c produced for its utterance u.
Texts    == [call : 1 .. MaxCalls, utterance : 1 .. MaxUtterances]
Empty    == {}
Slots    == SUBSET Texts
Statuses == {"OK", "ERR", "INVALID", "TRUNCATED", "ABORTED"}
Entries  == [slot : Slots, status : Statuses]
\* THROWN: an exception left the call and api_guard_status turned it into ERR_OOM
\* or ERR_BACKEND; the code after it did not run.
Answers  == Statuses \cup {"THROWN"}
Kinds    == {"none", "run", "batch", "stream", "reset"}
States   == {"IDLE", "ACTIVE", "FINISHED", "FAILED"}

Own(u) == {[call |-> calls, utterance |-> u]}

HasHook   == family.loop # "none"
Truncates == family.loop \in {"clears", "appends", "moss"}
\* Nothing lowers was_truncated between two utterances.
Sticky    == family.loop \in {"clears", "appends"}

\* How the decode of an utterance may end: only a callback that answers true aborts
\* one, and only a text decoder with a budget of tokens truncates.
Outcomes == {"OK", "ERR"} \cup (IF Truncates THEN {"TRUNCATED"} ELSE {})
                          \cup (IF request THEN {"ABORTED"} ELSE {})

\* What such an end leaves in the slot: a decode without tokens leaves no result,
\* and a truncated one its partial text.
Leaves(u, outcome) == IF outcome = "TRUNCATED" THEN {Own(u)} ELSE {Empty, Own(u)}

Init ==
  /\ family \in Families
  /\ call = "none" /\ inputs = << >> /\ outcomes = << >>
  /\ calls = 0 /\ kind = "none" /\ refused = FALSE
  /\ stream = "IDLE" /\ lastStatus = "OK"
  /\ slot = Empty /\ batch = << >>
  /\ aborted = FALSE /\ truncated = FALSE
  /\ answer = "OK" /\ request = FALSE

-----------------------------------------------------------------------------
(* Accepting and refusing calls.                                           *)

\* A malformed call, one that validate_run_params_common or a validate hook turns
\* down, and one that the state of the stream forbids.
Refuse ==
  /\ call = "none"
  /\ refused' = TRUE
  /\ UNCHANGED << call, inputs, outcomes, calls, kind, answer, resultVars, streamVars,
                  family, request >>

\* transcribe_run drops the batch before it looks at the stream and the params.
RefuseRun ==
  /\ call = "none"
  /\ refused' = TRUE
  /\ batch' = << >>
  /\ UNCHANGED << call, inputs, outcomes, calls, kind, answer, slot, aborted, truncated,
                  streamVars, family, request >>

\* What run, run_batch and stream_begin do once no check is left to fail:
\* clear_result, and lower the flags.
Accept(k, utterances) ==
  /\ call = "none"
  /\ stream # "ACTIVE"
  /\ calls < MaxCalls
  /\ calls' = calls + 1
  /\ kind' = k
  /\ refused' = FALSE
  /\ inputs' = utterances
  /\ outcomes' = << >>
  /\ slot' = Empty
  /\ aborted' = FALSE
  /\ truncated' = FALSE
  /\ UNCHANGED << family, request >>

StartRun ==
  /\ Accept("run", << TRUE >>)
  /\ call' = "run"
  /\ stream' = "IDLE" /\ lastStatus' = "OK"
  /\ batch' = << >>
  /\ UNCHANGED answer

StartBatch(utterances) ==
  /\ Accept("batch", utterances)
  /\ call' = "poll"
  /\ stream' = "IDLE" /\ lastStatus' = "OK"
  /\ batch' = << >>
  /\ UNCHANGED answer

-----------------------------------------------------------------------------
(* A one-shot run, and a batch utterance by utterance.                     *)

EndRun(outcome) ==
  /\ call = "run"
  /\ call' = "none"
  /\ answer' = outcome
  /\ outcomes' = << outcome >>
  /\ slot' \in Leaves(1, outcome)
  /\ aborted' = (outcome = "ABORTED")
  /\ truncated' = (outcome = "TRUNCATED")
  /\ UNCHANGED << inputs, calls, kind, refused, batch, streamVars, family, request >>

\* Utterance of the batch that comes next.
Current == Len(batch) + 1

\* Mutant of Padded: an aborted batch keeps only the entries that it has.
Padded_Not(entries) == entries

\* pad_batch_results_aborted
Padded(entries) ==
  entries \o [i \in 1 .. Len(inputs) - Len(entries) |->
                [slot |-> Empty, status |-> "ABORTED"]]

\* Mutant of EndBatch: the slot keeps what was decoded last.
EndBatch_KeepsSlot(status, entries, last) ==
  /\ call' = "none"
  /\ answer' = status
  /\ batch' = IF status = "ABORTED" THEN Padded(entries) ELSE entries
  /\ slot' = last

\* The end of transcribe_run_batch: pad, then restore utterance 0 to the slot.
EndBatch(status, entries, last) ==
  /\ call' = "none"
  /\ answer' = status
  /\ batch' = IF status = "ABORTED" THEN Padded(entries) ELSE entries
  /\ slot' = IF batch' = << >> THEN last ELSE batch'[1].slot

\* Mutant of Poll: the loop stops, but the batch answers OK.
Poll_Silent ==
  /\ call = "poll"
  /\ Len(batch) < Len(inputs)
  /\ aborted' = (aborted \/ request)
  /\ IF request
     THEN EndBatch("OK", batch, slot)
     ELSE /\ call' = "decode"
          /\ UNCHANGED << answer, batch, slot >>
  /\ UNCHANGED << inputs, outcomes, calls, kind, refused, truncated, streamVars,
                  family, request >>

\* Both loops ask the abort callback before each utterance.
Poll ==
  /\ call = "poll"
  /\ Len(batch) < Len(inputs)
  /\ aborted' = (aborted \/ request)
  /\ IF request
     THEN EndBatch("ABORTED", batch, slot)
     ELSE /\ call' = "decode"
          /\ UNCHANGED << answer, batch, slot >>
  /\ UNCHANGED << inputs, outcomes, calls, kind, refused, truncated, streamVars,
                  family, request >>

\* Mutant of Entry: whatever is in the slot is captured.
Entry_Any(status, left) == [slot |-> left, status |-> status]

\* Only what came out OK is captured; other utterances get an empty entry.
Entry(status, left) ==
  [slot |-> IF status = "OK" THEN left ELSE Empty, status |-> status]

\* An utterance without samples fails alone; only the loop of moss, which starts
\* every utterance afresh, touches the slot and the flag.
MalformedUtterance ==
  /\ call = "decode"
  /\ ~ inputs[Current]
  /\ call' = "poll"
  /\ outcomes' = Append(outcomes, "INVALID")
  /\ batch' = Append(batch, Entry("INVALID", slot))
  /\ slot' = IF family.loop = "moss" THEN Empty ELSE slot
  /\ truncated' = (truncated /\ family.loop # "moss")
  /\ UNCHANGED << inputs, calls, kind, refused, answer, aborted, streamVars, family,
                  request >>

\* The dispatcher's own loop, for a family without a hook: run_one_inner clears the
\* slot and the flags for each utterance, and an aborted one ends the batch.
SerialUtterance(outcome) ==
  /\ call = "decode" /\ ~ HasHook /\ inputs[Current]
  /\ outcomes' = Append(outcomes, outcome)
  /\ aborted' = (outcome = "ABORTED")
  /\ truncated' = (outcome = "TRUNCATED")
  /\ \E left \in Leaves(Current, outcome) :
       LET entries == Append(batch, Entry(outcome, left))
       IN  \/ /\ outcome = "ABORTED"
              /\ EndBatch("ABORTED", entries, left)
           \/ /\ outcome # "ABORTED"
              /\ slot' = left
              /\ batch' = entries
              /\ call' = "poll"
              /\ UNCHANGED answer
  /\ UNCHANGED << inputs, calls, kind, refused, streamVars, family, request >>

\* What run returns: OK only while was_truncated is down.
Told(outcome) == IF outcome = "OK" /\ truncated THEN "TRUNCATED" ELSE outcome

\* What run leaves in the slot, where it drops what is there: a run that ends before it
\* came to that leaves the text of the utterance before it.
LeavesAfter(outcome) ==
  Leaves(Current, outcome) \cup (IF outcome \in {"ERR", "ABORTED"} THEN {slot} ELSE {})

\* And where it adds its segments to those that are there, once it has them all.
Appends(outcome) ==
  {slot} \cup (IF outcome \in {"OK", "TRUNCATED"} THEN {slot \cup Own(Current)} ELSE {})

\* Mutant of FamilyUtterance: each utterance starts with the flags down.
FamilyUtterance_Lowers(outcome) ==
  /\ call = "decode" /\ Sticky /\ inputs[Current]
  /\ outcomes' = Append(outcomes, outcome)
  /\ aborted' = (outcome = "ABORTED")
  /\ truncated' = (outcome = "TRUNCATED")
  /\ slot' \in IF family.loop = "clears" THEN LeavesAfter(outcome) ELSE Appends(outcome)
  /\ batch' = Append(batch, Entry(outcome, slot'))
  /\ call' = "poll"
  /\ UNCHANGED << inputs, calls, kind, refused, answer, streamVars, family, request >>

\* run_batch_serial of most families, over their own run: the flags stay up from one
\* utterance to the next, so that run answers OUTPUT_TRUNCATED for a whole one too;
\* an aborted one is an entry like any other.
FamilyUtterance(outcome) ==
  /\ call = "decode" /\ Sticky /\ inputs[Current]
  /\ outcomes' = Append(outcomes, outcome)
  /\ aborted' = (aborted \/ outcome = "ABORTED")
  /\ truncated' = (truncated \/ outcome = "TRUNCATED")
  /\ slot' \in IF family.loop = "clears" THEN LeavesAfter(outcome) ELSE Appends(outcome)
  /\ batch' = Append(batch, Entry(Told(outcome), slot'))
  /\ call' = "poll"
  /\ UNCHANGED << inputs, calls, kind, refused, answer, streamVars, family, request >>

\* run_batch_serial of moss: the slot and was_truncated start afresh, and the result is
\* captured whenever there is one.
MossUtterance(outcome) ==
  /\ call = "decode" /\ family.loop = "moss" /\ inputs[Current]
  /\ outcomes' = Append(outcomes, outcome)
  /\ aborted' = (aborted \/ outcome = "ABORTED")
  /\ truncated' = (outcome = "TRUNCATED")
  /\ slot' \in IF outcome \in {"ERR", "ABORTED"} THEN {Empty} ELSE Leaves(Current, outcome)
  /\ batch' = Append(batch, [slot |-> slot', status |-> outcome])
  /\ call' = "poll"
  /\ UNCHANGED << inputs, calls, kind, refused, answer, streamVars, family, request >>

\* decode_batch_slices and its like, which never truncate: the slot is cleared first,
\* and whatever the decode leaves in it is captured, partial texts included. In the
\* fallback of sensevoice an abort comes before that clearing.
SliceUtterance(outcome) ==
  /\ call = "decode" /\ family.loop \in {"slices", "captures"} /\ inputs[Current]
  /\ outcomes' = Append(outcomes, outcome)
  /\ aborted' = (aborted \/ outcome = "ABORTED")
  /\ slot' \in Leaves(Current, outcome) \cup
               (IF family.loop = "captures" /\ outcome = "ABORTED" THEN {slot} ELSE {})
  /\ batch' = Append(batch, [slot |-> slot', status |-> outcome])
  /\ call' = "poll"
  /\ UNCHANGED << inputs, calls, kind, refused, answer, truncated, streamVars,
                  family, request >>

\* All utterances are done: moss puts the flag up again for any that was truncated.
FinishBatch ==
  /\ call = "poll"
  /\ Len(batch) = Len(inputs)
  /\ EndBatch("OK", batch, slot)
  /\ truncated' = IF family.loop = "moss"
                  THEN \E i \in DOMAIN batch : batch[i].status = "TRUNCATED"
                  ELSE truncated
  /\ UNCHANGED << inputs, outcomes, calls, kind, refused, aborted, streamVars, family,
                  request >>

\* The batched graph of a family decodes all utterances, then makes all entries; a
\* truncated one keeps its text. An abort or a failure comes before any entry.
GraphBatch(ends) ==
  /\ call = "poll" /\ Truncates /\ batch = << >>
  /\ \A i \in DOMAIN inputs : ~ inputs[i] => ends[i] = "INVALID"
  /\ outcomes' = ends
  /\ truncated' = (\E i \in DOMAIN ends : ends[i] = "TRUNCATED")
  /\ EndBatch("OK",
              [i \in DOMAIN ends |->
                 [slot |-> IF ends[i] \in {"OK", "TRUNCATED"} THEN Own(i) ELSE Empty,
                  status |-> ends[i]]],
              slot)
  /\ UNCHANGED << inputs, calls, kind, refused, aborted, streamVars, family, request >>

GraphFails ==
  /\ call = "poll" /\ HasHook /\ batch = << >>
  /\ EndBatch("ERR", << >>, slot)
  /\ UNCHANGED << inputs, outcomes, calls, kind, refused, aborted, truncated, streamVars,
                  family, request >>

\* An exception in a run or in a batch: the entries so far stay, the slot is what
\* the driver made of it.
Throws ==
  /\ call # "none"
  /\ call' = "none"
  /\ answer' = "THROWN"
  /\ slot' \in {slot, Empty} \cup
       (IF call = "poll" THEN {} ELSE {Own(Current), slot \cup Own(Current)})
  /\ UNCHANGED << inputs, outcomes, calls, kind, refused, batch, aborted, truncated,
                  streamVars, family, request >>

-----------------------------------------------------------------------------
(* Streams.                                                                *)

\* transcribe_stream_begin past its preflight; batch_results is not touched.
BeginStream(hook) ==
  /\ family.streams
  /\ Accept("stream", << >>)
  /\ stream' = IF hook = "ERR" THEN "FAILED" ELSE "ACTIVE"
  /\ lastStatus' = IF hook = "ERR" THEN "ERR" ELSE "OK"
  /\ answer' = hook
  /\ UNCHANGED << call, batch >>

\* transcribe_stream_feed, or finalize when final: the hook has the snapshot and
\* both flags to itself, and an error it returns fails the stream.
StreamCall(hook, final) ==
  /\ call = "none" /\ stream = "ACTIVE"
  /\ hook = "ABORTED" => request
  /\ answer' = hook
  /\ refused' = FALSE
  /\ stream' = CASE hook \in {"ERR", "ABORTED"}  -> "FAILED"
                 [] hook = "THROWN"              -> "ACTIVE"
                 [] hook = "OK"                  -> IF final THEN "FINISHED" ELSE "ACTIVE"
  /\ lastStatus' = IF hook \in {"ERR", "ABORTED"} THEN hook ELSE lastStatus
  /\ slot' \in {slot, Empty, Own(1)}
  /\ aborted' = (aborted \/ hook = "ABORTED")
  /\ truncated' \in {truncated, TRUE}
  /\ UNCHANGED << call, inputs, outcomes, calls, kind, batch, family, request >>

\* transcribe_stream_reset, from any state: neither batch_results nor was_truncated
\* is touched.
Reset ==
  /\ call = "none"
  /\ kind' = "reset"
  /\ refused' = FALSE
  /\ inputs' = << >> /\ outcomes' = << >>
  /\ stream' = "IDLE" /\ lastStatus' = "OK"
  /\ slot' = Empty
  /\ aborted' = FALSE
  /\ answer' = "OK"
  /\ UNCHANGED << call, calls, batch, truncated, family, request >>

\* Whoever owns the abort callback decides what it answers, and may change its mind
\* at any time: the callback of the R glue answers true once for each Ctrl-C.
Raise ==
  /\ ~ request
  /\ request' = TRUE
  /\ UNCHANGED << family, callVars, resultVars, streamVars >>

Lower ==
  /\ request
  /\ request' = FALSE
  /\ UNCHANGED << family, callVars, resultVars, streamVars >>

-----------------------------------------------------------------------------

\* The steps of a run or batch that is under way.
Step ==
  \/ \E outcome \in Outcomes : EndRun(outcome)
  \/ Poll
  \/ MalformedUtterance
  \/ \E outcome \in Outcomes : SerialUtterance(outcome)
  \/ \E outcome \in Outcomes : FamilyUtterance(outcome)
  \/ \E outcome \in Outcomes : MossUtterance(outcome)
  \/ \E outcome \in Outcomes : SliceUtterance(outcome)
  \/ FinishBatch
  \/ \E ends \in [DOMAIN inputs -> {"OK", "ERR", "TRUNCATED", "INVALID"}] : GraphBatch(ends)
  \/ GraphFails
  \/ Throws

Next ==
  \/ Refuse
  \/ RefuseRun
  \/ StartRun
  \/ \E n \in 1 .. MaxUtterances : \E us \in [1 .. n -> BOOLEAN] : StartBatch(us)
  \/ Step
  \/ \E hook \in {"OK", "ERR", "THROWN"} : BeginStream(hook)
  \/ \E hook \in {"OK", "ERR", "ABORTED", "THROWN"}, final \in BOOLEAN :
        StreamCall(hook, final)
  \/ Reset
  \/ Raise
  \/ Lower

Spec == Init /\ [][Next]_sessionVars

-----------------------------------------------------------------------------
(* Correctness.                                                            *)

TypeOK ==
  /\ family \in Families
  /\ call \in {"none", "run", "poll", "decode"}
  /\ inputs \in Seq(BOOLEAN) /\ Len(inputs) <= MaxUtterances
  /\ outcomes \in Seq(Statuses)
  /\ calls \in 0 .. MaxCalls
  /\ kind \in Kinds
  /\ refused \in BOOLEAN
  /\ stream \in States
  /\ lastStatus \in Statuses
  /\ slot \in Slots
  /\ batch \in Seq(Entries) /\ Len(batch) <= MaxUtterances
  /\ aborted \in BOOLEAN
  /\ truncated \in BOOLEAN
  /\ answer \in Answers
  /\ request \in BOOLEAN

\* The batch on show is that of the last accepted call, which returned.
BatchReturned ==
  kind = "batch" /\ call = "none" /\ ~ refused /\ answer \in {"OK", "ABORTED"}

\* "one slot per input utterance" (transcribe.h, of transcribe_run_batch): each with the
\* status that its own decode had, those that were not reached aborted. In a loop that
\* never lowers was_truncated a whole utterance may be told TRUNCATED, but only after
\* one that was.
BatchAnswersAll ==
  BatchReturned =>
    /\ Len(batch) = Len(inputs)
    /\ \A i \in DOMAIN batch :
         \/ batch[i].status = IF i <= Len(outcomes) THEN outcomes[i] ELSE "ABORTED"
         \/ /\ Sticky /\ i <= Len(outcomes)
            /\ batch[i].status = "TRUNCATED" /\ outcomes[i] = "OK"
            /\ \E j \in 1 .. i - 1 : outcomes[j] = "TRUNCATED"
    /\ Len(outcomes) < Len(inputs) => answer = "ABORTED"

\* No entry shows the text of an earlier call or of a later utterance, even while the
\* batch runs, and that of an earlier utterance only in two cases: an utterance that
\* came out OK of a run that appends, and one that was aborted where the loop captures
\* before run has cleared the slot. Elsewhere a failed utterance leaves the slot to its
\* predecessor's text, and its entry does not show it.
EntryIsOwn ==
  kind = "batch" =>
    \A i \in DOMAIN batch : \A t \in batch[i].slot :
      /\ t.call = calls
      /\ \/ t.utterance = i
         \/ /\ t.utterance < i
            /\ \/ family.loop = "appends" /\ batch[i].status = "OK"
               \/ family.loop = "captures" /\ batch[i].status = "ABORTED"

\* The single-result accessors show what the entry of utterance 0 shows after a batch,
\* the only utterance after a run, and never the text of an earlier call.
SlotIsFresh ==
  /\ \A t \in slot : t.call = calls
  /\ BatchReturned => slot = batch[1].slot
  /\ kind = "run" => batch = << >>

\* TRANSCRIBE_ERR_ABORTED means "the abort callback fired" (transcribe.h): a run that
\* was aborted, and a batch over the dispatcher's loop, say so, and only those do. The
\* loop of a family may go on, but then an entry of the batch says it.
AbortTold ==
  call = "none" /\ answer # "THROWN" /\ ~ refused =>
    /\ aborted => \/ answer = "ABORTED"
                  \/ HasHook /\ \E i \in DOMAIN batch : batch[i].status = "ABORTED"
                  \/ stream = "FAILED"
    /\ kind \in {"run", "batch"} /\ answer = "ABORTED" => aborted

\* "the flag is true exactly when the run returned TRANSCRIBE_ERR_OUTPUT_TRUNCATED
\* (or, in a batch, when a per-utterance status is OUTPUT_TRUNCATED)" (transcribe.h):
\* so it is, for an utterance that really was truncated, but for a batch of moss that
\* is aborted, whose flag is that of the last utterance alone.
TruncationTold ==
  /\ kind = "run" /\ call = "none" /\ answer # "THROWN" =>
       (truncated <=> answer = "TRUNCATED")
  /\ BatchReturned =>
       /\ truncated => \E i \in DOMAIN batch :
                         i <= Len(outcomes) /\ outcomes[i] = "TRUNCATED"
                                            /\ batch[i].status = "TRUNCATED"
       /\ (\E i \in DOMAIN batch : batch[i].status = "TRUNCATED") =>
            truncated \/ (family.loop = "moss" /\ answer = "ABORTED")
=============================================================================
