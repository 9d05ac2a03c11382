--------------------------- MODULE StreamFamilies ---------------------------
(***************************************************************************)
(* The dispatcher with the hooks of the family that the model belongs to:  *)
(* one of the three that stream. The properties are those of StreamText,   *)
(* of whatever family, and what a particular family adds to them.          *)
(***************************************************************************)
EXTENDS ParakeetStream, MoonshineStream, VoxtralStream

ASSUME StreamFamiliesAssumption ==
  Families \subseteq {"parakeet", "moonshine", "voxtral"}

vars == << textVars, emitted, tokens, idHistory, feeds >>

FamiliesInit ==
  /\ Init
  /\ emitted = << >> /\ tokens = << >> /\ idHistory = << >> /\ feeds = 0

FamiliesNext ==
  \/ family = "parakeet" /\ ParakeetNext /\ UNCHANGED idHistory
  \/ family = "moonshine" /\ MoonshineNext /\ UNCHANGED emitted
  \/ family = "voxtral" /\ VoxtralNext /\ UNCHANGED << tokens, idHistory >>

FamiliesSpec == FamiliesInit /\ [][FamiliesNext]_vars

-----------------------------------------------------------------------------

\* The state of the hooks, beside that of the dispatcher.
FamiliesTypeOK ==
  /\ TypeOK
  /\ emitted \in Hypotheses
  /\ tokens \in Hypotheses
  /\ idHistory \in Seq(Hypotheses) /\ Len(idHistory) <= 32
  /\ feeds \in 0 .. MaxFeeds

\* "Once bytes are exposed through committed_text they are never rewritten [...]
\* They remain until begin/reset/free" (transcribe.h), for the text a caller can
\* read: transcribe_stream_get_text shows it only while there is a result.
ReadableAppendOnly == [][ReadableKept]_vars

\* The two families that only ever add tokens keep that promise, failing hooks and
\* failed streams included.
AppendersReadable == [][family # "moonshine" => ReadableKept]_vars

\* A family that only ever adds tokens contradicts no earlier commitment: what a
\* finished stream has committed is its final text, whole.
FinalIsWhole ==
  family # "moonshine" /\ state = "FINISHED" /\ result.has =>
    view.committed = result.text

\* Moonshine's own count of committed tokens rises during a stream only to what the
\* last agreementN decodes of that stream agree on: all of them share that prefix.
TokenCountNeedsAgreement == [][family = "moonshine" => CountAgreed]_vars

\* "expect_equal(substr(final, 1, nchar(c_i)), c_i)" (tests/testthat/test-stream.R, of
\* the committed text after each feed): a caption display can count its characters,
\* so it never ends in the middle of one whose last byte is still to come.
CommittedIsUtf8 == state = "ACTIVE" => ValidUtf8(view.committed)
=============================================================================
