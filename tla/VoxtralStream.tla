--------------------------- MODULE VoxtralStream ---------------------------
(***************************************************************************)
(* Streaming voxtral_realtime: the decoder never takes a token back, but   *)
(* the family commits nothing itself: the dispatcher compares the texts    *)
(* that it sees after each feed. Here emitted is stream_generated.         *)
(***************************************************************************)
EXTENDS StreamTokens

\* detok_generated, then publish_stream_text, which makes no token rows.
Published(ids) ==
  [has |-> TRUE, text |-> TrimBoth(FlattenSeq(Visible(ids))), ncommitted |-> 0]

\* A begin that fails before the decoder state is reset leaves the old ids.
VoxtralBegin(p, n, hook) ==
  /\ Begin(p, n, hook)
  /\ emitted' \in {<< >>} \cup (IF hook = "OK" THEN {} ELSE {emitted})
  /\ feeds' = 0

\* A feed within stream_min_decode_ms of the last decode only buffers.
VoxtralBuffer(given) ==
  /\ feeds < MaxFeeds
  /\ feeds' = feeds + 1
  /\ FeedOk(result, 0, 0, FALSE, given)
  /\ UNCHANGED emitted

\* A feed that decodes; the family leaves the revision to the dispatcher.
VoxtralDecode(ids, given) ==
  /\ feeds < MaxFeeds
  /\ feeds' = feeds + 1
  /\ emitted' = ids
  /\ FeedOk(Published(ids), 0, 0, Published(ids).text # result.text, given)

VoxtralFinalize(ids, given) ==
  /\ emitted' = ids
  /\ FinalizeOk(Published(ids), 0, TRUE, given)
  /\ UNCHANGED feeds

\* Mutant of VoxtralFails: the snapshot is cleared before the failing step.
VoxtralFails_Clears(hook, ids, given) ==
  /\ HookFails(hook, NoResult, 0, FALSE, given)
  /\ emitted' = ids
  /\ UNCHANGED feeds

\* A step that fails has kept the ids of the steps before it, unpublished.
VoxtralFails(hook, ids, given) ==
  /\ HookFails(hook, result, 0, FALSE, given)
  /\ emitted' = ids
  /\ UNCHANGED feeds

\* stream_reset forgets the ids.
VoxtralReset ==
  /\ Reset
  /\ emitted' = << >>
  /\ feeds' = 0

VoxtralNext ==
  \/ \E p \in Policies, n \in Agreements[family], hook \in Answers : VoxtralBegin(p, n, hook)
  \/ \E given \in BOOLEAN : VoxtralBuffer(given)
  \/ \E ids \in Extensions(emitted), given \in BOOLEAN : VoxtralDecode(ids, given)
  \/ \E ids \in Extensions(emitted), given \in BOOLEAN : VoxtralFinalize(ids, given)
  \/ \E hook \in {"ERR", "THROWN"}, ids \in Extensions(emitted), given \in BOOLEAN :
        VoxtralFails(hook, ids, given)
  \/ VoxtralReset
=============================================================================
