--------------------------- MODULE ParakeetStream ---------------------------
(***************************************************************************)
(* Streaming parakeet: audio is decoded chunk by chunk, emitted tokens are *)
(* never taken back, and all of them count as committed. Here emitted is   *)
(* raw_tokens.                                                             *)
(***************************************************************************)
EXTENDS StreamTokens

\* normalize_transcript_whitespace after the decode of the visible tokens.
TextOf(ids) == TrimBoth(CollapseSpaces(FlattenSeq(Visible(ids))))

\* rebuild_streaming_result_text; every row it makes is committed.
Rebuilt(ids) ==
  IF ids = << >> THEN NoResult
  ELSE [has |-> TRUE, text |-> TextOf(ids), ncommitted |-> Len(Visible(ids))]

\* A begin that fails before its geometry is resolved leaves the old raw_tokens.
ParakeetBegin(p, n, hook) ==
  /\ Begin(p, n, hook)
  /\ emitted' \in {<< >>} \cup (IF hook = "OK" THEN {} ELSE {emitted})
  /\ tokens' = << >>
  /\ feeds' = 0

\* stream_feed: the text is rebuilt when this feed emitted tokens, ids in all.
ParakeetFeed(ids, given) ==
  /\ feeds < MaxFeeds
  /\ feeds' = feeds + 1
  /\ emitted' = ids
  /\ IF ids # emitted
     THEN /\ tokens' = Visible(ids)
          /\ FeedOk(Rebuilt(ids), Stable(Rebuilt(ids), tokens'), 1, TRUE, given)
     ELSE /\ UNCHANGED tokens
          /\ FeedOk(result, Stable(result, tokens), 0, FALSE, given)

\* stream_finalize: the tail may emit more; the revision moves regardless.
ParakeetFinalize(ids, given) ==
  LET rebuild == ids # emitted \/ ~ result.has
      rows    == IF rebuild THEN Visible(ids) ELSE tokens
      r       == IF rebuild THEN Rebuilt(ids)
                 ELSE [result EXCEPT !.ncommitted = Len(tokens)]
  IN  /\ emitted' = ids
      /\ tokens' = rows
      /\ FinalizeOk(r, 1, r.has, given)
      /\ UNCHANGED feeds

\* Chunks before the one that failed have emitted; the rebuild was not reached.
ParakeetFails(hook, ids, given) ==
  /\ HookFails(hook, result, 0, FALSE, given)
  /\ emitted' = ids
  /\ UNCHANGED << tokens, feeds >>

\* Mutant of ParakeetReset: the family resets a stream on its own.
ParakeetReset_Alone ==
  /\ state' = "IDLE"
  /\ result' = NoResult
  /\ tokens' = << >>
  /\ feeds' = 0
  /\ UNCHANGED << family, policy, agreementN, view, history, revision, update, answer,
                  emitted >>

\* stream_reset leaves raw_tokens to the next begin.
ParakeetReset ==
  /\ Reset
  /\ tokens' = << >>
  /\ feeds' = 0
  /\ UNCHANGED emitted

ParakeetNext ==
  \/ \E p \in Policies, n \in Agreements[family], hook \in Answers : ParakeetBegin(p, n, hook)
  \/ \E ids \in Extensions(emitted), given \in BOOLEAN : ParakeetFeed(ids, given)
  \/ \E ids \in Extensions(emitted), given \in BOOLEAN : ParakeetFinalize(ids, given)
  \/ \E hook \in {"ERR", "THROWN"}, ids \in Extensions(emitted), given \in BOOLEAN :
        ParakeetFails(hook, ids, given)
  \/ ParakeetReset
=============================================================================
