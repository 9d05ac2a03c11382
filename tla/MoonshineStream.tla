-------------------------- MODULE MoonshineStream --------------------------
(***************************************************************************)
(* Streaming moonshine: every decode starts again at the first token over  *)
(* the audio heard so far, so a hypothesis may revise anything. Tokens     *)
(* that the last few decodes agree on count as committed. Here tokens are  *)
(* the ids of the decode on show.                                          *)
(***************************************************************************)
EXTENDS StreamTokens

moonshineVars == << tokens, idHistory, feeds >>

SharedPrefix(a, b) ==
  Max({i \in 0 .. Least(Len(a), Len(b)) : \A j \in 1 .. i : a[j] = b[j]})

HistoryWith(ids) ==
  IF EffectiveN(agreementN) <= 1 THEN idHistory
  ELSE Window(idHistory, ids, EffectiveN(agreementN))

\* Mutant of StableTokens: agreement before n decodes.
StableTokens_Early(ids) ==
  LET h == HistoryWith(ids)
  IN  IF EffectiveN(agreementN) <= 1 THEN Len(ids)
      ELSE Min({Len(h[1])} \cup {SharedPrefix(h[1], h[i]) : i \in DOMAIN h})

\* stable_token_prefix_from_history: tokens on which the last decodes agree.
StableTokens(ids) ==
  LET h == HistoryWith(ids)
  IN  IF EffectiveN(agreementN) <= 1 THEN Len(ids)
      ELSE IF Len(h) < EffectiveN(agreementN) THEN 0
      ELSE Min({Len(h[1])} \cup {SharedPrefix(h[1], h[i]) : i \in DOMAIN h})

\* Mutant of Decoded: the last token does not count.
Decoded_OneLess(ids, ncommitted) ==
  [has |-> ids # << >>, text |-> DropSpace(FlattenSeq(ids)),
   ncommitted |-> ncommitted - 1]

\* decode_from_kv_cache; a decode that generates nothing leaves no result.
Decoded(ids, ncommitted) ==
  [has        |-> ids # << >>,
   text       |-> DropSpace(FlattenSeq(ids)),
   ncommitted |-> ncommitted]

\* A begin that did not complete may have left the history of the last stream.
MoonshineBegin(p, n, hook) ==
  /\ Begin(p, n, hook)
  /\ tokens' = << >>
  /\ idHistory' \in {<< >>} \cup (IF hook = "OK" THEN {} ELSE {idHistory})
  /\ feeds' = 0

\* A feed too short for a decode only buffers its audio.
MoonshineBuffer(given) ==
  /\ feeds < MaxFeeds
  /\ feeds' = feeds + 1
  /\ FeedOk(result, Stable(result, tokens), 0, FALSE, given)
  /\ UNCHANGED << tokens, idHistory >>

\* A feed that decodes: the token count only rises, to what the decodes agree on.
MoonshineDecode(ids, given) ==
  LET agreed  == StableTokens(ids)
      r       == Decoded(ids, IF agreed > result.ncommitted THEN agreed
                              ELSE result.ncommitted)
      changed == r.text # result.text
  IN  /\ feeds < MaxFeeds
      /\ feeds' = feeds + 1
      /\ tokens' = ids
      /\ idHistory' = HistoryWith(ids)
      /\ FeedOk(r, Stable(r, ids), IF changed THEN 1 ELSE 0, changed, given)

\* stream_finalize of a stream that was fed less than one encoder frame, or nothing.
MoonshineFinalizeEmpty(given) ==
  /\ result = NoResult /\ tokens = << >> /\ idHistory = << >>
  /\ FinalizeOk(result, 1, FALSE, given)
  /\ UNCHANGED moonshineVars

\* stream_finalize when the last feed decoded all the audio: keep its result.
MoonshineFinalizeKept(given) ==
  /\ feeds > 0
  /\ result.has
  /\ FinalizeOk([result EXCEPT !.ncommitted = Len(tokens)], 1, TRUE, given)
  /\ idHistory' = << >>
  /\ UNCHANGED << tokens, feeds >>

\* stream_finalize that decodes once more, all of which is then committed.
MoonshineFinalize(ids, given) ==
  /\ feeds > 0
  /\ FinalizeOk(Decoded(ids, Len(ids)), 1, ids # << >>, given)
  /\ tokens' = ids
  /\ idHistory' = << >>
  /\ UNCHANGED feeds

\* A hook that fails before the decode leaves the last result on show; one that
\* fails in the decode has already cleared it, but for the committed count.
\* A failed finalize says changed if a result is left.
MoonshineFails(hook, cleared, said, given) ==
  LET r == IF cleared THEN [NoResult EXCEPT !.ncommitted = result.ncommitted]
                      ELSE result
  IN  /\ HookFails(hook, r, 0, said /\ r.has, given)
      /\ tokens' = IF cleared THEN << >> ELSE tokens
      /\ UNCHANGED << idHistory, feeds >>

\* stream_reset, which forgets the id history.
MoonshineReset ==
  /\ Reset
  /\ tokens' = << >>
  /\ idHistory' = << >>
  /\ feeds' = 0

\* A one-shot run over a stream that ended; the id history stays behind.
MoonshineRun(ids) ==
  /\ Run(Decoded(ids, 0))
  /\ tokens' = ids
  /\ feeds' = 0
  /\ UNCHANGED idHistory

MoonshineNext ==
  \/ \E p \in Policies, n \in Agreements[family], hook \in Answers : MoonshineBegin(p, n, hook)
  \/ \E given \in BOOLEAN : MoonshineBuffer(given)
  \/ \E ids \in Hypotheses, given \in BOOLEAN : MoonshineDecode(ids, given)
  \/ \E given \in BOOLEAN : MoonshineFinalizeEmpty(given)
  \/ \E given \in BOOLEAN : MoonshineFinalizeKept(given)
  \/ \E ids \in Hypotheses, given \in BOOLEAN : MoonshineFinalize(ids, given)
  \/ \E hook \in {"ERR", "THROWN"}, cleared \in BOOLEAN, said \in BOOLEAN,
       given \in BOOLEAN : MoonshineFails(hook, cleared, said, given)
  \/ MoonshineReset
  \/ \E ids \in Hypotheses : MoonshineRun(ids)

-----------------------------------------------------------------------------

\* The committed token count rises during a stream only to what the last
\* agreementN decodes of that stream agree on: all of them share that prefix.
CountAgreed ==
  /\ state = "ACTIVE" /\ state' = "ACTIVE"
  /\ result'.ncommitted > result.ncommitted
  /\ EffectiveN(agreementN) > 1
  => /\ Len(idHistory') = EffectiveN(agreementN)
     /\ \A i \in DOMAIN idHistory' :
          IsPrefix(SubSeq(tokens', 1, result'.ncommitted), idHistory'[i])
=============================================================================
