---------------------------- MODULE StreamTokens ----------------------------
(***************************************************************************)
(* What the streaming families share: a hypothesis is a sequence of token  *)
(* ids, each id stands for a few bytes of text, and the text of the        *)
(* hypothesis is their concatenation with its spaces tidied up, so that    *)
(* token boundaries and byte offsets of the text need not line up.         *)
(***************************************************************************)
EXTENDS StreamText

CONSTANTS
  Space,      \* the byte ' '
  Lead,       \* bytes that start a two-byte character (110xxxxx)
  Pieces,     \* tokens of each family, each named by the bytes it decodes to
  Special,    \* control and language-tag tokens, never shown
  Agreements, \* values of stable_prefix_agreement_n tried on each family
  MaxTokens,  \* bound: tokens of a hypothesis of each family
  MaxFeeds    \* bound: feeds of a stream

ASSUME StreamTokensAssumption ==
  /\ Lead \subseteq Byte \ Cont
  /\ Space \in Byte \ (Cont \cup Lead)
  /\ DOMAIN Pieces = Families
  /\ \A f \in Families : Pieces[f] \subseteq Seq(Byte) \ {<< >>}
  /\ Agreements \in [Families -> SUBSET AgreementNs]
  /\ MaxTokens \in [Families -> Nat]
  /\ MaxFeeds \in Nat

VARIABLES     \* what the hooks keep, each family some of it
  emitted,    \* the ids emitted since begin: raw_tokens, stream_generated
  tokens,     \* the public token rows, as of the last rebuild or decode
  idHistory,  \* stream_token_id_history
  feeds       \* feeds since begin, at most MaxFeeds

HypothesesOf == [f \in Families |-> BoundedSeq(Pieces[f], MaxTokens[f])]

Hypotheses == HypothesesOf[family]

\* The hypotheses that only add tokens to ids.
Extensions(ids) == {s \in Hypotheses : IsPrefix(ids, s)}

\* The elements of s at the positions I, in their order.
Kept(s, I) == FlattenSeq([i \in DOMAIN s |-> IF i \in I THEN << s[i] >> ELSE << >>])

Visible(ids) == Kept(ids, {i \in DOMAIN ids : ids[i] \notin Special})

\* Bytes lo to hi of s, where lo is the first and hi the last that is no space.
TrimBoth(s) ==
  LET ink == {i \in DOMAIN s : s[i] # Space}
  IN  IF ink = {} THEN << >> ELSE SubSeq(s, Min(ink), Max(ink))

\* Of adjacent spaces the first is kept.
CollapseSpaces(s) ==
  Kept(s, {i \in DOMAIN s : s[i] = Space => i = 1 \/ s[i - 1] # Space})

DropSpace(s) == IF s # << >> /\ Head(s) = Space THEN Tail(s) ELSE s

\* token_prefix_raw_bytes: the bytes of text that its first k token rows make up.
TokenPrefix(text, rows, k) ==
  LET prefix == FlattenSeq(SubSeq(rows, 1, Least(k, Len(rows))))
      plain  == IF text # << >> /\ Head(text) = Space THEN prefix
                ELSE DropSpace(prefix)
  IN  CASE k = 0 \/ rows = << >>   -> 0
        [] k # 0 /\ rows # << >>   ->
             IF IsPrefix(prefix, text) THEN Len(prefix)
             ELSE IF IsPrefix(plain, text) THEN Len(plain)
             ELSE CommonPrefix(text, plain)

\* family_candidate_raw_prefix_bytes, which sees token counts alone during feeds.
Stable(r, rows) == IF r.has THEN TokenPrefix(r.text, rows, r.ncommitted) ELSE 0

-----------------------------------------------------------------------------

\* What transcribe_stream_get_text hands out as committed_text.
Readable == IF result.has THEN view.committed ELSE << >>

ReadableKept ==
  state = "ACTIVE" /\ state' # "IDLE" => IsPrefix(Readable, Readable')

\* Every lead byte is followed by its continuation byte, which follows no other.
ValidUtf8(s) ==
  \A i \in 0 .. Len(s) :
    (i > 0 /\ s[i] \in Lead) <=> (i < Len(s) /\ s[i + 1] \in Cont)
=============================================================================
