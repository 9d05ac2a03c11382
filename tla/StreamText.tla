----------------------------- MODULE StreamText -----------------------------
(***************************************************************************)
(* The text view of a streaming session. The dispatcher of transcribe.cpp  *)
(* turns the hypotheses that a model family writes during feed and         *)
(* finalize into committed_text (what a caption display may rely on),      *)
(* tentative_text (what may still change) and a revision counter.          *)
(*                                                                         *)
(* This module is the dispatcher alone: after a hook, the snapshot may be  *)
(* anything of the right type, so what holds here holds for every family,  *)
(* present or future. ParakeetStream, MoonshineStream and VoxtralStream    *)
(* add the hooks of the three families that stream.                        *)
(***************************************************************************)
EXTENDS Integers, Sequences, FiniteSetsExt, SequencesExt

CONSTANTS
  Byte,         \* the bytes a text is made of
  Cont,         \* those that continue a UTF-8 character (10xxxxxx)
  AgreementNs,  \* values callers pass as stable_prefix_agreement_n
  Families,     \* the streaming families
  PrefixFamilies  \* those that propose the stable prefix themselves; for the
                \* others the dispatcher compares texts

ASSUME StreamTextAssumption ==
  /\ Cont \subseteq Byte
  /\ AgreementNs \subseteq 0 .. 32
  /\ PrefixFamilies \subseteq Families

VARIABLES
  family,     \* the family of the session's model, for good
  state,      \* stream_state
  policy,     \* stream_commit_policy
  agreementN, \* stream_stable_prefix_agreement_n
  result,     \* the family's snapshot: has_result, full_text, n_committed_tokens
  view,       \* committed_text, tentative_text, raw_tentative_start_bytes
  history,    \* stream_raw_history: the texts the generic policy compares
  revision,   \* stream_revision
  update,     \* the last transcribe_stream_update; given = FALSE for a NULL one
  answer      \* what the last stream call returned

textVars == << family, state, policy, agreementN, result, view, history, revision,
               update, answer >>

States   == {"IDLE", "ACTIVE", "FINISHED", "FAILED"}
Policies == {"AUTO", "ON_FINALIZE", "STABLE_PREFIX"}
\* THROWN: an exception left the hook and api_guard_status turned it into an
\* error code (ERR_OOM, ERR_BACKEND); the dispatcher's own code after the hook
\* did not run.
Answers  == {"OK", "ERR", "THROWN"}
Text     == Seq(Byte)
Result   == [has : BOOLEAN, text : Text, ncommitted : Nat]
View     == [committed : Text, tentative : Text, start : Nat]
Update   == [given : BOOLEAN, changed : BOOLEAN, committedChanged : BOOLEAN,
             tentativeChanged : BOOLEAN]

NoResult == [has |-> FALSE, text |-> << >>, ncommitted |-> 0]
NoView   == [committed |-> << >>, tentative |-> << >>, start |-> 0]
NoUpdate == [given |-> FALSE, changed |-> FALSE, committedChanged |-> FALSE,
             tentativeChanged |-> FALSE]

-----------------------------------------------------------------------------
(* Byte strings. A position is a byte offset: the byte of s at offset p is *)
(* s[p + 1].                                                               *)

Least(a, b) == IF a <= b THEN a ELSE b

\* The last character boundary at or before pos; the end of s counts as one.
Utf8Floor(s, pos) ==
  IF pos >= Len(s) THEN Len(s)
  ELSE Max({p \in 0 .. pos : p = 0 \/ s[p + 1] \notin Cont})

CommonPrefix(a, b) ==
  Utf8Floor(a, Max({i \in 0 .. Least(Len(a), Len(b)) :
                      \A j \in 1 .. i : a[j] = b[j]}))

\* How far all texts of a nonempty history agree with the oldest one.
AgreedPrefix(texts) ==
  Min({Len(texts[1])} \cup {CommonPrefix(texts[1], texts[i]) : i \in DOMAIN texts})

From(s, pos) == SubSeq(s, pos + 1, Len(s))

\* The newest n elements once x has been pushed.
Window(s, x, n) ==
  IF Len(s) + 1 > n THEN SubSeq(Append(s, x), Len(s) + 2 - n, Len(s) + 1)
                    ELSE Append(s, x)

EffectiveN(n) == IF n = 0 THEN 3 ELSE n

-----------------------------------------------------------------------------
(* The commit policy, as functions of the snapshot r that a hook left.     *)

\* stream_stable_prefix_impl_for_arch
FamilyPrefix == family \in PrefixFamilies

UsesTextHistory(r) ==
  /\ r.has
  /\ policy # "ON_FINALIZE"
  /\ ~ FamilyPrefix
  /\ EffectiveN(agreementN) > 1

HistoryAfter(r) ==
  IF UsesTextHistory(r) THEN Window(history, r.text, EffectiveN(agreementN))
                        ELSE history

\* Mutants of Candidate: the policy forgotten; agreement before n hypotheses.
Candidate_IgnoresPolicy(r, stable) == stable

Candidate_Early(r, stable) ==
  IF policy = "ON_FINALIZE" THEN 0
  ELSE IF UsesTextHistory(r) THEN Utf8Floor(r.text, AgreedPrefix(HistoryAfter(r)))
  ELSE Len(r.text)

\* stable is what family_candidate_raw_prefix_bytes answers.
Candidate(r, stable) ==
  CASE policy = "ON_FINALIZE" -> 0
    [] policy # "ON_FINALIZE" /\ FamilyPrefix -> stable
    [] policy # "ON_FINALIZE" /\ ~ FamilyPrefix ->
         IF ~ UsesTextHistory(r) THEN Len(r.text)
         ELSE IF Len(HistoryAfter(r)) < EffectiveN(agreementN) THEN 0
         ELSE Utf8Floor(r.text, AgreedPrefix(HistoryAfter(r)))

\* Mutants of FeedView: the tentative text cut at the old boundary; the committed
\* bytes not compared with the hypothesis that extends them.
FeedView_OldBoundary(r, candidate) ==
  LET old == Utf8Floor(r.text, Least(view.start, Len(r.text)))
      new == Utf8Floor(r.text, Least(candidate, Len(r.text)))
  IN  IF new > old /\ old = Len(view.committed) /\ IsPrefix(view.committed, r.text)
      THEN [committed |-> SubSeq(r.text, 1, new), tentative |-> From(r.text, old),
            start |-> new]
      ELSE [view EXCEPT !.tentative = From(r.text, old)]

FeedView_NoCompare(r, candidate) ==
  LET old == Utf8Floor(r.text, Least(view.start, Len(r.text)))
      new == Utf8Floor(r.text, Least(candidate, Len(r.text)))
  IN  IF new > old /\ old = Len(view.committed)
      THEN [committed |-> view.committed \o SubSeq(r.text, old + 1, new),
            tentative |-> From(r.text, new), start |-> new]
      ELSE [view EXCEPT !.tentative = From(r.text, old)]

\* append_committed_raw_prefix, then the tentative rest of the hypothesis.
FeedView(r, candidate) ==
  LET old   == Utf8Floor(r.text, Least(view.start, Len(r.text)))
      new   == Utf8Floor(r.text, Least(candidate, Len(r.text)))
      grows == /\ new > old
               /\ old = Len(view.committed)
               /\ IsPrefix(view.committed, r.text)
      start == IF grows THEN new ELSE view.start
  IN  [committed |-> IF grows THEN view.committed \o SubSeq(r.text, old + 1, new)
                              ELSE view.committed,
       tentative |-> From(r.text, Utf8Floor(r.text, Least(start, Len(r.text)))),
       start     |-> start]

\* Mutants of FinalView: what was committed replaced; what was not, forgotten.
FinalView_Replaces(r) ==
  [committed |-> r.text, tentative |-> << >>, start |-> Len(r.text)]

FinalView_Forgets(r) ==
  [committed |-> IF view.committed = << >> THEN r.text ELSE view.committed,
   tentative |-> << >>, start |-> Len(r.text)]

\* finalize_committed_text: install, extend or leave the committed text.
FinalView(r) ==
  [committed |-> IF policy = "ON_FINALIZE" \/ view.committed = << >>
                    \/ IsPrefix(view.committed, r.text)
                 THEN r.text ELSE view.committed,
   tentative |-> << >>,
   start     |-> Len(r.text)]

NoTentative == [view EXCEPT !.tentative = << >>]

\* Mutant of Publish: commits that leave the hypothesis alone go unreported.
Publish_RawOnly(r, v, bump, said, given) ==
  LET moved == r.has # result.has \/ r.text # result.text \/ bump > 0
  IN  /\ revision' = revision + (IF moved /\ bump = 0 THEN 1 ELSE bump)
      /\ update' = IF given
                   THEN [given |-> TRUE, changed |-> said \/ moved,
                         committedChanged |-> v.committed # view.committed,
                         tentativeChanged |-> v.tentative # view.tentative]
                   ELSE NoUpdate

\* publish_observable_delta: bump is how far the hook moved the revision, said
\* what it wrote to update->result_changed.
Publish(r, v, bump, said, given) ==
  LET observable == \/ r.has # result.has
                    \/ r.text # result.text
                    \/ v.committed # view.committed
                    \/ v.tentative # view.tentative
                    \/ given /\ said
      moved == observable \/ bump > 0
  IN  /\ revision' = revision + (IF observable /\ bump = 0 THEN 1 ELSE bump)
      /\ update' = IF given
                   THEN [given |-> TRUE, changed |-> said \/ moved,
                         committedChanged |-> v.committed # view.committed,
                         tentativeChanged |-> v.tentative # view.tentative]
                   ELSE NoUpdate

-----------------------------------------------------------------------------
(* The entry points.                                                       *)

Init ==
  /\ family \in Families
  /\ state = "IDLE"
  /\ policy = "AUTO"
  /\ agreementN = 0
  /\ result = NoResult
  /\ view = NoView
  /\ history = << >>
  /\ revision = 0
  /\ update = NoUpdate
  /\ answer = "OK"

\* clear_result, for a stream that will run under policy p and agreement n.
ClearText(p, n) ==
  /\ policy' = p
  /\ agreementN' = n
  /\ view' = NoView
  /\ history' = << >>
  /\ revision' = 0
  /\ UNCHANGED << family, update >>

\* transcribe_stream_begin past its preflight, up to what the family's hook did.
\* The stream is ACTIVE before the hook runs and only an error code it returns
\* changes that.
Begin(p, n, hook) ==
  /\ state # "ACTIVE"
  /\ state' = IF hook = "ERR" THEN "FAILED" ELSE "ACTIVE"
  /\ answer' = hook
  /\ result' = NoResult
  /\ ClearText(p, n)

\* transcribe_stream_feed whose hook returned OK with the snapshot r.
FeedOk(r, stable, bump, said, given) ==
  /\ state = "ACTIVE"
  /\ answer' = "OK"
  /\ view' = IF r.has THEN FeedView(r, Candidate(r, stable)) ELSE NoTentative
  /\ history' = HistoryAfter(r)
  /\ result' = IF policy = "ON_FINALIZE" THEN [r EXCEPT !.ncommitted = 0] ELSE r
  /\ Publish(r, view', bump, said, given)
  /\ UNCHANGED << family, state, policy, agreementN >>

\* transcribe_stream_finalize whose hook returned OK.
FinalizeOk(r, bump, said, given) ==
  /\ state = "ACTIVE"
  /\ state' = "FINISHED"
  /\ answer' = "OK"
  /\ result' = r
  /\ view' = IF r.has THEN FinalView(r) ELSE NoTentative
  /\ Publish(r, view', bump, said, given)
  /\ UNCHANGED << family, policy, agreementN, history >>

\* A feed or finalize whose hook failed, was aborted or threw: the dispatcher
\* keeps its view, whatever the hook left in the snapshot. After an error code
\* the stream is FAILED; after an exception it is still ACTIVE.
HookFails(hook, r, bump, said, given) ==
  /\ state = "ACTIVE"
  /\ state' = IF hook = "ERR" THEN "FAILED" ELSE "ACTIVE"
  /\ answer' = hook
  /\ result' = r
  /\ revision' = revision + bump
  /\ update' = [NoUpdate EXCEPT !.given = given, !.changed = given /\ said]
  /\ UNCHANGED << family, policy, agreementN, view, history >>

\* transcribe_stream_reset, from any state.
Reset ==
  /\ state' = "IDLE"
  /\ answer' = "OK"
  /\ result' = NoResult
  /\ ClearText("AUTO", 0)

\* transcribe_run over a stream that is not ACTIVE leaves the result r.
Run(r) ==
  /\ state # "ACTIVE"
  /\ r.ncommitted = 0
  /\ state' = "IDLE"
  /\ answer' = "OK"
  /\ result' = r
  /\ ClearText("AUTO", 0)

\* The snapshot a hook leaves is result', whichever it is.
Next ==
  /\ result' \in Result
  /\ \/ \E p \in Policies, n \in AgreementNs, hook \in Answers : Begin(p, n, hook)
     \/ \E stable \in 0 .. Len(result'.text), bump \in {0, 1},
           said \in BOOLEAN, given \in BOOLEAN :
             FeedOk(result', stable, bump, said, given)
     \/ \E bump \in {0, 1}, said \in BOOLEAN, given \in BOOLEAN :
             FinalizeOk(result', bump, said, given)
     \/ \E hook \in {"ERR", "THROWN"}, bump \in {0, 1},
           said \in BOOLEAN, given \in BOOLEAN :
             HookFails(hook, result', bump, said, given)
     \/ Reset
     \/ Run(result')

Spec == Init /\ [][Next]_textVars

-----------------------------------------------------------------------------
(* Correctness.                                                            *)

\* Every part of the stream state keeps its type; the generic policy never
\* remembers more hypotheses than the agreement asks for.
TypeOK ==
  /\ family \in Families
  /\ state \in States
  /\ policy \in Policies
  /\ agreementN \in AgreementNs \cup {0}
  /\ result \in Result
  /\ view \in View
  /\ history \in Seq(Text)
  /\ Len(history) <= EffectiveN(agreementN)
  /\ revision \in Nat
  /\ update \in Update
  /\ answer \in Answers

\* "Once bytes are exposed through committed_text they are never rewritten by
\* later feed or finalize calls" (transcribe.h): the committed text is a caption
\* log, which grows at its end while the stream is open, is frozen once it is
\* not, and is emptied only by begin, reset and run.
Captions == INSTANCE CaptionLog WITH open <- state = "ACTIVE", log <- view.committed

CaptionSpec == Captions!Spec

\* What a feed commits was said: after a call that extends the committed text,
\* all of it, and not only the bytes just added, starts the current hypothesis.
CommittedIsSpoken ==
  [][state = "ACTIVE" /\ answer' = "OK" /\ state' # "IDLE"
       /\ view'.committed # view.committed =>
         IsPrefix(view'.committed, result'.text)]_textVars

\* The generic policy commits only what the last agreementN hypotheses share:
\* after a feed that extends the committed text, each of them starts with it.
CommitNeedsAgreement ==
  [][/\ state = "ACTIVE" /\ state' = "ACTIVE"
     /\ view'.committed # view.committed
     /\ ~ FamilyPrefix /\ EffectiveN(agreementN) > 1
     => /\ Len(history') = EffectiveN(agreementN)
        /\ \A i \in DOMAIN history' : IsPrefix(view'.committed, history'[i])]_textVars

\* Under ON_FINALIZE the caller sees no committed text, no committed tokens and
\* an all-tentative hypothesis while the stream is open.
OnFinalizeHides ==
  state = "ACTIVE" /\ policy = "ON_FINALIZE" =>
    /\ view.committed = << >>
    /\ answer = "OK" => /\ result.ncommitted = 0
                        /\ result.has => view.tentative = result.text

\* The two parts a caption shows join without a gap or an overlap: after a good
\* call, if the hypothesis still starts with the committed text and that text
\* ends between two characters, committed followed by tentative is the hypothesis.
SeamCoherent ==
  /\ state = "ACTIVE" /\ answer = "OK" /\ result.has
  /\ IsPrefix(view.committed, result.text)
  /\ Utf8Floor(result.text, Len(view.committed)) = Len(view.committed)
  => view.committed \o view.tentative = result.text

\* A finished stream shows nothing tentative, and its committed text is the final
\* one unless an earlier commitment contradicts it.
FinalizedCovers ==
  state = "FINISHED" =>
    /\ view.tentative = << >>
    /\ result.has /\ view.committed # result.text =>
         /\ policy # "ON_FINALIZE"
         /\ view.committed # << >>
         /\ ~ IsPrefix(view.committed, result.text)

\* A caller that polls the revision, or reads result_changed, misses no change of
\* the text it can read: it moves with every such change, and an update says
\* changed exactly when the revision moved.
ReportTells ==
  [][state = "ACTIVE" /\ answer' = "OK" /\ state' # "IDLE" =>
       /\ \/ result'.has # result.has
          \/ result'.text # result.text
          \/ view'.committed # view.committed
          \/ view'.tentative # view.tentative
          => revision' > revision
       /\ update'.given => (update'.changed <=> revision' # revision)]_textVars
=============================================================================
