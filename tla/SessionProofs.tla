---------------------------- MODULE SessionProofs ----------------------------
(***************************************************************************)
(* Proofs about Session, for any number of utterances and of calls.        *)
(***************************************************************************)
EXTENDS Session, SequenceTheorems, TLAPS

-----------------------------------------------------------------------------
(* The inductive invariant: what the properties need to know of a call that *)
(* is still under way.                                                      *)

\* Each entry has the status of its own outcome, unless the flag of an earlier one that
\* was truncated was still up.
StatusesTold(entries, ends) ==
  \A i \in DOMAIN entries :
    \/ entries[i].status = ends[i]
    \/ /\ Sticky
       /\ entries[i].status = "TRUNCATED" /\ ends[i] = "OK"
       /\ \E j \in 1 .. i - 1 : ends[j] = "TRUNCATED"

\* Entry e of utterance u shows no text that it may not show.
TextsOwn(e, u) ==
  \A t \in e.slot :
    /\ t.call = calls
    /\ \/ t.utterance = u
       \/ /\ t.utterance < u
          /\ \/ family.loop = "appends" /\ e.status = "OK"
             \/ family.loop = "captures" /\ e.status = "ABORTED"

\* A batch under way has one entry for each utterance that ended, in order.
Underway ==
  /\ call = "run" => kind = "run"
  /\ call \in {"poll", "decode"} =>
       /\ kind = "batch"
       /\ Len(outcomes) = Len(batch)
       /\ Len(batch) <= Len(inputs)
       /\ StatusesTold(batch, outcomes)
  /\ call = "decode" => Len(batch) < Len(inputs)

\* What is on show belongs to the last accepted call, and while a batch is under way
\* to the utterances that it has been through.
OfThisCall ==
  /\ \A t \in slot : t.call = calls
  /\ call \in {"poll", "decode"} => \A t \in slot : t.utterance <= Len(batch)
  /\ kind = "run" => batch = << >>
  /\ kind = "batch" => Len(inputs) > 0
  /\ calls = 0 => kind \notin {"run", "batch", "stream"}

\* A stream that was begun is the last accepted call; only its failure aborts it.
StreamAlone ==
  /\ stream # "IDLE" => kind = "stream" /\ call = "none"
  /\ stream \in {"ACTIVE", "FINISHED"} => ~ aborted

\* An utterance was truncated, and its entry says so.
Truncation(entries, ends) ==
  \E i \in DOMAIN entries : ends[i] = "TRUNCATED" /\ entries[i].status = "TRUNCATED"

\* What the flags say while a call is under way: the loop of a family keeps them up,
\* the loop of the dispatcher ends with them, and the loop of moss keeps was_truncated
\* for the last utterance only.
FlagsUnderway ==
  /\ call = "run" => ~ aborted /\ ~ truncated
  /\ call \in {"poll", "decode"} =>
       /\ aborted => /\ HasHook
                     /\ \E i \in DOMAIN batch : batch[i].status = "ABORTED"
       /\ truncated => Truncates /\ Truncation(batch, outcomes)
       /\ (\E i \in DOMAIN batch : batch[i].status = "TRUNCATED") =>
            truncated \/ family.loop = "moss"

\* After a batch that returned, the slot shows utterance 0.
ShowsFirst == BatchReturned => slot = batch[1].slot

IInv ==
  /\ TypeOK
  /\ Underway
  /\ OfThisCall
  /\ StreamAlone
  /\ FlagsUnderway
  /\ BatchAnswersAll
  /\ EntryIsOwn
  /\ ShowsFirst
  /\ AbortTold
  /\ TruncationTold

LEMMA SlotTypes ==
  /\ Empty \in Slots
  /\ \A u \in 1 .. MaxUtterances :
       calls \in 1 .. MaxCalls =>
         /\ Own(u) \in Slots
         /\ \A t \in Own(u) : t.call = calls /\ t.utterance = u
  /\ \A s \in Slots, t \in Statuses :
       /\ [slot |-> s, status |-> t] \in Entries
       /\ [slot |-> s, status |-> t].slot = s
       /\ [slot |-> s, status |-> t].status = t
  /\ \A e \in Entries : e.slot \in Slots
<1>1. Empty \in Slots
  BY DEF Empty, Slots
<1>2. ASSUME NEW u \in 1 .. MaxUtterances, calls \in 1 .. MaxCalls
      PROVE  /\ Own(u) \in Slots
             /\ \A t \in Own(u) : t.call = calls /\ t.utterance = u
  <2>1. [call |-> calls, utterance |-> u] \in Texts
    BY <1>2 DEF Texts
  <2> QED  BY <2>1 DEF Own, Slots
<1>3. \A s \in Slots, t \in Statuses :
       /\ [slot |-> s, status |-> t] \in Entries
       /\ [slot |-> s, status |-> t].slot = s
       /\ [slot |-> s, status |-> t].status = t
  BY DEF Entries
<1>4. \A e \in Entries : e.slot \in Slots
  BY DEF Entries
<1> QED  BY <1>1, <1>2, <1>3, <1>4

\* Padding fills a batch up to one entry per utterance, all of them aborted.
LEMMA PaddedFact ==
  ASSUME NEW entries \in Seq(Entries), inputs \in Seq(BOOLEAN), Len(entries) <= Len(inputs)
  PROVE  /\ Padded(entries) \in Seq(Entries)
         /\ Len(Padded(entries)) = Len(inputs)
         /\ \A i \in 1 .. Len(entries) : Padded(entries)[i] = entries[i]
         /\ \A i \in 1 .. Len(inputs) : i > Len(entries) =>
              /\ Padded(entries)[i].status = "ABORTED"
              /\ Padded(entries)[i].slot = Empty
<1> DEFINE n == Len(inputs) - Len(entries)
           e == [slot |-> Empty, status |-> "ABORTED"]
           pad == [i \in 1 .. n |-> e]
<1>1. n \in Nat /\ Len(entries) \in Nat /\ Len(inputs) \in Nat
  OBVIOUS
<1>2. e \in Entries /\ e.status = "ABORTED" /\ e.slot = Empty
  <2>1. "ABORTED" \in Statuses
    BY DEF Statuses
  <2> QED  BY <2>1, SlotTypes
<1> HIDE DEF e
<1>3. pad \in Seq(Entries) /\ Len(pad) = n /\ \A i \in 1 .. n : pad[i] = e
  <2>1. pad \in [1 .. n -> Entries]
    BY <1>2
  <2>2. pad \in Seq(Entries)
    BY <1>1, <2>1, SeqDef
  <2>3. Len(pad) = n
    BY <1>1, <2>1
  <2> QED  BY <2>2, <2>3
<1>4. Padded(entries) = entries \o pad
  BY DEF Padded, e
<1> HIDE DEF pad
<1>5. /\ entries \o pad \in Seq(Entries)
      /\ Len(entries \o pad) = Len(inputs)
      /\ \A i \in 1 .. Len(entries) : (entries \o pad)[i] = entries[i]
      /\ \A i \in 1 .. Len(inputs) : i > Len(entries) =>
           (entries \o pad)[i] = pad[i - Len(entries)]
  <2>1. /\ entries \o pad \in Seq(Entries)
        /\ Len(entries \o pad) = Len(entries) + Len(pad)
        /\ \A i \in 1 .. Len(entries) + Len(pad) : (entries \o pad)[i] =
              IF i <= Len(entries) THEN entries[i] ELSE pad[i - Len(entries)]
    BY <1>3, ConcatProperties
  <2>2. Len(entries) + Len(pad) = Len(inputs)
    BY <1>1, <1>3
  <2> QED  BY <1>1, <2>1, <2>2
<1>6. ASSUME NEW i \in 1 .. Len(inputs), i > Len(entries)
      PROVE  (entries \o pad)[i] = e
  <2>1. i - Len(entries) \in 1 .. n
    BY <1>1, <1>6
  <2>2. (entries \o pad)[i] = pad[i - Len(entries)]
    BY <1>1, <1>5, <1>6
  <2> QED  BY <1>3, <2>1, <2>2
<1> QED  BY <1>2, <1>4, <1>5, <1>6

LEMMA InitIInv == Init => IInv
<1> SUFFICES ASSUME Init PROVE IInv
  OBVIOUS
<1>1. TypeOK
  <2>1. << >> \in Seq(BOOLEAN) /\ << >> \in Seq(Statuses) /\ << >> \in Seq(Entries)
    OBVIOUS
  <2>2. Len(<< >>) = 0 /\ MaxUtterances \in Nat /\ MaxCalls \in Nat
    BY SessionAssumption
  <2>3. "OK" \in Statuses /\ "OK" \in Answers /\ "IDLE" \in States /\ "none" \in Kinds
    BY DEF Kinds, States, Statuses, Answers
  <2>4. family \in Families /\ slot \in Slots
    BY SlotTypes DEF Init
  <2>5. calls \in 0 .. MaxCalls /\ Len(inputs) <= MaxUtterances /\ Len(batch) <= MaxUtterances
    BY <2>2 DEF Init
  <2> QED  BY <2>1, <2>3, <2>4, <2>5 DEF Init, TypeOK
<1>2. Underway /\ OfThisCall /\ StreamAlone /\ FlagsUnderway
  BY DEF Init, Underway, OfThisCall, StreamAlone, FlagsUnderway, Empty
<1>3. BatchAnswersAll /\ EntryIsOwn /\ ShowsFirst /\ AbortTold /\ TruncationTold
  BY DEF Init, BatchAnswersAll, BatchReturned, EntryIsOwn, ShowsFirst, AbortTold,
         TruncationTold
<1> QED  BY <1>1, <1>2, <1>3 DEF IInv

\* Steps that leave everything but refused and request as it is.
LEMMA QuietKeeps ==
  ASSUME IInv,
         UNCHANGED << call, inputs, outcomes, calls, kind, answer, resultVars, streamVars,
                      family >>,
         request' \in BOOLEAN, refused' \in BOOLEAN, refused => refused'
  PROVE  IInv'
<1> USE DEF IInv, resultVars, streamVars
<1>1. TypeOK'
  BY DEF TypeOK
<1>2. Underway' /\ OfThisCall' /\ StreamAlone' /\ FlagsUnderway'
  BY DEF Underway, OfThisCall, StreamAlone, FlagsUnderway, StatusesTold, Truncation, Sticky,
         Truncates, HasHook
<1>3. BatchReturned' => BatchReturned
  BY DEF BatchReturned, TypeOK
<1>4. BatchAnswersAll' /\ EntryIsOwn' /\ ShowsFirst'
  BY <1>3 DEF BatchAnswersAll, EntryIsOwn, ShowsFirst, Sticky
<1>5. AbortTold' /\ TruncationTold'
  BY <1>3 DEF AbortTold, TruncationTold, TypeOK, HasHook
<1> QED  BY <1>1, <1>2, <1>4, <1>5

LEMMA RefuseRunKeeps == ASSUME IInv, RefuseRun PROVE IInv'
<1> USE DEF IInv, RefuseRun, streamVars
<1>1. TypeOK'
  <2>1. << >> \in Seq(Entries) /\ Len(<< >>) = 0
    OBVIOUS
  <2>2. MaxUtterances \in Nat /\ refused' \in BOOLEAN
    BY SessionAssumption
  <2> QED  BY <2>1, <2>2 DEF TypeOK
<1>2. Underway' /\ OfThisCall' /\ StreamAlone' /\ FlagsUnderway'
  BY DEF Underway, OfThisCall, StreamAlone, FlagsUnderway
<1>3. ~ BatchReturned'
  BY DEF BatchReturned
<1>4. BatchAnswersAll' /\ EntryIsOwn' /\ ShowsFirst'
  BY <1>3 DEF BatchAnswersAll, EntryIsOwn, ShowsFirst
<1>5. AbortTold' /\ TruncationTold'
  BY <1>3 DEF AbortTold, TruncationTold
<1> QED  BY <1>1, <1>2, <1>4, <1>5

\* What an accepted call leaves, whatever it is: the results and the flags are gone.
LEMMA AcceptKeeps ==
  ASSUME IInv, NEW k \in {"run", "batch", "stream"}, NEW us \in Seq(BOOLEAN),
         Len(us) <= MaxUtterances, k = "batch" => Len(us) > 0,
         Accept(k, us),
         k = "batch" => call' = "poll", k = "run" => call' = "run",
         k = "stream" => call' = "none" /\ batch' = batch,
         k # "stream" => batch' = << >> /\ stream' = "IDLE",
         stream' \in States, lastStatus' \in Statuses, answer' \in Answers,
         k = "stream" => answer' # "ABORTED"
  PROVE  IInv'
<1> USE DEF IInv, Accept
<1>1. TypeOK'
  <2>1. << >> \in Seq(Statuses) /\ << >> \in Seq(Entries) /\ Len(<< >>) = 0
    OBVIOUS
  <2>2. Empty \in Slots
    BY SlotTypes
  <2>3. batch' \in Seq(Entries) /\ Len(batch') <= MaxUtterances
    <3>1. 0 <= MaxUtterances
      BY SessionAssumption
    <3>2. CASE k = "stream"
      BY <3>2 DEF TypeOK
    <3>3. CASE k # "stream"
      BY <2>1, <3>1, <3>3
    <3> QED  BY <3>2, <3>3
  <2>4. calls' \in 0 .. MaxCalls
    BY SessionAssumption DEF TypeOK
  <2>5. kind' \in Kinds /\ call' \in {"none", "run", "poll", "decode"}
    BY DEF Kinds
  <2> QED  BY <2>1, <2>2, <2>3, <2>4, <2>5 DEF TypeOK
<1>2. calls' > 0
  BY DEF TypeOK
<1>3. Underway' /\ StreamAlone'
  <2>1. Len(<< >>) = 0 /\ DOMAIN << >> = {}
    OBVIOUS
  <2>2. Len(us) \in Nat
    OBVIOUS
  <2> QED  BY <2>1, <2>2 DEF Underway, StreamAlone, StatusesTold
<1>4. OfThisCall'
  BY <1>2 DEF OfThisCall, Empty
<1>5. FlagsUnderway'
  BY DEF FlagsUnderway
<1>6. BatchAnswersAll' /\ ShowsFirst' /\ EntryIsOwn'
  BY DEF BatchAnswersAll, BatchReturned, ShowsFirst, EntryIsOwn
<1>7. AbortTold' /\ TruncationTold'
  BY DEF AbortTold, TruncationTold, BatchReturned
<1> QED  BY <1>1, <1>3, <1>4, <1>5, <1>6, <1>7

LEMMA EndRunKeeps == ASSUME IInv, NEW o \in Outcomes, EndRun(o) PROVE IInv'
<1> USE DEF IInv, EndRun, streamVars
<1>1. o \in Statuses /\ o \in Answers /\ calls > 0
  BY DEF Outcomes, Statuses, Answers, Underway, OfThisCall, TypeOK
<1>2. calls \in 1 .. MaxCalls /\ 1 \in 1 .. MaxUtterances
  BY <1>1, SessionAssumption DEF TypeOK
<1>3. slot' \in {Empty, Own(1)}
  BY DEF Leaves
<1>4. slot' \in Slots /\ \A t \in slot' : t.call = calls
  BY <1>2, <1>3, SlotTypes DEF Empty
<1>5. TypeOK'
  <2>1. << o >> \in Seq(Statuses)
    BY <1>1
  <2> QED  BY <1>1, <1>4, <2>1 DEF TypeOK
<1>6. Underway' /\ OfThisCall' /\ FlagsUnderway'
  BY <1>4 DEF Underway, OfThisCall, FlagsUnderway
<1>7. StreamAlone'
  BY DEF StreamAlone
<1>8. BatchAnswersAll' /\ ShowsFirst' /\ EntryIsOwn'
  BY DEF Underway, BatchAnswersAll, BatchReturned, ShowsFirst, EntryIsOwn
<1>9. AbortTold' /\ TruncationTold'
  BY DEF Underway, AbortTold, TruncationTold, BatchReturned
<1> QED  BY <1>5, <1>6, <1>7, <1>8, <1>9

\* One more utterance of a batch: its outcome and its own entry are appended.
LEMMA AppendKeeps ==
  ASSUME IInv, call = "decode", NEW o \in Statuses, NEW e \in Entries,
         \/ e.status = o
         \/ Sticky /\ truncated /\ o = "OK" /\ e.status = "TRUNCATED",
         TextsOwn(e, Current),
         outcomes' = Append(outcomes, o), batch' = Append(batch, e), call' = "poll",
         slot' \in Slots, \A t \in slot' : t.call = calls /\ t.utterance <= Current,
         aborted' \in BOOLEAN,
         aborted' => HasHook /\ (aborted \/ e.status = "ABORTED"),
         truncated' \in BOOLEAN,
         truncated' => Truncates /\ (truncated \/ o = "TRUNCATED"),
         truncated \/ e.status = "TRUNCATED" => truncated' \/ family.loop = "moss",
         UNCHANGED << inputs, calls, kind, refused, answer, streamVars, family, request >>
  PROVE  IInv'
<1> USE DEF IInv, streamVars
<1>1. /\ kind = "batch" /\ batch \in Seq(Entries) /\ outcomes \in Seq(Statuses)
      /\ Len(outcomes) = Len(batch) /\ Len(batch) < Len(inputs)
      /\ Len(batch) \in Nat /\ Len(inputs) \in Nat /\ Len(inputs) <= MaxUtterances
      /\ stream = "IDLE" /\ Current = Len(batch) + 1
  BY DEF Underway, TypeOK, StreamAlone, States, Current
<1>2. /\ batch' \in Seq(Entries) /\ Len(batch') = Len(batch) + 1
      /\ DOMAIN batch' = 1 .. Len(batch) + 1 /\ DOMAIN batch = 1 .. Len(batch)
      /\ \A i \in 1 .. Len(batch) : batch'[i] = batch[i]
      /\ batch'[Len(batch) + 1] = e
  BY <1>1
<1>3. /\ outcomes' \in Seq(Statuses) /\ Len(outcomes') = Len(batch) + 1
      /\ \A i \in 1 .. Len(batch) : outcomes'[i] = outcomes[i]
      /\ outcomes'[Len(batch) + 1] = o
  BY <1>1
<1>4. \A i \in DOMAIN batch' : i \in DOMAIN batch \/ i = Len(batch) + 1
  BY <1>1, <1>2
<1>5. TypeOK'
  <2>1. Len(batch') <= MaxUtterances
    BY <1>1, <1>2, SessionAssumption
  <2> QED  BY <1>2, <1>3, <2>1 DEF TypeOK
<1>6. \A i \in DOMAIN batch : /\ i \in DOMAIN batch' /\ batch'[i] = batch[i]
                              /\ outcomes'[i] = outcomes[i]
  BY <1>1, <1>2, <1>3
<1>7. Len(batch) + 1 \in DOMAIN batch'
  BY <1>1, <1>2
<1>8. Truncation(batch, outcomes) \/ o = "TRUNCATED" => Truncation(batch, outcomes)'
  <2>1. CASE Truncation(batch, outcomes)
    BY <1>6, <2>1 DEF Truncation
  <2>2. CASE o = "TRUNCATED"
    BY <1>2, <1>3, <1>7, <2>2 DEF Truncation
  <2> QED  BY <2>1, <2>2
<1>9. StatusesTold(batch, outcomes)'
  <2> SUFFICES ASSUME NEW i \in DOMAIN batch'
               PROVE  \/ batch'[i].status = outcomes'[i]
                      \/ /\ Sticky
                         /\ batch'[i].status = "TRUNCATED" /\ outcomes'[i] = "OK"
                         /\ \E j \in 1 .. i - 1 : outcomes'[j] = "TRUNCATED"
    BY DEF StatusesTold, Sticky
  <2>1. CASE i \in DOMAIN batch
    <3>1. \A j \in 1 .. i - 1 : outcomes'[j] = outcomes[j]
      BY <1>1, <1>2, <1>3, <2>1
    <3> QED  BY <1>6, <2>1, <3>1 DEF StatusesTold, Underway
  <2>2. CASE i = Len(batch) + 1
    <3>1. CASE e.status = o
      BY <1>2, <1>3, <2>2, <3>1
    <3>2. CASE Sticky /\ truncated /\ o = "OK" /\ e.status = "TRUNCATED"
      <4>1. PICK j \in DOMAIN batch : outcomes[j] = "TRUNCATED"
        BY <3>2 DEF FlagsUnderway, Truncation
      <4>2. j \in 1 .. i - 1 /\ outcomes'[j] = "TRUNCATED"
        BY <1>1, <1>2, <1>6, <2>2, <4>1
      <4> QED  BY <1>2, <1>3, <2>2, <3>2, <4>2
    <3> QED  BY <3>1, <3>2
  <2> QED  BY <1>4, <2>1, <2>2
<1>10. Underway'
  <2>1. Len(batch') <= Len(inputs)
    BY <1>1, <1>2
  <2> QED  BY <1>1, <1>2, <1>3, <1>9, <2>1 DEF Underway
<1>11. OfThisCall' /\ StreamAlone'
  BY <1>1, <1>2 DEF OfThisCall, StreamAlone
<1>12. FlagsUnderway'
  <2>1. aborted' => HasHook' /\ \E i \in DOMAIN batch' : batch'[i].status = "ABORTED"
    BY <1>2, <1>6, <1>7 DEF FlagsUnderway, HasHook
  <2>2. truncated' => Truncates' /\ Truncation(batch, outcomes)'
    BY <1>8 DEF FlagsUnderway, Truncates
  <2>3. ASSUME NEW i \in DOMAIN batch', batch'[i].status = "TRUNCATED"
        PROVE  truncated' \/ family.loop = "moss"
    BY <1>2, <1>4, <1>6, <2>3 DEF FlagsUnderway
  <2> QED  BY <2>1, <2>2, <2>3 DEF FlagsUnderway
<1>13. EntryIsOwn'
  <2> SUFFICES ASSUME NEW i \in DOMAIN batch' PROVE TextsOwn(batch'[i], i)
    BY DEF EntryIsOwn, TextsOwn
  <2>1. CASE i \in DOMAIN batch
    BY <1>1, <1>6, <2>1 DEF EntryIsOwn, TextsOwn
  <2>2. CASE i = Len(batch) + 1
    BY <1>1, <1>2, <2>2
  <2> QED  BY <1>4, <2>1, <2>2
<1>14. BatchAnswersAll' /\ ShowsFirst' /\ AbortTold' /\ TruncationTold'
  BY <1>1 DEF BatchAnswersAll, BatchReturned, ShowsFirst, AbortTold, TruncationTold
<1> QED  BY <1>5, <1>10, <1>11, <1>12, <1>13, <1>14

\* The end of a batch: one entry for each outcome so far; OK only if none is left.
LEMMA EndBatchKeeps ==
  ASSUME IInv, call \in {"poll", "decode"}, NEW status \in {"OK", "ABORTED", "ERR"},
         NEW entries \in Seq(Entries), NEW last \in Slots, outcomes' \in Seq(Statuses),
         EndBatch(status, entries, last),
         \A t \in last : t.call = calls,
         Len(outcomes') = Len(entries), Len(entries) <= Len(inputs),
         StatusesTold(entries, outcomes'),
         \A i \in DOMAIN entries : TextsOwn(entries[i], i),
         status = "OK" => Len(entries) = Len(inputs),
         aborted' \in BOOLEAN,
         aborted' => \/ status = "ABORTED"
                     \/ HasHook /\ \E i \in DOMAIN entries : entries[i].status = "ABORTED",
         status = "ABORTED" => aborted',
         truncated' \in BOOLEAN,
         truncated' => Truncation(entries, outcomes'),
         (\E i \in DOMAIN entries : entries[i].status = "TRUNCATED") =>
            truncated' \/ (family.loop = "moss" /\ status = "ABORTED"),
         UNCHANGED << inputs, calls, kind, refused, streamVars, family, request >>
  PROVE  IInv'
<1> USE DEF IInv, streamVars
<1>1. /\ kind = "batch" /\ inputs \in Seq(BOOLEAN)
      /\ Len(entries) \in Nat /\ Len(inputs) \in Nat /\ Len(inputs) <= MaxUtterances
      /\ Len(inputs) > 0 /\ DOMAIN entries = 1 .. Len(entries)
      /\ stream = "IDLE" /\ status \in Answers /\ status \in Statuses
      /\ call' = "none" /\ answer' = status
  BY DEF Underway, TypeOK, StreamAlone, States, OfThisCall, Answers, Statuses, EndBatch
<1>2. \A i \in DOMAIN entries : \A t \in entries[i].slot : t.call = calls
  BY DEF TextsOwn
<1>3. CASE status = "ABORTED"
  <2>1. batch' = Padded(entries)
    BY <1>3 DEF EndBatch
  <2>2. /\ batch' \in Seq(Entries) /\ Len(batch') = Len(inputs)
        /\ \A i \in 1 .. Len(entries) : batch'[i] = entries[i]
        /\ \A i \in 1 .. Len(inputs) : i > Len(entries) =>
             batch'[i].status = "ABORTED" /\ batch'[i].slot = Empty
    BY <1>1, <2>1, PaddedFact
  <2>3. DOMAIN batch' = 1 .. Len(inputs)
    BY <2>2
  <2>4. slot' = batch'[1].slot
    BY <1>1, <2>2, <2>3 DEF EndBatch
  <2>5. \A i \in DOMAIN batch' : \/ i \in DOMAIN entries /\ batch'[i] = entries[i]
                                 \/ /\ i > Len(entries) /\ batch'[i].status = "ABORTED"
                                    /\ batch'[i].slot = Empty
    BY <1>1, <2>2, <2>3
  <2>6. \A i \in DOMAIN batch' : TextsOwn(batch'[i], i)
    BY <2>5 DEF TextsOwn, Empty
  <2>7. slot' \in Slots /\ \A t \in slot' : t.call = calls
    <3>1. 1 \in DOMAIN batch'
      BY <1>1, <2>3
    <3>2. batch'[1] \in Entries
      BY <2>2, <3>1
    <3> QED  BY <2>4, <2>6, <3>1, <3>2, SlotTypes DEF TextsOwn
  <2>8. TypeOK'
    <3>1. Len(batch') <= MaxUtterances
      BY <1>1, <2>2, SessionAssumption
    <3> QED  BY <1>1, <2>2, <2>7, <3>1 DEF TypeOK
  <2>9. BatchAnswersAll'
    <3>1. ASSUME NEW i \in DOMAIN batch'
          PROVE  \/ batch'[i].status = IF i <= Len(outcomes') THEN outcomes'[i] ELSE "ABORTED"
                 \/ /\ Sticky' /\ i <= Len(outcomes')
                    /\ batch'[i].status = "TRUNCATED" /\ outcomes'[i] = "OK"
                    /\ \E j \in 1 .. i - 1 : outcomes'[j] = "TRUNCATED"
      <4>1. CASE i \in DOMAIN entries /\ batch'[i] = entries[i]
        <5>1. i <= Len(outcomes')
          BY <1>1, <4>1
        <5> QED  BY <4>1, <5>1 DEF StatusesTold, Sticky
      <4>2. CASE i > Len(entries) /\ batch'[i].status = "ABORTED"
        <5>1. ~ (i <= Len(outcomes'))
          BY <1>1, <2>3, <4>2
        <5> QED  BY <4>2, <5>1
      <4> QED  BY <2>5, <4>1, <4>2
    <3> QED  BY <1>1, <1>3, <2>2, <3>1 DEF BatchAnswersAll
  <2>10. Underway' /\ OfThisCall' /\ StreamAlone' /\ FlagsUnderway'
    BY <1>1, <2>7 DEF Underway, OfThisCall, StreamAlone, FlagsUnderway
  <2>11. EntryIsOwn'
    BY <2>6 DEF EntryIsOwn, TextsOwn
  <2>12. ShowsFirst' /\ AbortTold'
    BY <1>1, <1>3, <2>4 DEF ShowsFirst, AbortTold
  <2>13. TruncationTold'
    <3>1. truncated' => \E i \in DOMAIN batch' : /\ i <= Len(outcomes')
                                                 /\ outcomes'[i] = "TRUNCATED"
                                                 /\ batch'[i].status = "TRUNCATED"
      <4> SUFFICES ASSUME truncated'
                   PROVE  \E i \in DOMAIN batch' : /\ i <= Len(outcomes')
                                                   /\ outcomes'[i] = "TRUNCATED"
                                                   /\ batch'[i].status = "TRUNCATED"
        OBVIOUS
      <4>1. PICK i \in DOMAIN entries : /\ outcomes'[i] = "TRUNCATED"
                                        /\ entries[i].status = "TRUNCATED"
        BY DEF Truncation
      <4>2. i \in DOMAIN batch' /\ batch'[i] = entries[i] /\ i <= Len(outcomes')
        BY <1>1, <2>2, <2>3
      <4> QED  BY <4>1, <4>2
    <3>2. (\E i \in DOMAIN batch' : batch'[i].status = "TRUNCATED") =>
             truncated' \/ (family.loop = "moss" /\ status = "ABORTED")
      BY <2>5
    <3> QED  BY <1>1, <3>1, <3>2 DEF TruncationTold
  <2> QED  BY <2>8, <2>9, <2>10, <2>11, <2>12, <2>13
<1>4. CASE status # "ABORTED"
  <2>1. batch' = entries
    BY <1>4 DEF EndBatch
  <2>2. \/ entries = << >> /\ slot' = last
        \/ Len(entries) > 0 /\ slot' = entries[1].slot
    BY <1>1, <2>1 DEF EndBatch
  <2>3. slot' \in Slots /\ \A t \in slot' : t.call = calls
    <3>1. CASE entries = << >> /\ slot' = last
      BY <3>1
    <3>2. CASE Len(entries) > 0 /\ slot' = entries[1].slot
      <4>1. 1 \in DOMAIN entries
        BY <1>1, <3>2
      <4>2. entries[1] \in Entries
        BY <4>1
      <4> QED  BY <1>2, <3>2, <4>1, <4>2, SlotTypes
    <3> QED  BY <2>2, <3>1, <3>2
  <2>4. TypeOK'
    <3>1. Len(batch') <= MaxUtterances
      BY <1>1, <2>1, SessionAssumption
    <3> QED  BY <1>1, <2>1, <2>3, <3>1 DEF TypeOK
  <2>5. Underway' /\ OfThisCall' /\ StreamAlone' /\ FlagsUnderway'
    BY <1>1, <2>3 DEF Underway, OfThisCall, StreamAlone, FlagsUnderway
  <2>6. \A i \in DOMAIN entries : i <= Len(outcomes')
    BY <1>1
  <2>7. BatchAnswersAll'
    <3>1. BatchReturned' => Len(entries) = Len(inputs)
      BY <1>1, <1>4 DEF BatchReturned
    <3>2. Len(entries) = Len(inputs) => ~ (Len(outcomes') < Len(inputs))
      BY <1>1
    <3>3. ASSUME NEW i \in DOMAIN entries
          PROVE  \/ entries[i].status = IF i <= Len(outcomes') THEN outcomes'[i] ELSE "ABORTED"
                 \/ /\ Sticky' /\ i <= Len(outcomes')
                    /\ entries[i].status = "TRUNCATED" /\ outcomes'[i] = "OK"
                    /\ \E j \in 1 .. i - 1 : outcomes'[j] = "TRUNCATED"
      BY <2>6 DEF StatusesTold, Sticky
    <3> QED  BY <1>1, <2>1, <3>1, <3>2, <3>3 DEF BatchAnswersAll
  <2>8. ShowsFirst'
    <3>1. BatchReturned' => Len(entries) = Len(inputs)
      BY <1>1, <1>4 DEF BatchReturned
    <3>2. Len(entries) = Len(inputs) => entries # << >>
      BY <1>1
    <3> QED  BY <2>1, <2>2, <3>1, <3>2 DEF ShowsFirst
  <2>9. EntryIsOwn'
    BY <2>1 DEF EntryIsOwn, TextsOwn
  <2>10. AbortTold'
    BY <1>1, <1>4, <2>1 DEF AbortTold, HasHook
  <2>11. TruncationTold'
    <3>1. truncated' => \E i \in DOMAIN batch' : /\ i <= Len(outcomes')
                                                 /\ outcomes'[i] = "TRUNCATED"
                                                 /\ batch'[i].status = "TRUNCATED"
      BY <2>1, <2>6 DEF Truncation
    <3> QED  BY <1>1, <1>4, <2>1, <3>1 DEF TruncationTold
  <2> QED  BY <2>4, <2>5, <2>7, <2>8, <2>9, <2>10, <2>11
<1> QED  BY <1>3, <1>4

\* What FinishBatch and Poll know of a batch under way.
LEMMA UnderwayFact ==
  ASSUME IInv, call \in {"poll", "decode"}
  PROVE  /\ kind = "batch" /\ Len(outcomes) = Len(batch) /\ Len(batch) <= Len(inputs)
         /\ StatusesTold(batch, outcomes)
         /\ slot \in Slots /\ batch \in Seq(Entries) /\ outcomes \in Seq(Statuses)
         /\ \A t \in slot : t.call = calls
         /\ \A i \in DOMAIN batch : TextsOwn(batch[i], i)
<1>1. kind = "batch"
  BY DEF IInv, Underway
<1> QED  BY <1>1 DEF IInv, Underway, OfThisCall, TypeOK, EntryIsOwn, TextsOwn

LEMMA PollKeeps == ASSUME IInv, Poll PROVE IInv'
<1> USE DEF Poll
<1>1. CASE request
  <2>1. EndBatch("ABORTED", batch, slot) /\ aborted' /\ outcomes' = outcomes
    BY <1>1
  <2>2. /\ truncated' => Truncation(batch, outcomes')
        /\ (\E i \in DOMAIN batch : batch[i].status = "TRUNCATED") =>
             truncated' \/ family.loop = "moss"
    BY DEF IInv, FlagsUnderway, Truncation
  <2>3. truncated' \in BOOLEAN /\ aborted' \in BOOLEAN
    BY DEF IInv, TypeOK
  <2>4. /\ slot \in Slots /\ batch \in Seq(Entries) /\ outcomes' \in Seq(Statuses)
        /\ \A t \in slot : t.call = calls
        /\ \A i \in DOMAIN batch : TextsOwn(batch[i], i)
        /\ Len(outcomes') = Len(batch) /\ Len(batch) <= Len(inputs)
        /\ StatusesTold(batch, outcomes')
    BY <2>1, UnderwayFact
  <2> QED  BY <2>1, <2>2, <2>3, <2>4, EndBatchKeeps
<1>2. CASE ~ request
  <2> USE DEF IInv
  <2>1. /\ call' = "decode" /\ aborted' = aborted
        /\ UNCHANGED << answer, batch, slot >>
    BY <1>2 DEF TypeOK
  <2>2. TypeOK'
    BY <2>1 DEF TypeOK, streamVars
  <2>3. Underway' /\ OfThisCall' /\ StreamAlone' /\ FlagsUnderway'
    BY <2>1 DEF Underway, OfThisCall, StreamAlone, FlagsUnderway, streamVars, StatusesTold,
                Truncation, Sticky, Truncates, HasHook
  <2>4. BatchAnswersAll' /\ EntryIsOwn' /\ ShowsFirst' /\ AbortTold' /\ TruncationTold'
    BY <2>1 DEF Underway, BatchAnswersAll, BatchReturned, EntryIsOwn, ShowsFirst, AbortTold,
                TruncationTold
  <2> QED  BY <2>2, <2>3, <2>4
<1> QED  BY <1>1, <1>2

\* What is known of the utterance that is being decoded.
LEMMA CurrentFact ==
  ASSUME IInv, call = "decode"
  PROVE  /\ calls \in 1 .. MaxCalls /\ Current \in 1 .. MaxUtterances
         /\ Empty \in Slots /\ Own(Current) \in Slots
         /\ slot \in Slots
         /\ \A t \in slot : t.call = calls /\ t.utterance < Current
         /\ \A t \in Own(Current) : t.call = calls /\ t.utterance = Current
         /\ \A t \in Slots : t \cup Own(Current) \in Slots
<1>1. kind = "batch" /\ Len(batch) < Len(inputs) /\ Len(inputs) <= MaxUtterances
  BY DEF IInv, Underway, TypeOK
<1>2. calls \in 1 .. MaxCalls
  BY <1>1, SessionAssumption DEF IInv, OfThisCall, TypeOK
<1>3. batch \in Seq(Entries) /\ inputs \in Seq(BOOLEAN) /\ slot \in Slots
  BY DEF IInv, TypeOK
<1>4. Len(batch) \in Nat /\ Len(inputs) \in Nat
  BY <1>3
<1>5. Current \in 1 .. MaxUtterances
  BY <1>1, <1>4, SessionAssumption DEF Current
<1>6. \A t \in slot : t.call = calls /\ t.utterance < Current
  <2> SUFFICES ASSUME NEW t \in slot PROVE t.call = calls /\ t.utterance < Current
    OBVIOUS
  <2>1. t.utterance \in 1 .. MaxUtterances
    BY <1>3 DEF Slots, Texts
  <2>2. t.call = calls /\ t.utterance <= Len(batch)
    BY DEF IInv, OfThisCall
  <2> QED  BY <1>4, <2>1, <2>2, SessionAssumption DEF Current
<1>7. /\ Empty \in Slots /\ Own(Current) \in Slots
      /\ \A t \in Own(Current) : t.call = calls /\ t.utterance = Current
  BY <1>2, <1>5, SlotTypes
<1>8. \A t \in Slots : t \cup Own(Current) \in Slots
  BY <1>7 DEF Slots
<1> QED  BY <1>2, <1>3, <1>5, <1>6, <1>7, <1>8

\* What a decode may leave in the slot: texts up to the current one, of this call.
LEMMA LeftFact ==
  ASSUME IInv, call = "decode",
         NEW left \in {slot, Empty, Own(Current), slot \cup Own(Current)}
  PROVE  /\ left \in Slots
         /\ \A t \in left : /\ t.call = calls /\ t.utterance <= Current
                            /\ t.utterance = Current \/ t.utterance < Current
         /\ left \in {Empty, Own(Current)} => \A t \in left : t.utterance = Current
<1>1. Current \in Nat
  BY CurrentFact, SessionAssumption
<1>2. left \in Slots
  BY CurrentFact
<1>3. \A t \in left : t.call = calls /\ (t.utterance = Current \/ t.utterance < Current)
  BY CurrentFact DEF Empty
<1>4. \A t \in left : t.utterance \in Nat
  BY <1>2, SessionAssumption DEF Slots, Texts
<1>5. \A t \in left : t.utterance <= Current
  BY <1>1, <1>3, <1>4
<1> QED  BY <1>2, <1>3, <1>5, CurrentFact DEF Empty

LEMMA MalformedUtteranceKeeps == ASSUME IInv, MalformedUtterance PROVE IInv'
<1> USE DEF MalformedUtterance
<1> DEFINE e == Entry("INVALID", slot)
<1>1. e \in Entries /\ e.status = "INVALID" /\ e.slot = Empty
  <2>1. "INVALID" \in Statuses
    BY DEF Statuses
  <2> QED  BY <2>1, SlotTypes DEF Entry
<1>2. aborted' => HasHook /\ aborted
  BY DEF IInv, FlagsUnderway
<1>3. aborted' \in BOOLEAN /\ truncated' \in BOOLEAN /\ "INVALID" \in Statuses
  BY DEF IInv, TypeOK, Statuses
<1>4. /\ truncated' => Truncates /\ truncated
      /\ truncated => truncated' \/ family.loop = "moss"
  BY DEF IInv, FlagsUnderway
<1>5. slot' \in Slots /\ \A t \in slot' : t.call = calls /\ t.utterance <= Current
  <2>1. slot' \in {slot, Empty, Own(Current), slot \cup Own(Current)}
    OBVIOUS
  <2> QED  BY <2>1, LeftFact
<1>6. TextsOwn(e, Current)
  BY <1>1 DEF TextsOwn, Empty
<1> HIDE DEF e
<1>7. batch' = Append(batch, e) /\ call = "decode"
  BY DEF e
<1> QED  BY <1>1, <1>2, <1>3, <1>4, <1>5, <1>6, <1>7, AppendKeeps

LEMMA OutcomeFact ==
  ASSUME NEW o \in Outcomes
  PROVE  /\ o \in Statuses
         /\ o \in {"OK", "ERR", "TRUNCATED", "ABORTED"}
         /\ o = "TRUNCATED" => Truncates
BY DEF Outcomes, Statuses

LEMMA FamilyUtteranceKeeps ==
  ASSUME IInv, NEW o \in Outcomes, FamilyUtterance(o) PROVE IInv'
<1> USE DEF FamilyUtterance
<1> DEFINE e == Entry(Told(o), slot')
<1>1. /\ slot' \in {slot, Empty, Own(Current), slot \cup Own(Current)}
      /\ family.loop = "clears" /\ o = "OK" => slot' \in {Empty, Own(Current)}
      /\ family.loop \in {"clears", "appends"}
  BY DEF LeavesAfter, Leaves, Appends, Sticky
<1>2. /\ slot' \in Slots
      /\ \A t \in slot' : /\ t.call = calls /\ t.utterance <= Current
                          /\ t.utterance = Current \/ t.utterance < Current
      /\ slot' \in {Empty, Own(Current)} => \A t \in slot' : t.utterance = Current
  BY <1>1, LeftFact
<1>3. Told(o) \in Statuses
  BY OutcomeFact DEF Told, Statuses
<1>4. /\ e \in Entries /\ e.status = Told(o)
      /\ e.slot = IF Told(o) = "OK" THEN slot' ELSE Empty
  BY <1>2, <1>3, SlotTypes DEF Entry
<1>5. TextsOwn(e, Current)
  <2>1. CASE Told(o) = "OK"
    <3>1. o = "OK" /\ e.slot = slot' /\ e.status = "OK"
      BY <1>4, <2>1 DEF Told
    <3> QED  BY <1>1, <1>2, <3>1 DEF TextsOwn
  <2>2. CASE Told(o) # "OK"
    BY <1>4, <2>2 DEF TextsOwn, Empty
  <2> QED  BY <2>1, <2>2
<1>6. aborted' \in BOOLEAN /\ truncated' \in BOOLEAN
  BY DEF IInv, TypeOK
<1>7. /\ Sticky /\ Truncates /\ HasHook
      /\ e.status = o \/ (Sticky /\ truncated /\ o = "OK" /\ e.status = "TRUNCATED")
  BY <1>1, <1>4 DEF Told, Truncates, HasHook
<1>8. /\ aborted' => HasHook /\ (aborted \/ e.status = "ABORTED")
      /\ truncated' => Truncates /\ (truncated \/ o = "TRUNCATED")
      /\ truncated \/ e.status = "TRUNCATED" => truncated' \/ family.loop = "moss"
  BY <1>7
<1> HIDE DEF e
<1>9. batch' = Append(batch, e) /\ call = "decode"
  BY DEF e
<1> QED  BY <1>2, <1>4, <1>5, <1>6, <1>7, <1>8, <1>9, OutcomeFact, AppendKeeps

LEMMA MossUtteranceKeeps ==
  ASSUME IInv, NEW o \in Outcomes, MossUtterance(o) PROVE IInv'
<1> USE DEF MossUtterance
<1> DEFINE e == [slot |-> slot', status |-> o]
<1>1. slot' \in {Empty, Own(Current)}
  BY DEF Leaves
<1>2. /\ slot' \in Slots
      /\ \A t \in slot' : t.call = calls /\ t.utterance <= Current /\ t.utterance = Current
  <2>1. slot' \in {slot, Empty, Own(Current), slot \cup Own(Current)}
    BY <1>1
  <2> QED  BY <1>1, <2>1, LeftFact
<1>3. e \in Entries /\ e.status = o /\ e.slot = slot'
  BY <1>2, SlotTypes, OutcomeFact
<1>4. TextsOwn(e, Current)
  BY <1>2, <1>3 DEF TextsOwn
<1>5. aborted' \in BOOLEAN /\ truncated' \in BOOLEAN
  BY DEF IInv, TypeOK
<1>6. HasHook /\ Truncates /\ family.loop = "moss"
  BY DEF HasHook, Truncates
<1> HIDE DEF e
<1>7. batch' = Append(batch, e) /\ call = "decode"
  BY DEF e
<1> QED  BY <1>2, <1>3, <1>4, <1>5, <1>6, <1>7, OutcomeFact, AppendKeeps

LEMMA SliceUtteranceKeeps ==
  ASSUME IInv, NEW o \in Outcomes, SliceUtterance(o) PROVE IInv'
<1> USE DEF SliceUtterance
<1> DEFINE e == [slot |-> slot', status |-> o]
<1>1. /\ slot' \in {slot, Empty, Own(Current), slot \cup Own(Current)}
      /\ slot' \in {Empty, Own(Current)} \/ (family.loop = "captures" /\ o = "ABORTED")
  BY DEF Leaves
<1>2. /\ slot' \in Slots
      /\ \A t \in slot' : /\ t.call = calls /\ t.utterance <= Current
                          /\ t.utterance = Current \/ t.utterance < Current
      /\ slot' \in {Empty, Own(Current)} => \A t \in slot' : t.utterance = Current
  BY <1>1, LeftFact
<1>3. e \in Entries /\ e.status = o /\ e.slot = slot'
  BY <1>2, SlotTypes, OutcomeFact
<1>4. TextsOwn(e, Current)
  BY <1>1, <1>2, <1>3 DEF TextsOwn
<1>5. aborted' \in BOOLEAN /\ truncated' \in BOOLEAN
  BY DEF IInv, TypeOK
<1>6. HasHook /\ o # "TRUNCATED" /\ (truncated => Truncates)
  BY OutcomeFact DEF HasHook, Truncates, IInv, FlagsUnderway
<1> HIDE DEF e
<1>7. batch' = Append(batch, e) /\ call = "decode"
  BY DEF e
<1> QED  BY <1>2, <1>3, <1>4, <1>5, <1>6, <1>7, OutcomeFact, AppendKeeps

LEMMA SerialUtteranceKeeps ==
  ASSUME IInv, NEW o \in Outcomes, SerialUtterance(o) PROVE IInv'
<1>1. PICK left \in Leaves(Current, o) :
        LET entries == Append(batch, Entry(o, left))
        IN  \/ /\ o = "ABORTED"
               /\ EndBatch("ABORTED", entries, left)
            \/ /\ o # "ABORTED"
               /\ slot' = left
               /\ batch' = entries
               /\ call' = "poll"
               /\ UNCHANGED answer
  BY DEF SerialUtterance
<1> DEFINE e == Entry(o, left)
<1>2. /\ call = "decode" /\ ~ HasHook /\ outcomes' = Append(outcomes, o)
      /\ aborted' = (o = "ABORTED") /\ truncated' = (o = "TRUNCATED")
      /\ UNCHANGED << inputs, calls, kind, refused, streamVars, family, request >>
  BY DEF SerialUtterance
<1>3. /\ left \in Slots
      /\ \A t \in left : t.call = calls /\ t.utterance <= Current /\ t.utterance = Current
  <2>1. left \in {Empty, Own(Current)}
    BY DEF Leaves
  <2>2. left \in {slot, Empty, Own(Current), slot \cup Own(Current)}
    BY <2>1
  <2> QED  BY <1>2, <2>1, <2>2, LeftFact
<1>4. e \in Entries /\ e.status = o /\ e.slot = IF o = "OK" THEN left ELSE Empty
  BY <1>3, SlotTypes, OutcomeFact DEF Entry
<1>5. TextsOwn(e, Current)
  BY <1>3, <1>4 DEF TextsOwn, Empty
<1>6. ~ aborted /\ ~ truncated /\ o # "TRUNCATED" /\ ~ Sticky
  BY <1>2, OutcomeFact DEF IInv, FlagsUnderway, TypeOK, HasHook, Truncates, Sticky
<1> HIDE DEF e
<1>7. CASE o # "ABORTED"
  <2>1. slot' = left /\ batch' = Append(batch, e) /\ call' = "poll" /\ UNCHANGED answer
    BY <1>1, <1>7 DEF e
  <2>2. ~ aborted' /\ ~ truncated' /\ aborted' \in BOOLEAN /\ truncated' \in BOOLEAN
    BY <1>2, <1>6, <1>7
  <2>3. slot' \in Slots /\ \A t \in slot' : t.call = calls /\ t.utterance <= Current
    BY <1>3, <2>1
  <2> QED  BY <1>2, <1>4, <1>5, <1>6, <2>1, <2>2, <2>3, OutcomeFact, AppendKeeps
<1>8. CASE o = "ABORTED"
  <2> DEFINE es == Append(batch, e)
  <2>1. EndBatch("ABORTED", es, left)
    BY <1>1, <1>8 DEF e
  <2>2. /\ kind = "batch" /\ batch \in Seq(Entries) /\ outcomes \in Seq(Statuses)
        /\ Len(outcomes) = Len(batch) /\ Len(batch) < Len(inputs)
        /\ Len(batch) \in Nat /\ Len(inputs) \in Nat /\ o \in Statuses
    BY <1>2, OutcomeFact DEF IInv, Underway, TypeOK
  <2>3. /\ es \in Seq(Entries) /\ Len(es) = Len(batch) + 1
        /\ DOMAIN es = 1 .. Len(batch) + 1 /\ DOMAIN batch = 1 .. Len(batch)
        /\ \A i \in 1 .. Len(batch) : es[i] = batch[i]
        /\ es[Len(batch) + 1] = e
    BY <1>4, <2>2
  <2>4. /\ outcomes' \in Seq(Statuses) /\ Len(outcomes') = Len(batch) + 1
        /\ \A i \in 1 .. Len(batch) : outcomes'[i] = outcomes[i]
        /\ outcomes'[Len(batch) + 1] = o
    BY <1>2, <2>2
  <2>5. \A i \in DOMAIN es : i \in DOMAIN batch \/ i = Len(batch) + 1
    BY <2>2, <2>3
  <2> HIDE DEF es
  <2>6. StatusesTold(es, outcomes')
    BY <1>2, <1>4, <1>6, <2>2, <2>3, <2>4, <2>5 DEF IInv, Underway, StatusesTold
  <2>7. \A i \in DOMAIN es : TextsOwn(es[i], i)
    BY <1>2, <1>5, <2>2, <2>3, <2>5, UnderwayFact DEF Current
  <2>8. Len(es) <= Len(inputs)
    BY <2>2, <2>3
  <2>9. aborted' = TRUE /\ truncated' = FALSE
    BY <1>2, <1>8
  <2>10. ~ \E i \in DOMAIN es : es[i].status = "TRUNCATED"
    <3>1. \A i \in DOMAIN batch : batch[i].status # "TRUNCATED"
      BY <1>2, <1>6 DEF IInv, FlagsUnderway, HasHook
    <3> QED  BY <1>4, <1>6, <2>2, <2>3, <2>5, <3>1
  <2>11. \A t \in left : t.call = calls
    BY <1>3
  <2> QED  BY <1>2, <1>3, <2>1, <2>3, <2>4, <2>6, <2>7, <2>8, <2>9, <2>10, <2>11,
              EndBatchKeeps
<1> QED  BY <1>7, <1>8

LEMMA FinishBatchKeeps == ASSUME IInv, FinishBatch PROVE IInv'
<1> USE DEF FinishBatch
<1>1. EndBatch("OK", batch, slot) /\ outcomes' = outcomes /\ aborted' = aborted
  OBVIOUS
<1>2. /\ slot \in Slots /\ batch \in Seq(Entries) /\ outcomes' \in Seq(Statuses)
      /\ \A t \in slot : t.call = calls
      /\ \A i \in DOMAIN batch : TextsOwn(batch[i], i)
      /\ Len(outcomes') = Len(batch) /\ Len(batch) <= Len(inputs)
      /\ StatusesTold(batch, outcomes')
  BY <1>1, UnderwayFact
<1>3. aborted' \in BOOLEAN /\ truncated' \in BOOLEAN
  BY DEF IInv, TypeOK
<1>4. aborted' => HasHook /\ \E i \in DOMAIN batch : batch[i].status = "ABORTED"
  BY DEF IInv, FlagsUnderway
<1>5. /\ truncated' => Truncation(batch, outcomes')
      /\ (\E i \in DOMAIN batch : batch[i].status = "TRUNCATED") => truncated'
  <2>1. CASE family.loop = "moss"
    <3>1. truncated' = (\E i \in DOMAIN batch : batch[i].status = "TRUNCATED")
      BY <2>1
    <3>2. \A i \in DOMAIN batch : batch[i].status = outcomes'[i]
      BY <1>2, <2>1 DEF StatusesTold, Sticky
    <3> QED  BY <3>1, <3>2 DEF Truncation
  <2>2. CASE family.loop # "moss"
    BY <2>2 DEF IInv, FlagsUnderway, Truncation
  <2> QED  BY <2>1, <2>2
<1> QED  BY <1>1, <1>2, <1>3, <1>4, <1>5, EndBatchKeeps

LEMMA GraphBatchKeeps ==
  ASSUME IInv, NEW ends \in [DOMAIN inputs -> {"OK", "ERR", "TRUNCATED", "INVALID"}],
         GraphBatch(ends)
  PROVE  IInv'
<1> USE DEF IInv
<1> DEFINE e(i) == [slot |-> IF ends[i] \in {"OK", "TRUNCATED"} THEN Own(i) ELSE Empty,
                    status |-> ends[i]]
           es == [i \in DOMAIN ends |-> e(i)]
<1>1. /\ kind = "batch" /\ batch = << >> /\ call = "poll" /\ outcomes' = ends
      /\ inputs \in Seq(BOOLEAN) /\ Len(inputs) \in Nat /\ Len(inputs) <= MaxUtterances
      /\ DOMAIN ends = 1 .. Len(inputs) /\ DOMAIN inputs = 1 .. Len(inputs)
      /\ calls \in 1 .. MaxCalls
      /\ EndBatch("OK", es, slot)
      /\ slot \in Slots /\ (\A t \in slot : t.call = calls)
      /\ aborted' = aborted
      /\ truncated' = (\E i \in DOMAIN ends : ends[i] = "TRUNCATED")
      /\ UNCHANGED << inputs, calls, kind, refused, streamVars, family, request >>
  BY SessionAssumption DEF GraphBatch, Underway, TypeOK, OfThisCall
<1>2. ends \in Seq(Statuses) /\ Len(ends) = Len(inputs)
  <2>1. ends \in [1 .. Len(inputs) -> Statuses]
    BY <1>1 DEF Statuses
  <2> QED  BY <1>1, <2>1, SeqDef
<1>3. \A i \in 1 .. Len(inputs) :
        e(i) \in Entries /\ e(i).status = ends[i] /\ TextsOwn(e(i), i)
  <2> SUFFICES ASSUME NEW i \in 1 .. Len(inputs)
               PROVE  e(i) \in Entries /\ e(i).status = ends[i] /\ TextsOwn(e(i), i)
    OBVIOUS
  <2>1. i \in 1 .. MaxUtterances
    BY <1>1, SessionAssumption
  <2>2. ends[i] \in Statuses
    BY <1>1 DEF Statuses
  <2> DEFINE sl == IF ends[i] \in {"OK", "TRUNCATED"} THEN Own(i) ELSE Empty
  <2>3. sl \in Slots /\ \A t \in sl : t.call = calls /\ t.utterance = i
    BY <1>1, <2>1, SlotTypes DEF Empty
  <2> HIDE DEF sl
  <2>4. e(i) = [slot |-> sl, status |-> ends[i]]
    BY DEF sl
  <2>5. e(i) \in Entries /\ e(i).slot = sl /\ e(i).status = ends[i]
    BY <2>2, <2>3, <2>4, SlotTypes
  <2> QED  BY <2>3, <2>5 DEF TextsOwn
<1> HIDE DEF e
<1>4. es \in Seq(Entries) /\ Len(es) = Len(inputs) /\ \A i \in 1 .. Len(inputs) : es[i] = e(i)
  <2>1. es \in [1 .. Len(inputs) -> Entries]
    BY <1>1, <1>3
  <2> QED  BY <1>1, <2>1, SeqDef
<1>5. DOMAIN es = 1 .. Len(inputs)
  BY <1>1
<1> HIDE DEF es
<1>6. /\ StatusesTold(es, outcomes')
      /\ \A i \in DOMAIN es : TextsOwn(es[i], i)
      /\ truncated' => Truncation(es, outcomes')
      /\ (\E i \in DOMAIN es : es[i].status = "TRUNCATED") => truncated'
  <2>1. \A i \in DOMAIN es : es[i] = e(i) /\ i \in 1 .. Len(inputs)
    BY <1>4, <1>5
  <2>2. \A i \in DOMAIN es : es[i].status = ends[i]
    BY <1>3, <2>1
  <2>3. \A i \in DOMAIN es : TextsOwn(es[i], i)
    BY <1>3, <2>1
  <2>4. DOMAIN es = DOMAIN ends
    BY <1>1, <1>5
  <2> QED  BY <1>1, <2>2, <2>3, <2>4 DEF StatusesTold, Truncation
<1>7. ~ aborted' /\ aborted' \in BOOLEAN /\ truncated' \in BOOLEAN
  <2>1. DOMAIN << >> = {}
    OBVIOUS
  <2> QED  BY <1>1, <2>1 DEF FlagsUnderway, TypeOK
<1>8. Len(es) <= Len(inputs)
  BY <1>1, <1>4
<1> QED  BY <1>1, <1>2, <1>4, <1>6, <1>7, <1>8, EndBatchKeeps

LEMMA GraphFailsKeeps == ASSUME IInv, GraphFails PROVE IInv'
<1> USE DEF GraphFails
<1>1. EndBatch("ERR", << >>, slot) /\ call = "poll" /\ batch = << >>
  OBVIOUS
<1>2. << >> \in Seq(Entries) /\ Len(<< >>) = 0 /\ DOMAIN << >> = {}
  OBVIOUS
<1>3. Len(outcomes') = 0 /\ 0 <= Len(inputs) /\ outcomes' \in Seq(Statuses)
  BY <1>2 DEF IInv, Underway, TypeOK
<1>4. /\ slot \in Slots /\ (\A t \in slot : t.call = calls)
      /\ aborted' \in BOOLEAN /\ truncated' \in BOOLEAN
  BY DEF IInv, TypeOK, OfThisCall
<1>5. ~ aborted' /\ ~ truncated'
  BY <1>2 DEF IInv, FlagsUnderway, TypeOK, Truncation
<1>6. StatusesTold(<< >>, outcomes') /\ \A i \in DOMAIN << >> : TextsOwn(<< >>[i], i)
  BY <1>2 DEF StatusesTold
<1> QED  BY <1>1, <1>2, <1>3, <1>4, <1>5, <1>6, EndBatchKeeps

LEMMA ThrowsKeeps == ASSUME IInv, Throws PROVE IInv'
<1> USE DEF IInv, Throws, streamVars
<1>1. calls \in 1 .. MaxCalls
  BY SessionAssumption DEF Underway, OfThisCall, TypeOK
<1>2. call # "poll" => Current \in 1 .. MaxUtterances
  <2>1. CASE call = "decode"
    BY <2>1, CurrentFact
  <2>2. CASE call = "run"
    <3>1. batch = << >> /\ Len(<< >>) = 0
      BY <2>2 DEF Underway, OfThisCall
    <3> QED  BY <3>1, SessionAssumption DEF Current
  <2> QED  BY <2>1, <2>2 DEF TypeOK
<1>3. slot' \in Slots /\ \A t \in slot' : t.call = calls
  <2>1. slot' \in {slot, Empty} \/ (call # "poll" /\ slot' \in {Own(Current), slot \cup Own(Current)})
    OBVIOUS
  <2>2. slot \in Slots /\ Empty \in Slots /\ \A t \in slot : t.call = calls
    BY SlotTypes DEF TypeOK, OfThisCall
  <2>3. CASE slot' \in {slot, Empty}
    BY <2>2, <2>3 DEF Empty
  <2>4. CASE call # "poll" /\ slot' \in {Own(Current), slot \cup Own(Current)}
    <3>1. Own(Current) \in Slots /\ \A t \in Own(Current) : t.call = calls
      BY <1>1, <1>2, <2>4, SlotTypes
    <3> QED  BY <2>2, <2>4, <3>1 DEF Slots
  <2> QED  BY <2>1, <2>3, <2>4
<1>4. TypeOK'
  BY <1>3 DEF TypeOK, Answers
<1>5. Underway' /\ OfThisCall' /\ StreamAlone' /\ FlagsUnderway'
  BY <1>3 DEF Underway, OfThisCall, StreamAlone, FlagsUnderway
<1>6. BatchAnswersAll' /\ EntryIsOwn' /\ ShowsFirst' /\ AbortTold' /\ TruncationTold'
  BY DEF BatchAnswersAll, BatchReturned, EntryIsOwn, ShowsFirst, AbortTold, TruncationTold
<1> QED  BY <1>4, <1>5, <1>6

-----------------------------------------------------------------------------
(* Streams.                                                                *)

LEMMA StreamCallKeeps ==
  ASSUME IInv, NEW hook \in {"OK", "ERR", "ABORTED", "THROWN"}, NEW final \in BOOLEAN,
         StreamCall(hook, final)
  PROVE  IInv'
<1> USE DEF IInv, StreamCall
<1>1. kind = "stream" /\ stream = "ACTIVE" /\ call = "none" /\ ~ aborted
  BY DEF StreamAlone
<1>2. calls \in 1 .. MaxCalls /\ 1 \in 1 .. MaxUtterances
  BY <1>1, SessionAssumption DEF OfThisCall, TypeOK
<1>3. slot' \in Slots /\ \A t \in slot' : t.call = calls
  <2>1. slot' \in {slot, Empty, Own(1)}
    OBVIOUS
  <2> QED  BY <1>2, <2>1, SlotTypes DEF TypeOK, OfThisCall, Empty
<1>4. TypeOK'
  BY <1>3 DEF TypeOK, Answers, Statuses, States
<1>5. Underway' /\ OfThisCall' /\ FlagsUnderway'
  BY <1>1, <1>3 DEF Underway, OfThisCall, FlagsUnderway
<1>6. StreamAlone'
  <2>1. CASE hook = "ABORTED"
    BY <1>1, <2>1 DEF StreamAlone
  <2>2. CASE hook # "ABORTED"
    BY <1>1, <2>2 DEF StreamAlone
  <2> QED  BY <2>1, <2>2
<1>7. BatchAnswersAll' /\ EntryIsOwn' /\ ShowsFirst' /\ TruncationTold'
  BY <1>1 DEF BatchAnswersAll, BatchReturned, EntryIsOwn, ShowsFirst, TruncationTold
<1>8. AbortTold'
  BY <1>1 DEF AbortTold
<1> QED  BY <1>4, <1>5, <1>6, <1>7, <1>8

LEMMA ResetKeeps == ASSUME IInv, Reset PROVE IInv'
<1> USE DEF IInv, Reset
<1>1. TypeOK'
  <2>1. << >> \in Seq(BOOLEAN) /\ << >> \in Seq(Statuses) /\ Len(<< >>) = 0
    OBVIOUS
  <2>2. 0 <= MaxUtterances
    BY SessionAssumption
  <2> QED  BY <2>1, <2>2, SlotTypes DEF TypeOK, Kinds, States, Statuses, Answers
<1>2. Underway' /\ OfThisCall' /\ StreamAlone' /\ FlagsUnderway'
  BY DEF Underway, OfThisCall, StreamAlone, FlagsUnderway, Empty
<1>3. BatchAnswersAll' /\ EntryIsOwn' /\ ShowsFirst' /\ AbortTold' /\ TruncationTold'
  BY DEF BatchAnswersAll, BatchReturned, EntryIsOwn, ShowsFirst, AbortTold, TruncationTold
<1> QED  BY <1>1, <1>2, <1>3

-----------------------------------------------------------------------------
(* Every step, and the theorems.                                           *)

LEMMA StartKeeps ==
  ASSUME IInv,
         \/ StartRun
         \/ \E n \in 1 .. MaxUtterances : \E us \in [1 .. n -> BOOLEAN] : StartBatch(us)
         \/ \E hook \in {"OK", "ERR", "THROWN"} : BeginStream(hook)
  PROVE  IInv'
<1>1. CASE StartRun
  <2>1. << TRUE >> \in Seq(BOOLEAN) /\ Len(<< TRUE >>) = 1 /\ 1 <= MaxUtterances
    BY SessionAssumption
  <2>2. stream' \in States /\ lastStatus' \in Statuses /\ answer' \in Answers
    BY <1>1 DEF StartRun, States, Statuses, IInv, TypeOK
  <2> QED  BY <1>1, <2>1, <2>2, AcceptKeeps DEF StartRun
<1>2. CASE \E n \in 1 .. MaxUtterances : \E us \in [1 .. n -> BOOLEAN] : StartBatch(us)
  <2>1. PICK n \in 1 .. MaxUtterances : \E us \in [1 .. n -> BOOLEAN] : StartBatch(us)
    BY <1>2
  <2>2. PICK us \in [1 .. n -> BOOLEAN] : StartBatch(us)
    BY <2>1
  <2>3. n \in Nat /\ n > 0 /\ n <= MaxUtterances
    BY SessionAssumption
  <2>4. us \in Seq(BOOLEAN) /\ Len(us) = n
    BY <2>3, SeqDef
  <2>5. stream' \in States /\ lastStatus' \in Statuses /\ answer' \in Answers
    BY <2>2 DEF StartBatch, States, Statuses, IInv, TypeOK
  <2>6. Len(us) > 0 /\ Len(us) <= MaxUtterances
    BY <2>3, <2>4
  <2> QED  BY <2>2, <2>4, <2>5, <2>6, AcceptKeeps DEF StartBatch
<1>3. CASE \E hook \in {"OK", "ERR", "THROWN"} : BeginStream(hook)
  <2>1. PICK hook \in {"OK", "ERR", "THROWN"} : BeginStream(hook)
    BY <1>3
  <2>2. << >> \in Seq(BOOLEAN) /\ Len(<< >>) = 0 /\ 0 <= MaxUtterances
    BY SessionAssumption
  <2>3. /\ stream' \in States /\ lastStatus' \in Statuses /\ answer' \in Answers
        /\ answer' # "ABORTED" /\ call' = "none" /\ batch' = batch
    BY <2>1 DEF BeginStream, Accept, States, Statuses, Answers
  <2> QED  BY <2>1, <2>2, <2>3, AcceptKeeps DEF BeginStream
<1> QED  BY <1>1, <1>2, <1>3

LEMMA StepKeeps == ASSUME IInv, Step PROVE IInv'
BY EndRunKeeps, PollKeeps, MalformedUtteranceKeeps, SerialUtteranceKeeps,
   FamilyUtteranceKeeps, MossUtteranceKeeps, SliceUtteranceKeeps, FinishBatchKeeps, GraphBatchKeeps,
   GraphFailsKeeps, ThrowsKeeps DEF Step

LEMMA NextKeepsIInv == IInv /\ [Next]_sessionVars => IInv'
<1> SUFFICES ASSUME IInv, [Next]_sessionVars PROVE IInv'
  OBVIOUS
<1>1. request \in BOOLEAN /\ refused \in BOOLEAN
  BY DEF IInv, TypeOK
<1>2. CASE UNCHANGED sessionVars
  BY <1>1, <1>2, QuietKeeps DEF sessionVars, callVars
<1>3. CASE Refuse
  BY <1>1, <1>3, QuietKeeps DEF Refuse
<1>4. CASE RefuseRun
  BY <1>4, RefuseRunKeeps
<1>5. CASE \/ StartRun
           \/ \E n \in 1 .. MaxUtterances : \E us \in [1 .. n -> BOOLEAN] : StartBatch(us)
           \/ \E hook \in {"OK", "ERR", "THROWN"} : BeginStream(hook)
  BY <1>5, StartKeeps
<1>6. CASE Step
  BY <1>6, StepKeeps
<1>7. CASE \E hook \in {"OK", "ERR", "ABORTED", "THROWN"}, final \in BOOLEAN :
              StreamCall(hook, final)
  BY <1>7, StreamCallKeeps
<1>8. CASE Reset
  BY <1>8, ResetKeeps
<1>9. CASE Raise \/ Lower
  BY <1>1, <1>9, QuietKeeps DEF Raise, Lower, callVars
<1> QED  BY <1>2, <1>3, <1>4, <1>5, <1>6, <1>7, <1>8, <1>9 DEF Next

LEMMA Invariance == Spec => []IInv
BY InitIInv, NextKeepsIInv, PTL DEF Spec

\* Every variable has its type, whatever the number of utterances and of calls.
THEOREM TypeCorrect == Spec => []TypeOK
<1>1. IInv => TypeOK
  BY DEF IInv
<1> QED  BY <1>1, Invariance, PTL

\* A batch that returns has one entry per utterance, whichever of the loops ran it and
\* wherever it was aborted, with the status that its decode had; only where nothing
\* lowers was_truncated is a whole utterance told TRUNCATED, after one that was.
THEOREM EveryUtteranceAnswered == Spec => []BatchAnswersAll
<1>1. IInv => BatchAnswersAll
  BY DEF IInv
<1> QED  BY <1>1, Invariance, PTL

\* No entry of a batch ever shows the text of an earlier call or a later utterance, and
\* that of an earlier one only where run appends to the slot, or where an aborted one
\* is captured before run has cleared it.
THEOREM EntriesAreOwn == Spec => []EntryIsOwn
<1>1. IInv => EntryIsOwn
  BY DEF IInv
<1> QED  BY <1>1, Invariance, PTL

\* The single-result accessors never show the text of an earlier call.
THEOREM ResultsAreFresh == Spec => []SlotIsFresh
<1>1. IInv => SlotIsFresh
  BY DEF IInv, SlotIsFresh, OfThisCall, ShowsFirst
<1> QED  BY <1>1, Invariance, PTL

\* An abort shows in the answer, in an entry or in a failed stream, and an answer
\* ABORTED is never given without one.
THEOREM AbortsAreTold == Spec => []AbortTold
<1>1. IInv => AbortTold
  BY DEF IInv
<1> QED  BY <1>1, Invariance, PTL

\* was_truncated says that the run was truncated, or that an utterance of the batch
\* was, which its entry says too; a truncated entry without the flag is left only by an
\* aborted batch of moss.
THEOREM TruncationsAreTold == Spec => []TruncationTold
<1>1. IInv => TruncationTold
  BY DEF IInv
<1> QED  BY <1>1, Invariance, PTL

=============================================================================
