-------------------------- MODULE StreamTextProofs --------------------------
(***************************************************************************)
(* Proofs about StreamText, for every set of bytes, every agreement and    *)
(* every family.                                                           *)
(***************************************************************************)
EXTENDS StreamText, WellFoundedInduction, TLAPS

-----------------------------------------------------------------------------
(* Largest and smallest elements, which CHOOSE finds because they exist.   *)

LEMMA LeastExists ==
  ASSUME NEW T, T \subseteq Nat, T # {}
  PROVE  \E x \in T : \A y \in T : x <= y
<1>1. \E x \in T : \A y \in T : ~ (<<y, x>> \in OpToRel(<, Nat))
  BY NatLessThanWellFounded, WFMin
<1>2. \A x \in T, y \in T : ~ (<<y, x>> \in OpToRel(<, Nat)) => x <= y
  BY DEF OpToRel
<1> QED  BY <1>1, <1>2

LEMMA MinFact ==
  ASSUME NEW S, S \subseteq Nat, S # {}
  PROVE  /\ Min(S) \in S
         /\ \A y \in S : Min(S) <= y
<1>1. \E x \in S : \A y \in S : x =< y
  BY LeastExists
<1> QED  BY <1>1 DEF Min

LEMMA MaxFact ==
  ASSUME NEW n \in Nat, NEW S, S \subseteq 0 .. n, S # {}
  PROVE  /\ Max(S) \in S
         /\ \A y \in S : Max(S) >= y
<1> DEFINE T == {n - x : x \in S}
<1>1. T \subseteq Nat
  <2>1. \A x \in S : x \in 0 .. n /\ n - x \in Nat
    OBVIOUS
  <2> QED  BY <2>1
<1>a. T # {}
  <2>1. PICK x \in S : TRUE
    OBVIOUS
  <2>2. n - x \in T
    BY <2>1
  <2> QED  BY <2>2
<1>2. PICK t \in T : \A u \in T : t <= u
  BY <1>1, <1>a, LeastExists
<1>3. PICK x \in S : t = n - x
  OBVIOUS
<1>4. \A y \in S : x >= y
  <2> TAKE y \in S
  <2>1. t <= n - y
    BY <1>2
  <2> QED  BY <2>1, <1>3
<1> QED  BY <1>4 DEF Max

-----------------------------------------------------------------------------
(* Byte strings.                                                           *)

\* Utf8Floor answers a boundary of s, the end when pos is past it, and else no
\* later one than pos.
LEMMA FloorFact ==
  ASSUME NEW s \in Text, NEW pos \in Nat
  PROVE  /\ Utf8Floor(s, pos) \in 0 .. Len(s)
         /\ pos <= Len(s) => Utf8Floor(s, pos) <= pos
<1>1. CASE pos >= Len(s)
  BY <1>1 DEF Utf8Floor, Text
<1>2. CASE pos < Len(s)
  <2> DEFINE S == {p \in 0 .. pos : p = 0 \/ s[p + 1] \notin Cont}
  <2>1. S \subseteq 0 .. pos /\ S # {}
    <3>1. 0 \in S
      OBVIOUS
    <3> QED  BY <3>1
  <2>2. Max(S) \in S
    BY <2>1, MaxFact
  <2>3. Max(S) \in 0 .. pos
    BY <2>2
  <2>4. Utf8Floor(s, pos) = Max(S)
    BY <1>2 DEF Utf8Floor, Text
  <2> QED  BY <2>3, <2>4, <1>2 DEF Text
<1> QED  BY <1>1, <1>2 DEF Text

\* Two texts have the same bytes up to their CommonPrefix.
LEMMA CommonFact ==
  ASSUME NEW a \in Text, NEW b \in Text
  PROVE  /\ CommonPrefix(a, b) \in 0 .. Len(a)
         /\ CommonPrefix(a, b) <= Len(b)
         /\ \A j \in 1 .. CommonPrefix(a, b) : a[j] = b[j]
<1> DEFINE least == Least(Len(a), Len(b))
           S == {i \in 0 .. least : \A j \in 1 .. i : a[j] = b[j]}
<1>1. least \in Nat /\ least <= Len(a) /\ least <= Len(b)
  BY DEF Least, Text
<1>2. S \subseteq 0 .. least /\ S # {}
  <2>1. 0 \in S
    BY <1>1
  <2> QED  BY <2>1
<1>3. Max(S) \in S
  BY <1>1, <1>2, MaxFact
<1>4. CommonPrefix(a, b) = Utf8Floor(a, Max(S))
  BY DEF CommonPrefix
<1> HIDE DEF S
<1>5. Max(S) \in 0 .. least /\ \A j \in 1 .. Max(S) : a[j] = b[j]
  BY <1>3 DEF S
<1>6. CommonPrefix(a, b) \in 0 .. Len(a) /\ CommonPrefix(a, b) <= Max(S)
  <2>1. Max(S) \in Nat /\ Max(S) <= Len(a)
    BY <1>5, <1>1
  <2> QED  BY <1>4, <2>1, FloorFact
<1> QED  BY <1>1, <1>5, <1>6

\* AgreedPrefix answers bytes that all texts share with the first.
LEMMA AgreedFact ==
  ASSUME NEW texts \in Seq(Text), Len(texts) > 0
  PROVE  /\ AgreedPrefix(texts) \in 0 .. Len(texts[1])
         /\ \A i \in 1 .. Len(texts) :
              /\ AgreedPrefix(texts) <= Len(texts[i])
              /\ \A j \in 1 .. AgreedPrefix(texts) : texts[1][j] = texts[i][j]
<1> DEFINE common == {CommonPrefix(texts[1], texts[i]) : i \in DOMAIN texts}
           S == {Len(texts[1])} \cup common
<1>1. texts[1] \in Text /\ Len(texts[1]) \in Nat
  BY DEF Text
<1>2. \A i \in DOMAIN texts : texts[i] \in Text
  OBVIOUS
<1>3. \A i \in DOMAIN texts : CommonPrefix(texts[1], texts[i]) \in 0 .. Len(texts[1])
  BY <1>1, <1>2, CommonFact
<1>4. S \subseteq Nat /\ S # {}
  BY <1>1, <1>3
<1>5. /\ Min(S) \in S
      /\ \A y \in S : Min(S) <= y
  BY <1>4, MinFact
<1>6. AgreedPrefix(texts) = Min(S)
  BY DEF AgreedPrefix
<1>7. Min(S) \in Nat /\ Min(S) <= Len(texts[1])
  BY <1>4, <1>5
<1>8. ASSUME NEW i \in 1 .. Len(texts)
      PROVE  /\ Min(S) <= Len(texts[i])
             /\ \A j \in 1 .. Min(S) : texts[1][j] = texts[i][j]
  <2> DEFINE c == CommonPrefix(texts[1], texts[i])
  <2>1. i \in DOMAIN texts
    OBVIOUS
  <2>2. Min(S) <= c
    BY <1>5, <2>1
  <2>3. /\ c \in Nat
        /\ c <= Len(texts[i])
        /\ \A j \in 1 .. c : texts[1][j] = texts[i][j]
    BY <1>1, <1>2, <2>1, CommonFact
  <2>4. Len(texts[i]) \in Nat
    BY <1>2, <2>1 DEF Text
  <2> HIDE DEF c, S
  <2> QED  BY <2>2, <2>3, <2>4, <1>7
<1> HIDE DEF S
<1> QED  BY <1>1, <1>6, <1>7, <1>8

LEMMA FromFact ==
  ASSUME NEW s \in Text, NEW pos \in 0 .. Len(s)
  PROVE  From(s, pos) \in Text
BY DEF From, Text

LEMMA SliceFact ==
  ASSUME NEW s \in Text, NEW lo \in 0 .. Len(s), NEW hi \in 0 .. Len(s), lo <= hi
  PROVE  /\ SubSeq(s, lo + 1, hi) \in Text
         /\ Len(SubSeq(s, lo + 1, hi)) = hi - lo
         /\ \A j \in 1 .. hi - lo : SubSeq(s, lo + 1, hi)[j] = s[lo + j]
BY DEF Text

\* IsPrefix, byte by byte.
LEMMA PrefixFact ==
  ASSUME NEW a \in Text, NEW b \in Text
  PROVE  IsPrefix(a, b) <=> /\ Len(a) <= Len(b)
                            /\ \A j \in 1 .. Len(a) : a[j] = b[j]
BY DEF IsPrefix, Text

LEMMA PrefixOfConcat ==
  ASSUME NEW a \in Text, NEW b \in Text
  PROVE  IsPrefix(a, a \o b)
BY DEF IsPrefix, Text

\* A prefix and what follows it make the whole.
LEMMA JoinFact ==
  ASSUME NEW a \in Text, NEW s \in Text, IsPrefix(a, s)
  PROVE  a \o From(s, Len(a)) = s
<1> DEFINE rest == From(s, Len(a))
<1>1. Len(a) \in Nat /\ Len(s) \in Nat /\ a \in Seq(Byte) /\ s \in Seq(Byte)
  BY DEF Text
<1>2. Len(a) <= Len(s) /\ \A j \in 1 .. Len(a) : a[j] = s[j]
  BY PrefixFact
<1>3. rest = SubSeq(s, Len(a) + 1, Len(s))
  BY DEF From
<1>4. Len(a) \in 0 .. Len(s) /\ Len(s) \in 0 .. Len(s)
  BY <1>1, <1>2
<1> HIDE DEF rest
<1>5. /\ rest \in Seq(Byte)
      /\ Len(rest) = Len(s) - Len(a)
      /\ \A j \in 1 .. Len(s) - Len(a) : rest[j] = s[Len(a) + j]
  BY <1>2, <1>3, <1>4, SliceFact DEF Text
<1>6. /\ a \o rest \in Seq(Byte)
      /\ Len(a \o rest) = Len(s)
  BY <1>1, <1>5
<1>7. ASSUME NEW j \in 1 .. Len(s) PROVE (a \o rest)[j] = s[j]
  <2>1. CASE j <= Len(a)
    <3>1. j \in 1 .. Len(a)
      BY <1>1, <2>1
    <3>2. (a \o rest)[j] = a[j]
      BY <1>1, <1>5, <3>1
    <3> QED  BY <1>2, <3>1, <3>2
  <2>2. CASE j > Len(a)
    <3>1. /\ j - Len(a) \in 1 .. Len(s) - Len(a)
          /\ j \in Len(a) + 1 .. Len(a) + Len(rest)
          /\ Len(a) + (j - Len(a)) = j
      BY <1>1, <1>5, <2>2
    <3>2. (a \o rest)[j] = rest[j - Len(a)]
      BY <1>1, <1>5, <3>1
    <3> QED  BY <1>5, <3>1, <3>2
  <2>3. j <= Len(a) \/ j > Len(a)
    BY <1>1
  <2> QED  BY <2>1, <2>2, <2>3
<1>8. ASSUME NEW t \in Seq(Byte), Len(t) = Len(s), \A j \in 1 .. Len(s) : t[j] = s[j]
      PROVE  t = s
  BY <1>1, <1>8
<1>9. a \o rest = s
  BY <1>6, <1>7, <1>8
<1> QED  BY <1>9 DEF rest

\* Window answers the n newest elements, of which x is the last.
LEMMA WindowFact ==
  ASSUME NEW S, NEW h \in Seq(S), NEW x \in S, NEW n \in Nat \ {0}
  PROVE  /\ Window(h, x, n) \in Seq(S)
         /\ Len(Window(h, x, n)) <= n
         /\ Len(Window(h, x, n)) > 0
         /\ Window(h, x, n)[Len(Window(h, x, n))] = x
<1> DEFINE all == Append(h, x)
<1>1. /\ all \in Seq(S)
      /\ Len(all) = Len(h) + 1
      /\ all[Len(all)] = x
  OBVIOUS
<1>2. CASE Len(h) + 1 > n
  <2> DEFINE lo == Len(h) + 2 - n
             hi == Len(h) + 1
  <2>1. lo \in 1 .. Len(all) /\ hi = Len(all) /\ hi - lo + 1 = n
    BY <1>1, <1>2
  <2>2. Window(h, x, n) = SubSeq(all, lo, hi)
    BY <1>2 DEF Window
  <2> HIDE DEF all, lo, hi
  <2>3. /\ SubSeq(all, lo, hi) \in Seq(S)
        /\ Len(SubSeq(all, lo, hi)) = n
    BY <1>1, <2>1
  <2>4. SubSeq(all, lo, hi)[n] = all[hi]
    BY <1>1, <2>1
  <2> QED  BY <1>1, <2>1, <2>2, <2>3, <2>4
<1>3. CASE Len(h) + 1 <= n
  <2>1. ~ (Len(h) + 1 > n)
    BY <1>3
  <2>2. Window(h, x, n) = all
    BY <2>1 DEF Window
  <2> HIDE DEF all
  <2> QED  BY <1>1, <1>3, <2>2
<1> QED  BY <1>2, <1>3

-----------------------------------------------------------------------------
(* The commit policy.                                                      *)

LEMMA EffectiveFact == agreementN \in Nat => EffectiveN(agreementN) \in Nat \ {0}
BY DEF EffectiveN

LEMMA HistoryFact ==
  ASSUME TypeOK, NEW r \in Result
  PROVE  /\ HistoryAfter(r) \in Seq(Text)
         /\ Len(HistoryAfter(r)) <= EffectiveN(agreementN)
         /\ UsesTextHistory(r) =>
              /\ Len(HistoryAfter(r)) > 0
              /\ HistoryAfter(r)[Len(HistoryAfter(r))] = r.text
<1>1. agreementN \in Nat
  BY StreamTextAssumption DEF TypeOK
<1>2. r.text \in Text /\ history \in Seq(Text)
  BY DEF TypeOK, Result
<1>3. EffectiveN(agreementN) \in Nat \ {0}
  BY <1>1, EffectiveFact
<1> QED  BY <1>2, <1>3, WindowFact DEF HistoryAfter, TypeOK

LEMMA CandidateFact ==
  ASSUME TypeOK, NEW r \in Result, NEW stable \in Nat
  PROVE  Candidate(r, stable) \in Nat
<1>1. r.text \in Text /\ Len(r.text) \in Nat
  BY DEF Result, Text
<1>2. ASSUME UsesTextHistory(r)
      PROVE  Utf8Floor(r.text, AgreedPrefix(HistoryAfter(r))) \in Nat
  <2>1. HistoryAfter(r) \in Seq(Text) /\ Len(HistoryAfter(r)) > 0
    BY <1>2, HistoryFact
  <2>2. AgreedPrefix(HistoryAfter(r)) \in 0 .. Len(HistoryAfter(r)[1])
    BY <2>1, AgreedFact
  <2>3. AgreedPrefix(HistoryAfter(r)) \in Nat
    BY <2>1, <2>2 DEF Text
  <2> QED  BY <1>1, <2>3, FloorFact
<1>3. FamilyPrefix \in BOOLEAN
  BY DEF FamilyPrefix
<1>4. CASE policy = "ON_FINALIZE"
  BY <1>4 DEF Candidate
<1>5. CASE policy # "ON_FINALIZE" /\ FamilyPrefix
  BY <1>5 DEF Candidate
<1>6. CASE policy # "ON_FINALIZE" /\ ~ FamilyPrefix
  <2>1. Candidate(r, stable) =
          IF ~ UsesTextHistory(r) THEN Len(r.text)
          ELSE IF Len(HistoryAfter(r)) < EffectiveN(agreementN) THEN 0
          ELSE Utf8Floor(r.text, AgreedPrefix(HistoryAfter(r)))
    BY <1>6 DEF Candidate
  <2> QED  BY <2>1, <1>1, <1>2
<1> QED  BY <1>3, <1>4, <1>5, <1>6

\* What a feed does to the view, whatever the candidate. The committed text is
\* extended, if at all, to a prefix of the hypothesis no longer than the candidate.
LEMMA FeedViewFact ==
  ASSUME view \in View, NEW r \in Result, NEW c \in Nat
  PROVE  LET v == FeedView(r, c)
         IN  /\ v \in View
             /\ IsPrefix(view.committed, v.committed)
             /\ view.start = Len(view.committed) => v.start = Len(v.committed)
             /\ v.tentative = From(r.text, Utf8Floor(r.text, Least(v.start, Len(r.text))))
             /\ v.committed # view.committed =>
                  IsPrefix(v.committed, r.text) /\ Len(v.committed) <= c
             /\ c = 0 => v.committed = view.committed
<1> DEFINE text  == r.text
           comm  == view.committed
           old   == Utf8Floor(text, Least(view.start, Len(text)))
           new   == Utf8Floor(text, Least(c, Len(text)))
           grows == new > old /\ old = Len(comm) /\ IsPrefix(comm, text)
           more  == SubSeq(text, old + 1, new)
           v     == FeedView(r, c)
<1>1. /\ text \in Text /\ Len(text) \in Nat
      /\ comm \in Text /\ Len(comm) \in Nat
      /\ view.start \in Nat
  BY DEF View, Result, Text
<1>2. /\ Least(view.start, Len(text)) \in Nat
      /\ Least(c, Len(text)) \in Nat
      /\ Least(c, Len(text)) <= c
      /\ Least(c, Len(text)) <= Len(text)
  BY <1>1 DEF Least
<1>3. old \in 0 .. Len(text)
  BY <1>1, <1>2, FloorFact
<1>4. new \in 0 .. Len(text) /\ new <= c
  <2>1. new \in 0 .. Len(text) /\ new <= Least(c, Len(text))
    BY <1>1, <1>2, FloorFact
  <2> HIDE DEF text, new
  <2> QED  BY <2>1, <1>2
<1>5. v = [committed |-> IF grows THEN comm \o more ELSE comm,
           tentative |-> From(text, Utf8Floor(text, Least(IF grows THEN new
                                                          ELSE view.start, Len(text)))),
           start     |-> IF grows THEN new ELSE view.start]
  BY DEF FeedView
<1> HIDE DEF old, new, v
<1>6. /\ v.committed = IF grows THEN comm \o more ELSE comm
      /\ v.start = IF grows THEN new ELSE view.start
      /\ v.tentative = From(text, Utf8Floor(text, Least(v.start, Len(text))))
  BY <1>5
<1>7. v.start \in Nat
  BY <1>1, <1>4, <1>6
<1>8. v.tentative \in Text
  <2>1. Least(v.start, Len(text)) \in Nat
    BY <1>1, <1>7 DEF Least
  <2>2. Utf8Floor(text, Least(v.start, Len(text))) \in 0 .. Len(text)
    BY <1>1, <2>1, FloorFact
  <2> QED  BY <1>1, <1>6, <2>2, FromFact
<1>9. ASSUME grows
      PROVE  /\ comm \o more \in Text
             /\ Len(comm \o more) = new
             /\ IsPrefix(comm, comm \o more)
             /\ IsPrefix(comm \o more, text)
  <2>1. /\ more \in Text
        /\ Len(more) = new - old
        /\ \A j \in 1 .. new - old : more[j] = text[old + j]
    <3>1. old <= new
      BY <1>3, <1>4, <1>9
    <3> HIDE DEF text, grows
    <3> QED  BY <1>1, <1>3, <1>4, <3>1, SliceFact
  <2> HIDE DEF text, comm, more
  <2>2. comm \o more \in Text
    BY <1>1, <2>1 DEF Text
  <2>3. Len(comm \o more) = new
    BY <1>1, <1>3, <1>4, <1>9, <2>1 DEF Text
  <2>4. \A j \in 1 .. old : comm[j] = text[j]
    BY <1>1, <1>9, PrefixFact
  <2>5. \A j \in 1 .. new : (comm \o more)[j] = text[j]
    <3> TAKE j \in 1 .. new
    <3>1. CASE j <= old
      <4>1. j \in 1 .. Len(comm)
        BY <1>3, <1>4, <1>9, <3>1
      <4>2. (comm \o more)[j] = comm[j]
        BY <1>1, <2>1, <4>1 DEF Text
      <4> QED  BY <2>4, <4>1, <4>2, <1>9
    <3>2. CASE j > old
      <4>1. /\ j - old \in 1 .. new - old
            /\ j \in Len(comm) + 1 .. Len(comm) + Len(more)
            /\ j - Len(comm) = j - old
            /\ old + (j - old) = j
        BY <1>3, <1>4, <1>9, <2>1, <3>2
      <4>2. (comm \o more)[j] = more[j - Len(comm)]
        BY <1>1, <2>1, <4>1 DEF Text
      <4>3. more[j - old] = text[old + (j - old)]
        BY <2>1, <4>1
      <4> QED  BY <4>1, <4>2, <4>3
    <3>3. j <= old \/ j > old
      <4> HIDE DEF grows
      <4>1. j \in Int /\ old \in Int
        BY <1>1, <1>3, <1>4
      <4> QED  BY <4>1
    <3> QED  BY <3>1, <3>2, <3>3
  <2>6. IsPrefix(comm \o more, text)
    <3>1. \A j \in 1 .. Len(comm \o more) : (comm \o more)[j] = text[j]
      BY <2>3, <2>5
    <3>2. Len(comm \o more) <= Len(text)
      BY <1>1, <1>4, <2>3
    <3> QED  BY <1>1, <2>2, <3>1, <3>2, PrefixFact
  <2> QED  BY <1>1, <2>1, <2>2, <2>3, <2>6, PrefixOfConcat
<1>10. IsPrefix(comm, comm)
  BY <1>1, PrefixFact
<1>11. v \in View
  <2>1. v.committed \in Text
    BY <1>1, <1>6, <1>9
  <2> QED  BY <2>1, <1>5, <1>6, <1>7, <1>8 DEF View
<1>12. c = 0 => ~ grows
  BY <1>3, <1>4
<1> HIDE DEF grows
<1>13. IsPrefix(view.committed, v.committed)
  BY <1>6, <1>9, <1>10
<1>14. view.start = Len(view.committed) => v.start = Len(v.committed)
  BY <1>6, <1>9
<1>15. v.committed # view.committed => IsPrefix(v.committed, r.text) /\ Len(v.committed) <= c
  BY <1>4, <1>6, <1>9
<1>16. c = 0 => v.committed = view.committed
  BY <1>6, <1>12
<1> QED  BY <1>6, <1>11, <1>13, <1>14, <1>15, <1>16 DEF v

LEMMA FinalViewFact ==
  ASSUME view \in View, NEW r \in Result
  PROVE  /\ FinalView(r) \in View
         /\ view.committed = << >> \/ policy # "ON_FINALIZE" =>
              IsPrefix(view.committed, FinalView(r).committed)
<1>1. /\ r.text \in Text /\ Len(r.text) \in Nat
      /\ view.committed \in Text /\ << >> \in Text
  BY DEF View, Result, Text
<1>2. IsPrefix(view.committed, view.committed) /\ IsPrefix(<< >>, r.text)
  BY <1>1 DEF IsPrefix, Text
<1> QED  BY <1>1, <1>2 DEF FinalView, View

-----------------------------------------------------------------------------
(* The inductive invariant. What makes the properties hold together is that  *)
(* in an open stream the offset where the tentative text starts is the       *)
(* length of the committed text, and that after a good call the tentative    *)
(* text is the hypothesis from there on.                                     *)

StartIsCommitted == state = "ACTIVE" => view.start = Len(view.committed)

TentativeIsRest ==
  state = "ACTIVE" /\ answer = "OK" /\ result.has =>
    view.tentative =
      From(result.text, Utf8Floor(result.text, Least(view.start, Len(result.text))))

HiddenUntilFinal ==
  state = "ACTIVE" /\ policy = "ON_FINALIZE" =>
    /\ view.committed = << >>
    /\ answer = "OK" => result.ncommitted = 0

IInv ==
  /\ TypeOK
  /\ StartIsCommitted
  /\ TentativeIsRest
  /\ HiddenUntilFinal
  /\ FinalizedCovers

LEMMA InitIInv == Init => IInv
<1> SUFFICES ASSUME Init PROVE IInv
  OBVIOUS
<1>1. << >> \in Text /\ << >> \in Seq(Text)
  BY DEF Text
<1>2. NoResult \in Result /\ NoView \in View
  BY <1>1 DEF NoResult, NoView, Result, View
<1>3. TypeOK
  BY <1>1, <1>2 DEF Init, TypeOK, States, Policies, NoUpdate, Update, Answers, EffectiveN
<1> QED  BY <1>3 DEF Init, IInv, StartIsCommitted, TentativeIsRest,
           HiddenUntilFinal, FinalizedCovers

\* The steps that clear the text.
LEMMA ClearTextFact ==
  ASSUME TypeOK, NEW p \in Policies, NEW n \in AgreementNs \cup {0}, ClearText(p, n)
  PROVE  /\ policy' \in Policies
         /\ agreementN' \in AgreementNs \cup {0}
         /\ view' \in View /\ view'.committed = << >> /\ view'.start = 0
         /\ history' \in Seq(Text)
         /\ Len(history') <= EffectiveN(agreementN)'
         /\ revision' \in Nat
         /\ update' \in Update
         /\ family' = family
<1>1. << >> \in Text /\ << >> \in Seq(Text)
  BY DEF Text
<1>2. NoView \in View
  BY <1>1 DEF NoView, View
<1>3. Len(history') <= EffectiveN(agreementN)'
  <2>1. n \in Nat
    BY StreamTextAssumption
  <2> QED  BY <2>1 DEF ClearText, EffectiveN
<1> QED  BY <1>1, <1>2, <1>3 DEF ClearText, TypeOK, NoView

LEMMA BeginStep ==
  ASSUME IInv, result' \in Result, NEW p \in Policies, NEW n \in AgreementNs,
         NEW hook \in Answers, Begin(p, n, hook)
  PROVE  IInv'
<1>1. ClearText(p, n) /\ TypeOK
  BY DEF Begin, IInv
<1>2. TypeOK'
  BY <1>1, ClearTextFact DEF Begin, TypeOK, States, Answers
<1>3. StartIsCommitted'
  BY <1>1, ClearTextFact DEF StartIsCommitted
<1>4. TentativeIsRest' /\ HiddenUntilFinal' /\ FinalizedCovers'
  BY <1>1, ClearTextFact
     DEF Begin, NoResult, TentativeIsRest, HiddenUntilFinal, FinalizedCovers
<1> QED  BY <1>2, <1>3, <1>4 DEF IInv

LEMMA ResetStep ==
  ASSUME IInv, result' \in Result, Reset \/ Run(result')
  PROVE  IInv'
<1>1. ClearText("AUTO", 0) /\ TypeOK /\ "AUTO" \in Policies /\ 0 \in AgreementNs \cup {0}
  BY DEF Reset, Run, IInv, Policies
<1>2. state' = "IDLE" /\ answer' = "OK"
  BY DEF Reset, Run
<1>3. TypeOK'
  BY <1>1, <1>2, ClearTextFact DEF TypeOK, States, Answers
<1> QED  BY <1>2, <1>3 DEF IInv, StartIsCommitted, TentativeIsRest,
           HiddenUntilFinal, FinalizedCovers

\* What a good call publishes has the right types.
LEMMA PublishFact ==
  ASSUME TypeOK, NEW r \in Result, NEW v \in View, NEW bump \in {0, 1},
         NEW said \in BOOLEAN, NEW given \in BOOLEAN, Publish(r, v, bump, said, given)
  PROVE  revision' \in Nat /\ update' \in Update
<1>1. revision' \in Nat
  BY DEF Publish, TypeOK
<1>2. update' \in Update
  BY DEF Publish, TypeOK, Update, NoUpdate
<1> QED  BY <1>1, <1>2

LEMMA NoTentativeFact ==
  ASSUME view \in View
  PROVE  NoTentative \in View /\ NoTentative.committed = view.committed
           /\ NoTentative.start = view.start /\ NoTentative.tentative = << >>
<1>1. << >> \in Text
  BY DEF Text
<1> QED  BY <1>1 DEF NoTentative, View

LEMMA FeedStep ==
  ASSUME IInv, result' \in Result, NEW stable \in 0 .. Len(result'.text),
         NEW bump \in {0, 1}, NEW said \in BOOLEAN, NEW given \in BOOLEAN,
         FeedOk(result', stable, bump, said, given)
  PROVE  IInv'
<1> DEFINE r == result'
           c == Candidate(r, stable)
<1>1. TypeOK /\ view \in View /\ r \in Result /\ stable \in Nat
  BY DEF IInv, TypeOK, Result, Text
<1>2. c \in Nat
  BY <1>1, CandidateFact
<1>3. /\ state = "ACTIVE" /\ state' = "ACTIVE" /\ answer' = "OK"
      /\ UNCHANGED << family, policy, agreementN >>
      /\ view' = IF r.has THEN FeedView(r, c) ELSE NoTentative
      /\ history' = HistoryAfter(r)
      /\ Publish(r, view', bump, said, given)
  BY DEF FeedOk
<1>4. policy = "ON_FINALIZE" => r.ncommitted = 0 /\ c = 0
  BY <1>1 DEF FeedOk, Candidate, Result
<1> HIDE DEF c, r
<1>5. view' \in View
  BY <1>1, <1>2, <1>3, FeedViewFact, NoTentativeFact
<1>6. TypeOK'
  <2>1. revision' \in Nat /\ update' \in Update
    BY <1>1, <1>3, <1>5, PublishFact
  <2>2. history' \in Seq(Text) /\ Len(history') <= EffectiveN(agreementN)
    BY <1>1, <1>3, HistoryFact
  <2>3. EffectiveN(agreementN)' = EffectiveN(agreementN)
    BY <1>3 DEF EffectiveN
  <2> QED  BY <1>1, <1>3, <1>5, <2>1, <2>2, <2>3 DEF TypeOK, Answers
<1>7. StartIsCommitted'
  BY <1>1, <1>2, <1>3, FeedViewFact, NoTentativeFact DEF IInv, StartIsCommitted
<1>8. TentativeIsRest'
  BY <1>1, <1>2, <1>3, FeedViewFact DEF TentativeIsRest, r
<1>9. HiddenUntilFinal'
  BY <1>1, <1>2, <1>3, <1>4, FeedViewFact, NoTentativeFact DEF IInv, HiddenUntilFinal, r
<1>10. FinalizedCovers'
  BY <1>3 DEF FinalizedCovers
<1> QED  BY <1>6, <1>7, <1>8, <1>9, <1>10 DEF IInv

LEMMA FinalizeStep ==
  ASSUME IInv, result' \in Result,
         NEW bump \in {0, 1}, NEW said \in BOOLEAN, NEW given \in BOOLEAN,
         FinalizeOk(result', bump, said, given)
  PROVE  IInv'
<1>1. TypeOK /\ view \in View
  BY DEF IInv, TypeOK
<1>2. /\ state = "ACTIVE" /\ state' = "FINISHED" /\ answer' = "OK"
      /\ UNCHANGED << family, policy, agreementN, history >>
      /\ view' = IF result'.has THEN FinalView(result') ELSE NoTentative
      /\ Publish(result', view', bump, said, given)
  BY DEF FinalizeOk
<1>3. view' \in View
  BY <1>1, <1>2, FinalViewFact, NoTentativeFact
<1>4. TypeOK'
  <2>1. revision' \in Nat /\ update' \in Update
    BY <1>1, <1>2, <1>3, PublishFact
  <2>2. EffectiveN(agreementN)' = EffectiveN(agreementN)
    BY <1>2 DEF EffectiveN
  <2> QED  BY <1>1, <1>2, <1>3, <2>1, <2>2 DEF TypeOK, States, Answers
<1>5. FinalizedCovers'
  BY <1>1, <1>2, NoTentativeFact DEF FinalizedCovers, FinalView
<1> QED  BY <1>2, <1>4, <1>5 DEF IInv, StartIsCommitted, TentativeIsRest,
           HiddenUntilFinal

LEMMA FailStep ==
  ASSUME IInv, result' \in Result, NEW hook \in {"ERR", "THROWN"},
         NEW bump \in {0, 1}, NEW said \in BOOLEAN, NEW given \in BOOLEAN,
         HookFails(hook, result', bump, said, given)
  PROVE  IInv'
<1>1. /\ TypeOK /\ state = "ACTIVE" /\ state' \in {"FAILED", "ACTIVE"}
      /\ answer' \in {"ERR", "THROWN"}
      /\ UNCHANGED << family, policy, agreementN, view, history >>
  BY DEF IInv, HookFails
<1>2. TypeOK'
  <2>1. revision' \in Nat
    BY <1>1 DEF HookFails, TypeOK
  <2>2. update' \in Update
    BY DEF HookFails, NoUpdate, Update
  <2>3. EffectiveN(agreementN)' = EffectiveN(agreementN)
    BY <1>1 DEF EffectiveN
  <2> QED  BY <1>1, <2>1, <2>2, <2>3 DEF TypeOK, States, Answers
<1> QED  BY <1>1, <1>2 DEF IInv, StartIsCommitted, TentativeIsRest,
           HiddenUntilFinal, FinalizedCovers

LEMMA StutterStep == ASSUME IInv, UNCHANGED textVars PROVE IInv'
BY DEF IInv, TypeOK, StartIsCommitted, TentativeIsRest, HiddenUntilFinal,
       FinalizedCovers, textVars

LEMMA NextIInv == IInv /\ [Next]_textVars => IInv'
<1> SUFFICES ASSUME IInv, [Next]_textVars PROVE IInv'
  OBVIOUS
<1>1. CASE Next
  <2>1. result' \in Result
    BY <1>1 DEF Next
  <2>2. CASE \E p \in Policies, n \in AgreementNs, hook \in Answers : Begin(p, n, hook)
    BY <2>1, <2>2, BeginStep
  <2>3. CASE \E stable \in 0 .. Len(result'.text), bump \in {0, 1},
               said \in BOOLEAN, given \in BOOLEAN :
                 FeedOk(result', stable, bump, said, given)
    BY <2>1, <2>3, FeedStep
  <2>4. CASE \E bump \in {0, 1}, said \in BOOLEAN, given \in BOOLEAN :
               FinalizeOk(result', bump, said, given)
    BY <2>1, <2>4, FinalizeStep
  <2>5. CASE \E hook \in {"ERR", "THROWN"}, bump \in {0, 1},
               said \in BOOLEAN, given \in BOOLEAN :
                 HookFails(hook, result', bump, said, given)
    BY <2>1, <2>5, FailStep
  <2>6. CASE Reset \/ Run(result')
    BY <2>1, <2>6, ResetStep
  <2> QED  BY <1>1, <2>2, <2>3, <2>4, <2>5, <2>6 DEF Next
<1>2. CASE UNCHANGED textVars
  BY <1>2, StutterStep
<1> QED  BY <1>1, <1>2

THEOREM Invariance == Spec => []IInv
BY InitIInv, NextIInv, PTL DEF Spec

-----------------------------------------------------------------------------
(* The theorems.                                                           *)

\* Types, and the bound on the hypotheses that the generic policy remembers.
THEOREM TypeCorrect == Spec => []TypeOK
BY Invariance, PTL DEF IInv

\* A finished stream shows nothing tentative, and commits the final text unless
\* that contradicts what was committed before (finalize_committed_text).
THEOREM FinishedStreamsCover == Spec => []FinalizedCovers
BY Invariance, PTL DEF IInv

LEMMA FromStart ==
  ASSUME NEW s \in Text
  PROVE  From(s, Utf8Floor(s, Least(0, Len(s)))) = s
<1>1. Len(s) \in Nat /\ Least(0, Len(s)) = 0
  BY DEF Text, Least
<1>2. Utf8Floor(s, 0) = 0
  BY <1>1, FloorFact
<1> QED  BY <1>1, <1>2 DEF From, Text

\* ON_FINALIZE keeps everything tentative until finalize.
THEOREM HiddenUntilFinalize == Spec => []OnFinalizeHides
<1>1. IInv => OnFinalizeHides
  <2> SUFFICES ASSUME IInv, state = "ACTIVE", policy = "ON_FINALIZE", answer = "OK",
                      result.has
               PROVE  view.tentative = result.text
    BY DEF IInv, HiddenUntilFinal, OnFinalizeHides
  <2>1. view.start = 0
    BY DEF IInv, HiddenUntilFinal, StartIsCommitted
  <2>2. view.tentative = From(result.text, Utf8Floor(result.text, Least(0, Len(result.text))))
    BY <2>1 DEF IInv, TentativeIsRest
  <2>3. result.text \in Text
    BY DEF IInv, TypeOK, Result
  <2> QED  BY <2>2, <2>3, FromStart
<1> QED  BY <1>1, Invariance, PTL

\* Committed and tentative text join into the hypothesis: the caption a display
\* draws has no gap and no overlap (apply_stream_text_policy).
THEOREM Seamless == Spec => []SeamCoherent
<1>1. IInv => SeamCoherent
  <2> SUFFICES ASSUME IInv, state = "ACTIVE", answer = "OK", result.has,
                      IsPrefix(view.committed, result.text),
                      Utf8Floor(result.text, Len(view.committed)) = Len(view.committed)
               PROVE  view.committed \o view.tentative = result.text
    BY DEF SeamCoherent
  <2>1. /\ view.committed \in Text /\ Len(view.committed) \in Nat
        /\ result.text \in Text /\ Len(result.text) \in Nat
    BY DEF IInv, TypeOK, View, Result, Text
  <2>2. Len(view.committed) <= Len(result.text)
    BY <2>1, PrefixFact
  <2>3. Least(view.start, Len(result.text)) = Len(view.committed)
    BY <2>1, <2>2 DEF IInv, StartIsCommitted, Least
  <2>4. view.tentative = From(result.text, Len(view.committed))
    BY <2>3 DEF IInv, TentativeIsRest
  <2> QED  BY <2>1, <2>4, JoinFact
<1> QED  BY <1>1, Invariance, PTL

\* An open stream's committed text only grows, whatever call is made but a reset
\* (append_committed_raw_prefix, finalize_committed_text).
LEMMA CommittedGrows ==
  ASSUME IInv, Next, state = "ACTIVE", state' # "IDLE"
  PROVE  IsPrefix(view.committed, view'.committed)
<1>1. TypeOK /\ view \in View /\ result' \in Result
  BY DEF IInv, TypeOK, Next
<1>2. IsPrefix(view.committed, view.committed)
  BY <1>1, PrefixFact DEF View, Text
<1>3. ASSUME NEW stable \in 0 .. Len(result'.text), NEW bump, NEW said, NEW given,
             FeedOk(result', stable, bump, said, given)
      PROVE  IsPrefix(view.committed, view'.committed)
  <2>1. stable \in Nat
    BY <1>1 DEF Result, Text
  <2>2. Candidate(result', stable) \in Nat
    BY <1>1, <2>1, CandidateFact
  <2>3. IsPrefix(view.committed, FeedView(result', Candidate(result', stable)).committed)
    BY <1>1, <2>2, FeedViewFact
  <2> QED  BY <1>1, <1>2, <1>3, <2>3, NoTentativeFact DEF FeedOk
<1>4. ASSUME NEW bump, NEW said, NEW given, FinalizeOk(result', bump, said, given)
      PROVE  IsPrefix(view.committed, view'.committed)
  <2>1. view.committed = << >> \/ policy # "ON_FINALIZE"
    BY DEF IInv, HiddenUntilFinal
  <2>2. IsPrefix(view.committed, FinalView(result').committed)
    BY <1>1, <2>1, FinalViewFact
  <2> QED  BY <1>1, <1>2, <1>4, <2>2, NoTentativeFact DEF FinalizeOk
<1>5. ASSUME NEW hook, NEW bump, NEW said, NEW given,
             HookFails(hook, result', bump, said, given)
      PROVE  IsPrefix(view.committed, view'.committed)
  BY <1>2, <1>5 DEF HookFails
<1> QED  BY <1>3, <1>4, <1>5 DEF Next, Begin, Reset, Run

\* The committed text is an append-only log: every step of the dispatcher is a step
\* of CaptionLog, or leaves its two variables alone.
THEOREM CommittedIsCaptionLog == Spec => CaptionSpec
<1>1. Init => Captions!Init
  BY DEF Init, Captions!Init, NoView
<1>2. IInv /\ [Next]_textVars => [Captions!Next]_(Captions!logVars)
  <2> SUFFICES ASSUME IInv, [Next]_textVars
               PROVE  Captions!Next \/ UNCHANGED Captions!logVars
    OBVIOUS
  <2> USE DEF Captions!Next, Captions!Clear, Captions!Grow, Captions!logVars
  <2>1. CASE UNCHANGED textVars
    BY <2>1 DEF textVars
  <2>2. ASSUME NEW p, NEW n, ClearText(p, n), state' \in States
        PROVE  Captions!Clear
    BY <2>2 DEF ClearText, NoView
  <2>3. CASE \E p \in Policies, n \in AgreementNs, hook \in Answers : Begin(p, n, hook)
    BY <2>2, <2>3 DEF Begin, States
  <2>4. CASE Reset \/ Run(result')
    BY <2>2, <2>4 DEF Reset, Run, States
  <2>5. ASSUME Next, state = "ACTIVE", state' # "IDLE" PROVE Captions!Grow
    <3>1. view' \in View
      BY <2>5, NextIInv DEF IInv, TypeOK
    <3>2. IsPrefix(view.committed, view'.committed)
      BY <2>5, CommittedGrows
    <3> QED  BY <2>5, <3>1, <3>2 DEF View, Text, States, IsPrefix, Captions!IsPrefix
  <2>6. Next => \/ \E p \in Policies, n \in AgreementNs, hook \in Answers : Begin(p, n, hook)
                \/ Reset \/ Run(result')
                \/ state = "ACTIVE" /\ state' # "IDLE"
    BY DEF Next, FeedOk, FinalizeOk, HookFails
  <2> QED  BY <2>1, <2>3, <2>4, <2>5, <2>6
<1> QED  BY <1>1, <1>2, Invariance, PTL DEF Spec, CaptionSpec, Captions!Spec

\* What a good step publishes, action by action: the cases of a step of an open
\* stream that answers OK and stays a stream.
LEMMA GoodStep ==
  ASSUME IInv, Next, state = "ACTIVE", answer' = "OK", state' # "IDLE"
  PROVE  /\ result' \in Result
         /\ \/ \E stable \in 0 .. Len(result'.text), bump \in {0, 1},
                 said \in BOOLEAN, given \in BOOLEAN :
                   FeedOk(result', stable, bump, said, given)
            \/ \E bump \in {0, 1}, said \in BOOLEAN, given \in BOOLEAN :
                   FinalizeOk(result', bump, said, given)
BY DEF Next, Begin, HookFails, Reset, Run

\* The committed text after a feed, whichever branch it took.
LEMMA FeedCommits ==
  ASSUME IInv, result' \in Result, NEW stable \in 0 .. Len(result'.text),
         NEW bump, NEW said, NEW given, FeedOk(result', stable, bump, said, given),
         view'.committed # view.committed
  PROVE  /\ result'.has
         /\ IsPrefix(view'.committed, result'.text)
         /\ Len(view'.committed) <= Candidate(result', stable)
         /\ Candidate(result', stable) \in Nat
<1>1. TypeOK /\ view \in View /\ stable \in Nat
  BY DEF IInv, TypeOK, Result, Text
<1>2. Candidate(result', stable) \in Nat
  BY <1>1, CandidateFact
<1>3. view' = IF result'.has THEN FeedView(result', Candidate(result', stable))
                             ELSE NoTentative
  BY DEF FeedOk
<1> QED  BY <1>1, <1>2, <1>3, FeedViewFact, NoTentativeFact

\* After a call that commits more, the current hypothesis starts with everything
\* committed (append_committed_raw_prefix, finalize_committed_text).
THEOREM CommitsAreSpoken == Spec => CommittedIsSpoken
<1>1. IInv /\ [Next]_textVars =>
        [state = "ACTIVE" /\ answer' = "OK" /\ state' # "IDLE"
           /\ view'.committed # view.committed =>
             IsPrefix(view'.committed, result'.text)]_textVars
  <2> SUFFICES ASSUME IInv, Next, state = "ACTIVE", answer' = "OK", state' # "IDLE",
                      view'.committed # view.committed
               PROVE  IsPrefix(view'.committed, result'.text)
    OBVIOUS
  <2>1. result' \in Result /\ result'.text \in Text /\ view \in View
    BY GoodStep DEF Result, IInv, TypeOK
  <2>2. ASSUME NEW stable \in 0 .. Len(result'.text), NEW bump, NEW said, NEW given,
               FeedOk(result', stable, bump, said, given)
        PROVE  IsPrefix(view'.committed, result'.text)
    BY <2>1, <2>2, FeedCommits
  <2>3. ASSUME NEW bump, NEW said, NEW given, FinalizeOk(result', bump, said, given)
        PROVE  IsPrefix(view'.committed, result'.text)
    <3>1. view' = IF result'.has THEN FinalView(result') ELSE NoTentative
      BY <2>3 DEF FinalizeOk
    <3>2. view'.committed = result'.text
      BY <2>1, <3>1, NoTentativeFact DEF FinalView
    <3> QED  BY <2>1, <3>2, PrefixFact
  <2> QED  BY <2>2, <2>3, GoodStep
<1> QED  BY <1>1, Invariance, PTL DEF Spec, CommittedIsSpoken

\* Under the generic policy every hypothesis remembered starts with what a feed
\* leaves committed (generic_candidate_raw_prefix_bytes).
THEOREM CommitsAreAgreed == Spec => CommitNeedsAgreement
<1>1. IInv /\ [Next]_textVars =>
        [/\ state = "ACTIVE" /\ state' = "ACTIVE"
         /\ view'.committed # view.committed
         /\ ~ FamilyPrefix /\ EffectiveN(agreementN) > 1
         => /\ Len(history') = EffectiveN(agreementN)
            /\ \A i \in DOMAIN history' : IsPrefix(view'.committed, history'[i])]_textVars
  <2> SUFFICES ASSUME IInv, Next, state = "ACTIVE", state' = "ACTIVE",
                      view'.committed # view.committed,
                      ~ FamilyPrefix, EffectiveN(agreementN) > 1
               PROVE  /\ Len(history') = EffectiveN(agreementN)
                      /\ \A i \in DOMAIN history' :
                           IsPrefix(view'.committed, history'[i])
    OBVIOUS
  <2>1. PICK stable \in 0 .. Len(result'.text), bump \in {0, 1},
             said \in BOOLEAN, given \in BOOLEAN :
               FeedOk(result', stable, bump, said, given)
    BY DEF Next, Begin, FinalizeOk, HookFails, Reset, Run
  <2> DEFINE r == result'
             h == HistoryAfter(r)
             agreed == AgreedPrefix(h)
             committed == view'.committed
  <2>2. /\ r \in Result /\ r.text \in Text /\ TypeOK /\ TypeOK' /\ r.has
        /\ history' = h /\ agreementN \in Nat
    <3>1. r \in Result /\ r.text \in Text /\ TypeOK /\ agreementN \in Nat
      BY StreamTextAssumption DEF Next, Result, IInv, TypeOK
    <3>2. TypeOK'
      BY NextIInv DEF IInv
    <3> QED  BY <2>1, <3>1, <3>2, FeedCommits DEF FeedOk
  <2>3. /\ IsPrefix(committed, r.text)
        /\ Len(committed) <= Candidate(r, stable)
        /\ Candidate(r, stable) \in Nat
        /\ committed \in Text /\ Len(committed) \in Nat
    <3>1. committed \in Text /\ Len(committed) \in Nat
      BY <2>2 DEF TypeOK, View, Text
    <3> QED  BY <2>1, <2>2, <3>1, FeedCommits
  <2>4. committed # << >>
    <3>1. IsPrefix(view.committed, committed) /\ view.committed \in Text
      <4>1. view \in View /\ stable \in Nat
        BY <2>2 DEF TypeOK, Text
      <4>2. view' = FeedView(r, Candidate(r, stable))
        BY <2>1, <2>2 DEF FeedOk
      <4> QED  BY <2>2, <2>3, <4>1, <4>2, FeedViewFact DEF View
    <3>2. committed = << >> => Len(view.committed) = 0
      <4>1. Len(view.committed) <= Len(committed) /\ Len(view.committed) \in Nat
        BY <2>3, <3>1, PrefixFact DEF Text
      <4>2. committed = << >> => Len(committed) = 0
        OBVIOUS
      <4> HIDE DEF committed
      <4> QED  BY <4>1, <4>2
    <3>3. Len(view.committed) = 0 => view.committed = << >>
      BY <3>1 DEF Text
    <3>4. committed # view.committed
      OBVIOUS
    <3> HIDE DEF committed
    <3> QED  BY <3>2, <3>3, <3>4
  <2>5. UsesTextHistory(r)
    <3>1. policy # "ON_FINALIZE"
      <4> SUFFICES ASSUME policy = "ON_FINALIZE" PROVE FALSE
        OBVIOUS
      <4>1. Candidate(r, stable) = 0
        BY DEF Candidate
      <4>2. Len(committed) = 0
        BY <2>3, <4>1
      <4> QED  BY <2>3, <2>4, <4>2 DEF Text
    <3> QED  BY <2>2, <3>1 DEF UsesTextHistory
  <2>6. h \in Seq(Text) /\ Len(h) > 0 /\ h[Len(h)] = r.text
          /\ Len(h) <= EffectiveN(agreementN)
    BY <2>2, <2>5, HistoryFact
  <2>7. Candidate(r, stable) =
          IF Len(h) < EffectiveN(agreementN) THEN 0 ELSE Utf8Floor(r.text, agreed)
    BY <2>5, StreamTextAssumption DEF Candidate, UsesTextHistory
  <2>8. EffectiveN(agreementN) \in Nat /\ Len(h) \in Nat
    BY <2>2, <2>6, EffectiveFact
  <2> HIDE DEF r, h, agreed, committed
  <2>9. Len(h) = EffectiveN(agreementN) /\ Candidate(r, stable) = Utf8Floor(r.text, agreed)
    <3>1. Len(committed) # 0
      BY <2>3, <2>4 DEF Text
    <3> QED  BY <2>3, <2>6, <2>7, <2>8, <3>1
  <2>10. /\ agreed \in Nat
         /\ \A i \in 1 .. Len(h) :
              /\ h[i] \in Text
              /\ agreed <= Len(h[i])
              /\ \A j \in 1 .. agreed : h[1][j] = h[i][j]
    <3>1. h[1] \in Text
      BY <2>6
    <3>2. agreed \in 0 .. Len(h[1])
      BY <2>6, AgreedFact DEF agreed
    <3>3. \A i \in 1 .. Len(h) : h[i] \in Text
      BY <2>6
    <3>4. \A i \in 1 .. Len(h) : /\ agreed <= Len(h[i])
                                 /\ \A j \in 1 .. agreed : h[1][j] = h[i][j]
      BY <2>6, AgreedFact DEF agreed
    <3>5. agreed \in Nat
      BY <3>1, <3>2 DEF Text
    <3> QED  BY <3>3, <3>4, <3>5
  <2>11. Len(committed) <= agreed
    <3>1. agreed <= Len(r.text)
      BY <2>6, <2>8, <2>10
    <3>2. Utf8Floor(r.text, agreed) <= agreed /\ Utf8Floor(r.text, agreed) \in Nat
      BY <2>2, <2>10, <3>1, FloorFact DEF Text
    <3> QED  BY <2>3, <2>9, <2>10, <3>2
  <2>12. ASSUME NEW i \in 1 .. Len(h) PROVE IsPrefix(committed, h[i])
    <3>1. \A j \in 1 .. Len(committed) : committed[j] = r.text[j]
      BY <2>2, <2>3, PrefixFact
    <3>2. \A j \in 1 .. agreed : r.text[j] = h[1][j]
      BY <2>6, <2>8, <2>10
    <3>3. \A j \in 1 .. Len(committed) : j \in 1 .. agreed
      BY <2>3, <2>10, <2>11
    <3>4. \A j \in 1 .. Len(committed) : committed[j] = h[i][j]
      BY <2>10, <3>1, <3>2, <3>3
    <3>5. Len(committed) <= Len(h[i])
      BY <2>3, <2>10, <2>11 DEF Text
    <3> QED  BY <2>3, <2>10, <3>4, <3>5, PrefixFact
  <2>13. DOMAIN history' = 1 .. Len(h)
    BY <2>2, <2>6
  <2> QED  BY <2>2, <2>9, <2>12, <2>13 DEF committed
<1> QED  BY <1>1, Invariance, PTL DEF Spec, CommitNeedsAgreement

\* A caller that polls the revision misses no change (publish_observable_delta).
THEOREM ReportsAreHonest == Spec => ReportTells
<1>1. IInv /\ [Next]_textVars =>
        [state = "ACTIVE" /\ answer' = "OK" /\ state' # "IDLE" =>
           /\ \/ result'.has # result.has
              \/ result'.text # result.text
              \/ view'.committed # view.committed
              \/ view'.tentative # view.tentative
              => revision' > revision
           /\ update'.given => (update'.changed <=> revision' # revision)]_textVars
  <2> SUFFICES ASSUME IInv, Next, state = "ACTIVE", answer' = "OK", state' # "IDLE"
               PROVE  /\ \/ result'.has # result.has
                         \/ result'.text # result.text
                         \/ view'.committed # view.committed
                         \/ view'.tentative # view.tentative
                         => revision' > revision
                      /\ update'.given => (update'.changed <=> revision' # revision)
    OBVIOUS
  <2>1. PICK r \in Result, bump \in {0, 1}, said \in BOOLEAN, given \in BOOLEAN :
          /\ Publish(r, view', bump, said, given)
          /\ r.has = result'.has /\ r.text = result'.text
    <3>1. CASE \E stable \in 0 .. Len(result'.text), bump \in {0, 1},
                 said \in BOOLEAN, given \in BOOLEAN :
                   FeedOk(result', stable, bump, said, given)
      BY <3>1, GoodStep DEF FeedOk
    <3>2. CASE \E bump \in {0, 1}, said \in BOOLEAN, given \in BOOLEAN :
                 FinalizeOk(result', bump, said, given)
      BY <3>2, GoodStep DEF FinalizeOk
    <3> QED  BY <3>1, <3>2, GoodStep
  <2>2. revision \in Nat
    BY DEF IInv, TypeOK
  <2> QED  BY <2>1, <2>2 DEF Publish, NoUpdate
<1> QED  BY <1>1, Invariance, PTL DEF Spec, ReportTells

=============================================================================
